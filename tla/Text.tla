-------------------------------- MODULE Text --------------------------------
(***************************************************************************)
(* From characters to lists and back: reader, which takes a line with its  *)
(* continuations from a file, parser, which makes lists of words of it     *)
(* (parse.c), and the printing of lists with FULLPRINTP TRUE (print.c),    *)
(* on which SAVE and EDIT rely.                                            *)
(*                                                                         *)
(* A character is <<c, quoted>>: quoted is the parity that a backslash or  *)
(* bars give to a special character.  "a" stands for all characters that   *)
(* are not special, "q" for the quotation mark, "+" for the infix          *)
(* operators, "n" for newline, "0" for the end.  The comments of parser    *)
(* are those of instructions (semi TRUE).  Not modelled: braces and        *)
(* arrays, END, tabs, numbers, and the limits of depth and width.          *)
(***************************************************************************)
EXTENDS Integers, SequencesExt

Special == {" ", "n", "[", "]", "(", ")", "|", "\\", ";", "~", "q", "+"}
Plain(c) == <<c, FALSE>>
Quoted(c) == <<c, c \in Special>>
IsChar(ch, c) == ch = Plain(c)

---------------------------------------------------------------------------
(* reader: lines go on as long as a bar, a parenthesis or a bracket is     *)
(* open; after a tilde, spaces and the next character are taken as they    *)
(* are.  mode is "text", "escape", "tilde" or "done".                      *)
NewLine == [line |-> <<>>, vbar |-> FALSE, paren |-> 0, bracket |-> 0, semi |-> FALSE, mode |-> "text", space |-> FALSE, used |-> 0]
Open(r) == r.vbar \/ r.paren > 0 \/ r.bracket > 0
Count(r, c) ==
    CASE c = "(" -> [r EXCEPT !.paren = @ + 1]
      [] c = ")" /\ r.paren > 0 -> [r EXCEPT !.paren = @ - 1]
      [] c = "[" -> [r EXCEPT !.bracket = @ + 1]
      [] c = "]" /\ r.bracket > 0 -> [r EXCEPT !.bracket = @ - 1]
      [] c = ";" -> [r EXCEPT !.semi = TRUE]
      [] c = "n" -> [r EXCEPT !.semi = FALSE]
      [] OTHER -> r
(* Mutant: brackets in comments count.                                     *)
ReadPlainComment(r, c) ==
    LET s == CASE c = "|" /\ ~r.semi -> [r EXCEPT !.vbar = ~@]
               [] c = "n" -> [r EXCEPT !.semi = FALSE]
               [] c \notin {"|", "n"} /\ ~r.vbar -> Count(r, c)
               [] OTHER -> r
    IN [s EXCEPT !.line = Append(@, Plain(c)), !.space = FALSE, !.mode = IF ~s.vbar /\ c = "~" THEN "tilde" ELSE "text"]
ReadPlain(r, c) ==
    LET s == CASE c = "|" /\ ~r.semi -> [r EXCEPT !.vbar = ~@]
               [] c = "n" -> [r EXCEPT !.semi = FALSE]
               [] c \notin {"|", "n"} /\ ~r.vbar /\ ~r.semi -> Count(r, c)
               [] OTHER -> r
    IN [s EXCEPT !.line = Append(@, Plain(c)), !.space = FALSE, !.mode = IF ~s.vbar /\ c = "~" THEN "tilde" ELSE "text"]
ReadAfterTilde(r, c) ==
    IF c = " " THEN [r EXCEPT !.space = TRUE]
    ELSE [Count(r, c) EXCEPT !.line = @ \o (IF r.space /\ c # "n" THEN <<Plain(" ")>> ELSE <<>>) \o <<Plain(c)>>,
                             !.space = FALSE, !.mode = IF c = "~" THEN "tilde" ELSE "text"]
ReadChar1(r, c) ==
    CASE r.mode = "done" -> r
      [] r.mode = "escape" -> [r EXCEPT !.line = Append(@, Quoted(c)), !.mode = "text", !.used = @ + 1]
      [] r.mode = "tilde" -> [ReadAfterTilde(r, c) EXCEPT !.used = @ + 1]
      [] r.mode = "text" /\ c = "n" /\ ~Open(r) -> [r EXCEPT !.mode = "done", !.used = @ + 1]
      [] r.mode = "text" /\ c = "\\" -> [r EXCEPT !.mode = "escape", !.used = @ + 1]
      [] OTHER -> [ReadPlain(r, c) EXCEPT !.used = @ + 1]
reader(text) == FoldLeft(ReadChar1, NewLine, text)

---------------------------------------------------------------------------
(* mend_strnzcpy: n characters of a word that begins at a place in a line  *)
(* and has bars, comments or continuations in it, which are found again.   *)
Joins(line, at) == IsChar(line[at], "~") /\ IsChar(line[at + 1], "n")
EndsComment(line, at) == IsChar(line[at], "0") \/ IsChar(line[at], "~") \/ IsChar(line[at + 1], "n")
RECURSIVE Mended(_, _, _, _)
Mended(line, at, vbar, n) ==
    CASE n = 0 -> <<>>
      [] n > 0 /\ IsChar(line[at], "|") -> Mended(line, at + 1, ~vbar, n)
      [] n > 0 /\ ~vbar /\ Joins(line, at) -> Mended(line, at + 2, vbar, n)
      [] n > 0 /\ ~vbar /\ IsChar(line[at], ";") ->
           Mended(line, Min({i \in at + 1 .. Len(line) - 1 : EndsComment(line, i)}), vbar, n)
      [] OTHER -> <<IF vbar THEN Quoted(line[at][1]) ELSE line[at]>> \o Mended(line, at + 1, vbar, n - 1)

(* parser: up is the list being made in each open bracket, bars whether    *)
(* the word in it has had bars and broken whether that word is to be       *)
(* mended, word the characters counted of the word being made, which       *)
(* begins at wptr; mode is "text", "comment", "skip" (the newline after a  *)
(* tilde) or "joined" (the character after).  A word is marked when it has *)
(* had bars or backslashes (its node is a VBAR_STRING or a                 *)
(* BACKSLASH_STRING).                                                      *)
Word(chars, counted, marked) == [is |-> "word", of |-> chars, counted |-> counted, marked |-> marked]
List1(items) == [is |-> "list", of |-> items, marked |-> FALSE]
ParseStart == [up |-> <<<<>>>>, bars |-> <<FALSE>>, broken |-> <<FALSE>>, word |-> <<>>, wptr |-> 1,
               vbar |-> FALSE, mode |-> "text", err |-> FALSE]
White(ch) == ch \in {Plain(" "), Plain("n"), Plain("0")}
Bracket(ch) == ch \in {Plain("["), Plain("]")}
HasQuoted(chars) == \E i \in DOMAIN chars : chars[i][2]

Depth(p) == Len(p.up)
AddTo(p, item) == [p EXCEPT !.up[Depth(p)] = Append(@, item)]
EndWord(p, line) ==
    LET n == Len(p.word)
        chars == IF p.broken[Depth(p)] THEN Mended(line, p.wptr, FALSE, n) ELSE SubSeq(line, p.wptr, p.wptr + n - 1)
    IN IF n = 0 /\ ~p.bars[Depth(p)] THEN p
       ELSE [AddTo(p, Word(chars, p.word, p.bars[Depth(p)] \/ HasQuoted(p.word)))
             EXCEPT !.word = <<>>, !.bars[Depth(p)] = FALSE, !.broken[Depth(p)] = FALSE]
OpenList(p) == [p EXCEPT !.up = Append(@, <<>>), !.bars = Append(@, FALSE), !.broken = Append(@, FALSE)]
CloseList(p) == AddTo([p EXCEPT !.up = Front(@), !.bars = Front(@), !.broken = Front(@)], List1(Last(p.up)))
Put(p, ch) == [p EXCEPT !.word = Append(@, IF p.vbar THEN Quoted(ch[1]) ELSE ch)]
Breaks(p) == [p EXCEPT !.broken[Depth(p)] = @ \/ p.word # <<>>]
At(p, i) == IF p.vbar \/ p.word # <<>> THEN p ELSE [p EXCEPT !.wptr = i]

(* One character of line, with the next one known.                         *)
ParseChar(p, line, ch, next) ==
    LET s == CASE IsChar(ch, "|") -> [p EXCEPT !.vbar = ~@, !.bars[Depth(p)] = TRUE, !.broken[Depth(p)] = TRUE]
               [] ~IsChar(ch, "|") /\ (p.vbar \/ ~(White(ch) \/ Bracket(ch))) -> Put(p, ch)
               [] OTHER -> p
    IN CASE s.vbar -> s
         [] ~s.vbar /\ IsChar(ch, "[") -> OpenList(s)
         [] ~s.vbar /\ IsChar(ch, "]") -> IF Depth(s) > 1 THEN CloseList(s) ELSE [s EXCEPT !.err = TRUE]
         [] ~s.vbar /\ ~Bracket(ch) -> IF White(ch) \/ Bracket(next) THEN EndWord(s, line) ELSE s

ParseText(p, line, ch, next) ==
    CASE IsChar(ch, ";") /\ ~p.vbar ->
           IF IsChar(next, "n") THEN ParseChar(p, line, Plain("n"), next) ELSE [p EXCEPT !.mode = "comment"]
      [] IsChar(ch, "~") /\ IsChar(next, "n") /\ ~p.vbar -> [p EXCEPT !.mode = "skip"]
      [] OTHER -> ParseChar(p, line, ch, next)
InText(p) == [p EXCEPT !.mode = "text"]
Parse1(at, line, i) ==
    LET p == At(at, i) ch == line[i] next == line[i + 1]
    IN CASE p.mode = "text" -> ParseText(p, line, ch, next)
         [] p.mode = "skip" -> [p EXCEPT !.mode = "joined"]
         [] p.mode = "joined" ->
              IF p.word # <<>> /\ Bracket(ch)
                THEN ParseText(InText(ParseChar(p, line, Plain(" "), ch)), line, ch, next)
                ELSE ParseText(InText(Breaks(p)), line, ch, next)
         [] p.mode = "comment" ->
              CASE IsChar(ch, "~") -> ParseText(InText(Breaks(p)), line, ch, next)
                [] ~IsChar(ch, "~") /\ IsChar(next, "n") -> ParseChar(InText(Breaks(p)), line, Plain("n"), next)
                [] OTHER -> IF IsChar(ch, "0") THEN ParseChar(InText(Breaks(p)), line, ch, next) ELSE Breaks(p)
(* The characters of a line, then the closing of what is still open.       *)
Parsed(text) ==
    LET line == text \o <<Plain("0"), Plain("0")>>
    IN FoldLeftDomain(LAMBDA p, i : IF i = Len(line) THEN p ELSE Parse1(p, line, i), ParseStart, line)
parser(text) == LET p == Parsed(text) IN FoldLeft(LAMBDA q, i : CloseList(q), p, Tail(p.up)).up[1]

---------------------------------------------------------------------------
(* real_print_node with FULLPRINTP TRUE, as the characters of the file.    *)
PrintWord(w) ==
    LET text == [i \in DOMAIN w.of |-> w.of[i][1]]
        lead == IF w.of # <<>> /\ IsChar(w.of[1], "q") THEN 1 ELSE 0
    IN CASE w.of = <<>> -> <<"|", "|">>
         [] w.of # <<>> /\ HasQuoted(w.of) ->
              SubSeq(text, 1, lead) \o <<"|">> \o SubSeq(text, lead + 1, Len(text)) \o <<"|">>
         [] w.of # <<>> /\ ~HasQuoted(w.of) ->
              FoldLeft(LAMBDA out, c : out \o (IF w.marked /\ c \in Special THEN <<"\\", c>> ELSE <<c>>), <<>>, text)
RECURSIVE PrintNode(_)
(* real_print_help: the items with a space between them.                   *)
PrintItems(items) ==
    FoldLeftDomain(LAMBDA out, i : out \o (IF i > 1 THEN <<" ">> ELSE <<>>) \o PrintNode(items[i]), <<>>, items)
PrintNode(node) ==
    IF node.is = "word" THEN PrintWord(node)
    ELSE <<"[">> \o PrintItems(node.of) \o <<"]">>

---------------------------------------------------------------------------
RECURSIVE SameText(_, _)
SameText(a, b) ==
    /\ a.is = b.is
    /\ IF a.is = "word" THEN a.of = b.of
       ELSE Len(a.of) = Len(b.of) /\ \A i \in DOMAIN a.of : SameText(a.of[i], b.of[i])
RECURSIVE Words(_)
Words(node) == IF node.is = "word" THEN {node} ELSE UNION {Words(node.of[i]) : i \in DOMAIN node.of}

(* A word that real_print_node writes so that it can be read: its special  *)
(* characters are all quoted, but for a leading quotation mark, or none of *)
(* its characters is.  A plain parenthesis or tilde takes reader past the  *)
(* end of the line, and a quoted bar or backslash is printed as it is.     *)
Writable(w) ==
    /\ \A i \in DOMAIN w.of : w.of[i][1] \notin {"|", "\\"} /\ ~IsChar(w.of[i], "(") /\ ~IsChar(w.of[i], "~")
    /\ w.marked /\ ~HasQuoted(w.of) => \A i \in DOMAIN w.of : w.of[i][1] \notin Special
    /\ HasQuoted(w.of) => \A i \in DOMAIN w.of : w.of[i][1] \in Special /\ ~w.of[i][2] => i = 1 /\ w.of[i][1] = "q"
Written(node) == Append(PrintNode(node), "n")

(* What SAVE writes of a list is one line for LOAD, and the same list.     *)
ComesBack(text) ==
    LET r == reader(text)
        node == List1(parser(r.line))
        again == reader(Written(node))
        back == parser(again.line)
    IN r.mode = "done" /\ (\A w \in Words(node) : Writable(w)) =>
           /\ again.mode = "done" /\ again.used = Len(Written(node))
           /\ Len(back) = 1 /\ SameText(back[1], node)

(* Where reader stops, parser finds nothing open.  They do not agree about *)
(* a bar that reader takes from behind a tilde, which is no bar to it, nor *)
(* about a tilde in the middle of a comment, which is its end to parser.   *)
TildeMisread(text) ==
    \E i \in DOMAIN text :
        LET r == reader(SubSeq(text, 1, i - 1))
        IN r.mode = "tilde" /\ (text[i] = "|" \/ (r.semi /\ text[i] \notin {" ", "n"}))
StopsWhole(text) ==
    LET r == reader(text)
        p == Parsed(r.line)
    IN r.mode = "done" => (Depth(p) = 1 /\ ~p.vbar /\ p.mode = "text") \/ TildeMisread(text)

(* The word that is copied is the one that was counted.                    *)
CopiesWhole(text) == \A w \in Words(List1(parser(reader(text).line))) : w.of = w.counted

(* A comment and a continuation stand for nothing.  Pieces are texts.      *)
Bare(piece) ==
    CASE piece = <<"~", "n">> -> <<>>
      [] piece[1] = ";" -> IF piece[Len(piece) - 1] = "~" THEN <<>> ELSE <<"n">>
      [] OTHER -> piece
StandsForNothing(pieces) ==
    LET with == reader(<<"[">> \o FlattenSeq(pieces) \o <<"]", "n">>)
        without == reader(<<"[">> \o FlattenSeq([i \in DOMAIN pieces |-> Bare(pieces[i])]) \o <<"]", "n">>)
    IN SameText(List1(parser(with.line)), List1(parser(without.line)))
=============================================================================
