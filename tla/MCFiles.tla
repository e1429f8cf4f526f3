------------------------------ MODULE MCFiles -------------------------------
(***************************************************************************)
(* One variable that two lists name, of lengths 2 and 1, and two files;    *)
(* and, once, the lines that are read from files and written to them, over *)
(* every short text.                                                       *)
(***************************************************************************)
EXTENDS Files

CONSTANTS l1, l2, f1, f2
Lists == {l1, l2}
Files2 == {f1, f2}
TheVar == [l \in Lists |-> "x"]
Lengths == [l \in Lists |-> IF l = l1 THEN 2 ELSE 1]

-----------------------------------------------------------------------------
T == INSTANCE Text

Once == ops = 0 /\ \A f \in File : disk[f] = Missing
Items == SeqOf({"a", " ", "[", "]", "|", "\\", "+", "q"}, 5)
Lines == {FlattenSeq(s) : s \in SeqOf({<<c>> : c \in {"a", " ", "[", "]", "|", "\\", ";", "n", "(", "~"}} \cup {<<"~", " ", "n">>}, 4)}
Pieces == {<<"a">>, <<" ">>, <<"[">>, <<"]">>, <<"|", " ", "|">>, <<"~", "n">>, <<"n">>,
           <<";", "a", "n">>, <<";", "[", "n">>, <<";", "a", "~", "n">>}

\* What SAVE writes of a list, with FULLPRINTP TRUE, LOAD reads as one line that
\* makes the same list, whatever was typed to make it, as long as no word of it is
\* one that print cannot write (real_print_node against reader and parser).
ListsComeBack == \A t \in Items : T!ComesBack(<<"[">> \o t \o <<"]", "n">>)

\* Where reader stops, the brackets and bars that it counted and those that parser
\* finds are the same: parser never meets the end of a line in the middle of a list
\* or between bars, although the two look for comments, escapes and continuations
\* each in its own way.  Tildes may be anywhere; what the two make of them
\* differently is named in TildeMisread.
LinesAreWhole == \A t \in Lines : T!StopsWhole(Append(t, "n"))

\* mend_strnzcpy, which is given where a word begins and how many characters
\* parser_iterate has counted, finds the same characters: both pass over the bars,
\* comments and continuations in it; and a word that is copied as it is has none.
WordsAreWhole == \A t \in Lines : T!CopiesWhole(Append(t, "n"))

\* A comment is as good as the end of its line, a continuation as nothing at all,
\* in the middle of a word too, which mend_strnzcpy puts together.
CommentsAreNothing == \A s \in SeqOf(Pieces, 4) : T!StandsForNothing(s)

\* Text and lists go into each other (reader, parser_iterate and mend_strnzcpy in
\* parse.c and logodata.c, real_print_node in print.c).
TextsComeBack == Once => ListsComeBack /\ LinesAreWhole /\ WordsAreWhole /\ CommentsAreNothing
=============================================================================
