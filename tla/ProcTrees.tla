------------------------------- MODULE ProcTrees -------------------------------
(***************************************************************************)
(* Treeified procedure bodies and the_generation: paren.c, the definition  *)
(* primitives of wrksp.c, and the check eval.c makes at every line.        *)
(*                                                                         *)
(* Logo has no parentheses around calls, so a line can be parsed only when *)
(* the number of inputs of the procedures it calls is known.  The parse,   *)
(* the line's tree, is kept.  A redefinition that changes a procedure's    *)
(* arity replaces the_generation, and a line whose tree has another        *)
(* generation is parsed again before it is run, also in a body that is     *)
(* being run.                                                              *)
(*                                                                         *)
(* the_generation is only ever compared with the generation of a tree, so  *)
(* a tree has a flag fresh here: its generation is the_generation.  The    *)
(* tree itself is the arities that were used to parse the line.            *)
(***************************************************************************)
EXTENDS Naturals, Sequences

CONSTANTS
    Proc,        \* names of the procedures that are redefined
    Arity,       \* default numbers of inputs
    UNDEFINED,   \* the arity of a name that is not a procedure
    Body,        \* bodies of the procedures that are run
    NumLines,    \* lines of a body
    Calls,       \* the procedures each line of each body calls
    BadLine,     \* lines the parser rejects
    Setter,      \* names that begin with SET
    Recursive,   \* may a body be run while it is running?
    Erps,        \* may the program use ERPS and ERALL?
    MaxDepth     \* bound: procedure calls in progress

Line == 1 .. NumLines

ASSUME LinesAssumption == NumLines \in Nat \ {0}
ASSUME ArityAssumption == Arity \subseteq Nat /\ UNDEFINED \notin Arity
ASSUME CallsAssumption == Calls \in [Body -> [Line -> SUBSET Proc]]
ASSUME BadAssumption == BadLine \subseteq Body \X Line
ASSUME SetterAssumption == Setter \subseteq Proc /\ (Setter # {} => 1 \in Arity)
ASSUME FlagAssumption == Recursive \in BOOLEAN /\ Erps \in BOOLEAN
ASSUME DepthAssumption == MaxDepth \in Nat

VARIABLES
    arity,      \* the default number of inputs of every procedure
    line,       \* the line lists of every body
    body,       \* the body list of every body
    stack,      \* the procedure calls in progress, the innermost one last
    silent      \* history: the procedures that were erased or defined since the
                \* generation began in a way that leaves the_generation as it is

vars == <<arity, line, body, stack, silent>>

-----------------------------------------------------------------------------
(* Trees. *)

\* A line list: is_tree, its tree, is its generation the_generation, and the
\* line whose tree has been appended to this one (0: none).  (It does not say
\* which tree of that line: an older one remains appended only to lines of a body
\* that the parser rejects, and such a body is never run.)
NoTree == [tree |-> FALSE, parse |-> [p \in {} |-> UNDEFINED], fresh |-> FALSE, next |-> 0]
Parses == UNION {[S -> Arity \cup {UNDEFINED}] : S \in SUBSET Proc}

Usable(l) == l.tree /\ l.fresh

\* The inputs paren_expr gathers for p: an undefined name gets none, an undefined
\* name that begins with SET gets one.
Inputs(p) == IF arity[p] = UNDEFINED /\ p \in Setter THEN 1 ELSE arity[p]

\* make_tree on line i of body b.  A tree with an undefined name in it
\* (tree_dk_how) gets no generation, unless the name begins with SET.
\* Mutant: the guess is not noticed.
MakeTree_KeepGuess(b, i) ==
    IF Usable(line[b][i]) THEN line[b][i]
    ELSE [tree |-> TRUE, parse |-> [p \in Calls[b][i] |-> Inputs(p)],
          fresh |-> TRUE, next |-> 0]
MakeTree(b, i) ==
    IF Usable(line[b][i]) THEN line[b][i]
    ELSE [tree  |-> TRUE,
          parse |-> [p \in Calls[b][i] |-> Inputs(p)],
          fresh |-> \A p \in Calls[b][i] \ Setter : arity[p] # UNDEFINED,
          next  |-> 0]

\* The tree of line j is appended to that of line i, others in between.
Follows(lines, i, j) == \E n \in Line : \E f \in [1 .. n -> Line] :
    f[1] = i /\ f[n] = j /\ \A k \in 1 .. n - 1 : lines[f[k]].next = f[k + 1]

\* Where following the trees from line i's on ends; trees in a circle have no end.
Ends(lines, i) == {j \in Line : lines[j].next = 0 /\ Follows(lines, i, j)}
LastOf(lines, i) == CHOOSE j \in Ends(lines, i) : TRUE

-----------------------------------------------------------------------------
(* Procedure calls. *)

\* A call: the body, the phase, the lines that remain with the trees unev points
\* to, whether these are the trees the body has now, and, while the body is being
\* treeified, the next line, the end of the trees so far, and the lines to skip.
Phase == {"treeify", "repair", "endless", "next", "line"}
CallRecord == [body : Body, phase : Phase, rest : Seq([at : Line, parse : Parses]),
               own : BOOLEAN, at : 1 .. NumLines + 1, end : 0 .. NumLines, skip : 0 .. NumLines]

Top == stack[Len(stack)]
SetTop(r) == stack' = [stack EXCEPT ![Len(stack)] = r]
Outer == SubSeq(stack, 1, Len(stack) - 1)

\* The trees of a body from line i on, as unev sees them.
\* Mutant: the lines are counted from one too far.
Trees_OffByOne(lines, i) ==
    [k \in 1 .. NumLines - i + 1 |-> [at |-> i + k, parse |-> lines[i + k - 1].parse]]
Trees(lines, i) ==
    [k \in 1 .. NumLines - i + 1 |-> [at |-> i + k - 1, parse |-> lines[i + k - 1].parse]]

\* Calls of b in the sequence s no longer have the trees of the body.
Disown(s, b) == [k \in DOMAIN s |-> IF s[k].body = b THEN [s[k] EXCEPT !.own = FALSE] ELSE s[k]]

\* A user's program is at a point where it can do anything.
Running == stack # <<>> => Top.phase = "line"

Init ==
    /\ arity \in [Proc -> Arity \cup {UNDEFINED}]
    /\ line = [b \in Body |-> [i \in Line |-> NoTree]]
    /\ body = [b \in Body |-> [tree |-> FALSE, fresh |-> FALSE]]
    /\ stack = <<>>
    /\ silent = {}

-----------------------------------------------------------------------------
(* make_tree_from_body *)

\* A body with an old tree is untreeified with all its lines; in a body without a
\* tree the lines that have a usable one keep it.
\* Mutant: the lines keep theirs in any case.
Untreeify_BodyOnly(b) ==
    /\ body' = [body EXCEPT ![b] = [tree |-> FALSE, fresh |-> FALSE]]
    /\ UNCHANGED line
Untreeify(b) ==
    /\ line' = IF body[b].tree THEN [line EXCEPT ![b] = [i \in Line |-> NoTree]] ELSE line
    /\ body' = [body EXCEPT ![b] = [tree |-> FALSE, fresh |-> FALSE]]

NewCall(b) == [body |-> b, phase |-> "treeify", rest |-> <<>>, own |-> TRUE,
               at |-> 1, end |-> 0, skip |-> 0]

\* lambda_apply has bound the formals; s are the calls that stay.
Begin(b, s) ==
    IF Usable(body[b])
    THEN /\ stack' = Append(s, [NewCall(b) EXCEPT !.phase = "next", !.rest = Trees(line[b], 1)])
         /\ UNCHANGED <<line, body>>
    ELSE /\ stack' = Append(IF body[b].tree THEN Disown(s, b) ELSE s, NewCall(b))
         /\ Untreeify(b)

Invoke(b) ==
    /\ Running
    /\ Len(stack) < MaxDepth
    /\ Recursive \/ \A k \in DOMAIN stack : stack[k].body # b
    /\ Begin(b, stack)
    /\ UNCHANGED <<arity, silent>>

\* The call is the last thing the last line does.
TailInvoke(b) ==
    /\ stack # <<>> /\ Top.phase = "line" /\ Len(Top.rest) = 1
    /\ Recursive \/ \A k \in DOMAIN stack : stack[k].body # b
    /\ Begin(b, Outer)
    /\ UNCHANGED <<arity, silent>>

Treeifying == stack # <<>> /\ Top.phase \in {"treeify", "repair"}

\* One round of the loop: the line's tree is appended to the trees so far, and
\* the end of all of them is looked for; without one the search is endless.
TreeifyLine ==
    /\ Treeifying /\ Top.at <= NumLines
    /\ <<Top.body, Top.at>> \notin BadLine
    /\ LET i == Top.at
           made == [line[Top.body] EXCEPT ![i] = MakeTree(Top.body, i)]
           linked == IF Top.end = 0 THEN made ELSE [made EXCEPT ![Top.end].next = i]
       IN  /\ line' = [line EXCEPT ![Top.body] = linked]
           /\ SetTop(IF Ends(linked, i) = {} THEN [Top EXCEPT !.phase = "endless"]
                     ELSE [Top EXCEPT !.at = i + 1, !.end = LastOf(linked, i)])
    /\ UNCHANGED <<arity, body, silent>>

\* The parser throws an error and makes no tree of the line: the body gets none, its
\* lines keep theirs.  The error ends the calls down to one with a CATCH, or all.
\* (An error that leaves the line a tree all the same, without a generation, ends
\* the call at a body that the next call parses anew; it is not distinguished.)
TreeifyError ==
    /\ Treeifying /\ Top.at <= NumLines
    /\ <<Top.body, Top.at>> \in BadLine
    /\ \E k \in 0 .. Len(stack) - 1 : stack' = SubSeq(stack, 1, k)
    /\ UNCHANGED <<arity, line, body, silent>>

\* The generation of a new body tree: UNBOUND when that of a line is.
BodyFresh(b) == \A i \in Line : line[b][i].fresh

\* The body has its tree.  A new call goes on to eval_sequence; a
\* call whose body was parsed again runs the line it had come to.
TreeifyDone ==
    /\ Treeifying /\ Top.at = NumLines + 1
    /\ body' = [body EXCEPT ![Top.body] =
                    [tree |-> TRUE, fresh |-> BodyFresh(Top.body)]]
    /\ SetTop([NewCall(Top.body) EXCEPT
                   !.phase = IF Top.phase = "repair" THEN "line" ELSE "next",
                   !.rest = Trees(line[Top.body], Top.skip + 1)])
    /\ UNCHANGED <<arity, line, silent>>

-----------------------------------------------------------------------------
(* eval_sequence *)

AtLine == stack # <<>> /\ Top.phase = "next" /\ Top.rest # <<>>
ListOf(call) == line[call.body][Head(call.rest).at]

\* The generation compared is that of the line list, wherever unev points.
RunLine ==
    /\ AtLine
    /\ ListOf(Top).fresh \/ ~Top.own
    /\ SetTop([Top EXCEPT !.phase = "line"])
    /\ UNCHANGED <<arity, line, body, silent>>

\* Something was redefined: the body is parsed again, unless unev is not found in
\* its tree ("nofix").  Other calls of the body keep the trees they have.
RepairLine ==
    /\ AtLine
    /\ ~ListOf(Top).fresh /\ Top.own
    /\ line' = [line EXCEPT ![Top.body] = [i \in Line |-> NoTree]]
    /\ body' = [body EXCEPT ![Top.body] = [tree |-> FALSE, fresh |-> FALSE]]
    /\ stack' = Append(Disown(Outer, Top.body),
                       [NewCall(Top.body) EXCEPT !.phase = "repair",
                                                 !.skip = Head(Top.rest).at - 1])
    /\ UNCHANGED <<arity, silent>>

EndLine ==
    /\ stack # <<>> /\ Top.phase = "line" /\ Top.rest # <<>>
    /\ SetTop([Top EXCEPT !.phase = "next", !.rest = Tail(@)])
    /\ UNCHANGED <<arity, line, body, silent>>

\* The lines are used up, or STOP, OUTPUT or THROW ends k calls.
Return ==
    /\ stack # <<>>
    /\ \/ Top.phase = "next" /\ Top.rest = <<>> /\ stack' = Outer
       \/ Top.phase = "line" /\ \E k \in 0 .. Len(stack) - 1 : stack' = SubSeq(stack, 1, k)
    /\ UNCHANGED <<arity, line, body, silent>>

-----------------------------------------------------------------------------
(* Redefinition. *)

\* the_generation = cons(NIL, NIL)
NewGeneration ==
    /\ line' = [b \in Body |-> [i \in Line |-> [line[b][i] EXCEPT !.fresh = FALSE]]]
    /\ body' = [b \in Body |-> [body[b] EXCEPT !.fresh = FALSE]]
    /\ silent' = {}

\* The_generation stays; a line parsed before is now wrong for the procedures S.
SameGeneration(S) == silent' = silent \cup S /\ UNCHANGED <<line, body>>

\* An undefined name that begins with SET was parsed with one input all the same.
Unlike(p, n) == IF p \in Setter /\ Inputs(p) # n THEN {p} ELSE {}

\* DEFINE, TO, COPYDEF and EDIT: p takes n inputs from now on.
\* Mutant: a procedure with fewer inputs than before is not looked at.
Define_OnlyMore(p, n) ==
    /\ Running
    /\ arity' = [arity EXCEPT ![p] = n]
    /\ IF arity[p] # UNDEFINED /\ n > arity[p] THEN NewGeneration
       ELSE SameGeneration(Unlike(p, n))
    /\ UNCHANGED stack
Define(p, n) ==
    /\ Running
    /\ arity' = [arity EXCEPT ![p] = n]
    /\ IF arity[p] # UNDEFINED /\ arity[p] # n THEN NewGeneration
       ELSE SameGeneration(Unlike(p, n))
    /\ UNCHANGED stack

\* lerase of a list of procedures
EraseProcs(S) ==
    /\ Running
    /\ S # {}
    /\ arity' = [p \in Proc |-> IF p \in S THEN UNDEFINED ELSE arity[p]]
    /\ NewGeneration
    /\ UNCHANGED stack

\* erall_helper for the procedures S that are not buried: the generation stays.
EraseAll(S) ==
    /\ Erps
    /\ Running
    /\ arity' = [p \in Proc |-> IF p \in S THEN UNDEFINED ELSE arity[p]]
    /\ SameGeneration({p \in S : arity[p] # UNDEFINED})
    /\ UNCHANGED stack

-----------------------------------------------------------------------------
Treeify == TreeifyLine \/ TreeifyError \/ TreeifyDone
Redefine ==
    \/ \E p \in Proc, n \in Arity : Define(p, n)
    \/ \E S \in SUBSET Proc : EraseProcs(S) \/ EraseAll(S)

Next ==
    \/ \E b \in Body : Invoke(b) \/ TailInvoke(b)
    \/ Treeify
    \/ RunLine \/ RepairLine \/ EndLine \/ Return
    \/ Redefine

Spec == Init /\ [][Next]_vars

-----------------------------------------------------------------------------
(* Properties. *)

\* Types.
TypeOK ==
    /\ arity \in [Proc -> Arity \cup {UNDEFINED}]
    /\ line \in [Body -> [Line -> [tree : BOOLEAN, parse : Parses, fresh : BOOLEAN,
                                   next : 0 .. NumLines]]]
    /\ body \in [Body -> [tree : BOOLEAN, fresh : BOOLEAN]]
    /\ stack \in Seq(CallRecord)
    /\ silent \in SUBSET Proc

\* A parse is right for the procedures there are now, but those that ERPS, ERALL or
\* a name with SET have changed behind the back of the_generation (wrksp.c:1397,
\* paren.c:303).  An undefined procedure is an error however the line was parsed.
Right(parse) == \A p \in DOMAIN parse \ silent : arity[p] # UNDEFINED => parse[p] = arity[p]

\* the_generation does its work: a line with the current generation, in whatever
\* body and whenever it was parsed, is parsed as it would be now.
FreshIsRight == \A b \in Body, i \in Line : line[b][i].fresh => Right(line[b][i].parse)

\* "Whenever this line is run, its generation pair is compared ...  If they're not
\* equal ... the line is re-treeified": a call that still walks the trees its body
\* has begins no line with a tree that a redefinition has made wrong, in a recursive
\* procedure too.  (A call whose body an inner call of the same procedure has parsed
\* again walks the old trees; "don't try to fix", says eval.c:903.)
Begins == /\ Len(stack') = Len(stack) /\ stack # <<>>
          /\ Top.phase # "line" /\ Top'.phase = "line"
TopIsRight == Top.own => Right(Head(Top.rest).parse)
LineIsRight == [][Begins => TopIsRight']_vars

\* "Treeify a body by appending the trees of the lines": appending has an end, and
\* a body with a tree has the trees of all its lines, in order.
AppendEnds == \A k \in DOMAIN stack : stack[k].phase # "endless"
BodyIsItsLines == \A b \in Body : body[b].tree =>
    /\ \A i \in Line : line[b][i].tree /\ line[b][i].next = IF i = NumLines THEN 0 ELSE i + 1
    /\ body[b].fresh => \A i \in Line : line[b][i].fresh

\* Whatever is erased or redefined, a body that counts as parsed is its lines; and
\* where the parser rejects one of the first two lines of a body, if any, the search
\* for the end of a line's trees ends (paren.c:83-127).
BodiesAreWhole == BodyIsItsLines /\ AppendEnds
=============================================================================
