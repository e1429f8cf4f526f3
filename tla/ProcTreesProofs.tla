---------------------------- MODULE ProcTreesProofs ----------------------------
(***************************************************************************)
(* Bodies, lines and the_generation, for any number of procedures, bodies, *)
(* lines and nested calls:                                                 *)
(*   - a line whose tree has the current generation is parsed for the      *)
(*     procedures there are now;                                           *)
(*   - a body that counts as parsed is its lines, and appending ends;      *)
(*   - no line begins to run with a tree that a redefinition made wrong.   *)
(* The first and the last are for every program.  They speak of the        *)
(* procedures that were not erased or defined behind the back of           *)
(* the_generation (by ERPS or ERALL, or under a name that begins with SET); *)
(* the last of the calls that walk the trees their body has, which calls   *)
(* of a procedure that was parsed again inside them do not.  The end of    *)
(* appending is about bodies that are rejected at one of the first two     *)
(* lines or not at all.                                                    *)
(***************************************************************************)
EXTENDS ProcTrees, TLAPS

\* The types of what the code has; the history variable is apart (SilentNext).
Shapes ==
    /\ arity \in [Proc -> Arity \cup {UNDEFINED}]
    /\ line \in [Body -> [Line -> [tree : BOOLEAN, parse : Parses, fresh : BOOLEAN,
                                   next : 0 .. NumLines]]]
    /\ body \in [Body -> [tree : BOOLEAN, fresh : BOOLEAN]]
    /\ stack \in Seq(CallRecord)

LineRecord == [tree : BOOLEAN, parse : Parses, fresh : BOOLEAN, next : 0 .. NumLines]

-----------------------------------------------------------------------------
(* Helpers. *)

LEMMA FunctionIsSeq ==
  ASSUME NEW S, NEW n \in Nat, NEW f \in [1 .. n -> S]
  PROVE  f \in Seq(S)
  OBVIOUS

LEMMA HeadType ==
  ASSUME NEW S, NEW s \in Seq(S), s # <<>>
  PROVE  Head(s) \in S
<1>1. Len(s) \in Nat /\ Len(s) # 0 /\ s \in [1 .. Len(s) -> S]
  OBVIOUS
<1>2. Head(s) = s[1]
  OBVIOUS
<1> QED
  BY <1>1, <1>2

LEMMA ElementType ==
  ASSUME NEW S, NEW s \in Seq(S), NEW k \in DOMAIN s
  PROVE  s[k] \in S
  OBVIOUS

LEMMA NotFresh ==
  ASSUME NEW r \in LineRecord
  PROVE  [r EXCEPT !.fresh = FALSE] \in LineRecord /\ ~[r EXCEPT !.fresh = FALSE].fresh
<1>1. ASSUME NEW v \in BOOLEAN PROVE [r EXCEPT !.fresh = v] \in LineRecord
  BY DEF LineRecord
<1>2. FALSE \in BOOLEAN
  OBVIOUS
<1>3. [r EXCEPT !.fresh = FALSE] \in LineRecord
  BY <1>1, <1>2
<1>4. ~[r EXCEPT !.fresh = FALSE].fresh
  BY DEF LineRecord
<1> QED
  BY <1>3, <1>4

BodyRecord == [tree : BOOLEAN, fresh : BOOLEAN]

LEMMA NoBodyTree == [tree |-> FALSE, fresh |-> FALSE] \in BodyRecord
  BY DEF BodyRecord

LEMMA BodyNotFresh ==
  ASSUME NEW r \in BodyRecord
  PROVE  [r EXCEPT !.fresh = FALSE] \in BodyRecord
<1>1. ASSUME NEW v \in BOOLEAN PROVE [r EXCEPT !.fresh = v] \in BodyRecord
  BY DEF BodyRecord
<1>2. FALSE \in BOOLEAN
  OBVIOUS
<1> QED
  BY <1>1, <1>2

LEMMA NoTreeType == NoTree \in LineRecord
<1>1. [p \in {} |-> UNDEFINED] \in [{} -> Arity \cup {UNDEFINED}]
  OBVIOUS
<1>2. [p \in {} |-> UNDEFINED] \in Parses
  BY <1>1 DEF Parses
<1> QED
  BY <1>2, LinesAssumption DEF NoTree, LineRecord

\* make_tree makes a tree of a line.
LEMMA MakeTreeType ==
  ASSUME Shapes, NEW b \in Body, NEW i \in Line
  PROVE  MakeTree(b, i) \in LineRecord
<1>1. line[b][i] \in LineRecord
  BY DEF Shapes, LineRecord
<1>2. Calls[b][i] \in SUBSET Proc
  BY CallsAssumption
<1>3. \A p \in Proc : Inputs(p) \in Arity \cup {UNDEFINED}
  BY SetterAssumption DEF Shapes, Inputs
<1>4. [p \in Calls[b][i] |-> Inputs(p)] \in [Calls[b][i] -> Arity \cup {UNDEFINED}]
  BY <1>2, <1>3
<1>5. [p \in Calls[b][i] |-> Inputs(p)] \in Parses
  BY <1>2, <1>4 DEF Parses
<1>6. (\A p \in Calls[b][i] \ Setter : arity[p] # UNDEFINED) \in BOOLEAN
  OBVIOUS
<1> QED
  BY <1>1, <1>5, <1>6, LinesAssumption DEF MakeTree, LineRecord

\* The trees of a body are what the register unev can point to.
LEMMA TreesType ==
  ASSUME NEW lines \in [Line -> LineRecord], NEW i \in 1 .. NumLines + 1
  PROVE  Trees(lines, i) \in Seq([at : Line, parse : Parses])
<1>1. NumLines - i + 1 \in Nat
  BY LinesAssumption
<1>2. ASSUME NEW k \in 1 .. NumLines - i + 1
      PROVE  [at |-> i + k - 1, parse |-> lines[i + k - 1].parse] \in [at : Line, parse : Parses]
  <2>1. i + k - 1 \in Line
    BY LinesAssumption DEF Line
  <2> QED
    BY <2>1 DEF LineRecord
<1>3. Trees(lines, i) \in [1 .. NumLines - i + 1 -> [at : Line, parse : Parses]]
  BY <1>2 DEF Trees
<1> HIDE DEF Line
<1> QED
  BY <1>1, <1>3, FunctionIsSeq

LEMMA TopType ==
  ASSUME Shapes, stack # <<>>
  PROVE  Top \in CallRecord /\ Len(stack) \in Nat \ {0}
  BY DEF Shapes, Top

LEMMA SetTopType ==
  ASSUME Shapes, stack # <<>>, NEW r \in CallRecord, SetTop(r)
  PROVE  stack' \in Seq(CallRecord)
  BY DEF Shapes, SetTop

LEMMA DisownOneType ==
  ASSUME NEW r \in CallRecord
  PROVE  [r EXCEPT !.own = FALSE] \in CallRecord
<1>1. ASSUME NEW v \in BOOLEAN PROVE [r EXCEPT !.own = v] \in CallRecord
  BY DEF CallRecord
<1>2. FALSE \in BOOLEAN
  OBVIOUS
<1> QED
  BY <1>1, <1>2

LEMMA DisownType ==
  ASSUME NEW s \in Seq(CallRecord), NEW b
  PROVE  Disown(s, b) \in Seq(CallRecord)
<1>1. ASSUME NEW k \in DOMAIN s
      PROVE  (IF s[k].body = b THEN [s[k] EXCEPT !.own = FALSE] ELSE s[k]) \in CallRecord
  <2>1. s[k] \in CallRecord
    OBVIOUS
  <2>2. [s[k] EXCEPT !.own = FALSE] \in CallRecord
    BY <2>1, DisownOneType
  <2> QED
    BY <2>1, <2>2
<1>2. Len(s) \in Nat /\ DOMAIN s = 1 .. Len(s)
  OBVIOUS
<1>3. Disown(s, b) \in [1 .. Len(s) -> CallRecord]
  BY <1>1, <1>2 DEF Disown
<1> QED
  BY <1>2, <1>3

LEMMA CutType ==
  ASSUME Shapes, NEW k \in 0 .. Len(stack)
  PROVE  SubSeq(stack, 1, k) \in Seq(CallRecord)
  BY DEF Shapes

LEMMA NewCallType ==
  ASSUME NEW b \in Body
  PROVE  NewCall(b) \in CallRecord
  BY LinesAssumption DEF NewCall, CallRecord, Phase

-----------------------------------------------------------------------------
(* Types. *)

LEMMA BeginType ==
  ASSUME Shapes, NEW b \in Body, NEW s \in Seq(CallRecord), Begin(b, s)
  PROVE  /\ line' \in [Body -> [Line -> LineRecord]]
         /\ body' \in [Body -> [tree : BOOLEAN, fresh : BOOLEAN]]
         /\ stack' \in Seq(CallRecord)
<1>0. line \in [Body -> [Line -> LineRecord]] /\ NewCall(b) \in CallRecord
  BY NewCallType DEF Shapes, LineRecord
<1>1. CASE Usable(body[b])
  <2>1. Trees(line[b], 1) \in Seq([at : Line, parse : Parses])
    <3>1. line[b] \in [Line -> LineRecord] /\ 1 \in 1 .. NumLines + 1
      BY <1>0, LinesAssumption
    <3> QED
      BY <3>1, TreesType
  <2>2. [NewCall(b) EXCEPT !.phase = "next", !.rest = Trees(line[b], 1)] \in CallRecord
    BY <1>0, <2>1 DEF CallRecord, Phase
  <2>3. stack' \in Seq(CallRecord)
    BY <1>1, <2>2 DEF Begin
  <2>4. line' = line /\ body' = body
    BY <1>1 DEF Begin
  <2> QED
    BY <1>0, <2>3, <2>4 DEF Shapes
<1>2. CASE ~Usable(body[b])
  <2>1. (IF body[b].tree THEN Disown(s, b) ELSE s) \in Seq(CallRecord)
    BY DisownType
  <2>2. stack' \in Seq(CallRecord)
    BY SMTT(30), <1>0, <1>2, <2>1 DEF Begin
  <2>3. line' \in [Body -> [Line -> LineRecord]]
    BY <1>0, <1>2, NoTreeType DEF Begin, Untreeify
  <2>4. body' \in [Body -> [tree : BOOLEAN, fresh : BOOLEAN]]
    <3>1. body \in [Body -> BodyRecord]
      BY DEF Shapes, BodyRecord
    <3>2. body' = [body EXCEPT ![b] = [tree |-> FALSE, fresh |-> FALSE]]
      BY <1>2 DEF Begin, Untreeify
    <3>3. body' \in [Body -> BodyRecord]
      BY <3>1, <3>2, NoBodyTree
    <3> QED
      BY <3>3 DEF BodyRecord
  <2> QED
    BY <2>2, <2>3, <2>4
<1> QED
  BY <1>1, <1>2

LEMMA NewGenerationType ==
  ASSUME Shapes, NewGeneration
  PROVE  /\ line' \in [Body -> [Line -> LineRecord]]
         /\ body' \in [Body -> [tree : BOOLEAN, fresh : BOOLEAN]]
<1>1. line \in [Body -> [Line -> LineRecord]]
  BY DEF Shapes, LineRecord
<1>2. \A b \in Body, i \in Line : [line[b][i] EXCEPT !.fresh = FALSE] \in LineRecord
  BY <1>1, NotFresh
<1>3. line' \in [Body -> [Line -> LineRecord]]
  BY <1>2 DEF NewGeneration
<1>4. body \in [Body -> BodyRecord]
  BY DEF Shapes, BodyRecord
<1>5. \A b \in Body : [body[b] EXCEPT !.fresh = FALSE] \in BodyRecord
  BY <1>4, BodyNotFresh
<1>6. body' \in [Body -> BodyRecord]
  BY <1>5 DEF NewGeneration
<1> QED
  BY <1>3, <1>6 DEF BodyRecord

LEMMA TypeInit == Init => Shapes
<1> SUFFICES ASSUME Init PROVE Shapes
  OBVIOUS
<1>1. line \in [Body -> [Line -> LineRecord]]
  BY NoTreeType DEF Init
<1> QED
  BY <1>1 DEF Init, Shapes, LineRecord

\* One round of make_tree_from_body.
LEMMA TreeifyLineType ==
  ASSUME Shapes, TreeifyLine
  PROVE  Shapes'
<1> DEFINE i == Top.at
           made == [line[Top.body] EXCEPT ![i] = MakeTree(Top.body, i)]
           linked == IF Top.end = 0 THEN made ELSE [made EXCEPT ![Top.end].next = i]
<1>1. stack # <<>> /\ Top \in CallRecord
  BY TopType DEF TreeifyLine, Treeifying
<1>2. Top.body \in Body /\ i \in Line /\ Top.end \in 0 .. NumLines
  BY <1>1, LinesAssumption DEF CallRecord, TreeifyLine, Line
<1>3. line \in [Body -> [Line -> LineRecord]]
  BY DEF Shapes, LineRecord
<1>4. made \in [Line -> LineRecord]
  BY <1>2, <1>3, MakeTreeType
<1>5. ASSUME NEW r \in LineRecord PROVE [r EXCEPT !.next = i] \in LineRecord
  BY <1>2, LinesAssumption DEF LineRecord, Line
<1>6. linked \in [Line -> LineRecord]
  <2> HIDE DEF made
  <2>1. CASE Top.end = 0
    BY <1>4, <2>1
  <2>2. CASE Top.end # 0
    <3>1. Top.end \in Line
      BY <1>2, <2>2, LinesAssumption DEF Line
    <3> QED
      BY <1>4, <1>5, <2>2, <3>1
  <2> QED
    BY <2>1, <2>2
<1>7. line' = [line EXCEPT ![Top.body] = linked]
  BY DEF TreeifyLine
<1>8. line' \in [Body -> [Line -> LineRecord]]
  BY <1>2, <1>3, <1>6, <1>7
<1>9. SetTop(IF Ends(linked, i) = {} THEN [Top EXCEPT !.phase = "endless"]
             ELSE [Top EXCEPT !.at = i + 1, !.end = LastOf(linked, i)])
  BY DEF TreeifyLine
<1>10. stack' \in Seq(CallRecord)
  <2> HIDE DEF linked
  <2>1. CASE Ends(linked, i) = {}
    <3>1. [Top EXCEPT !.phase = "endless"] \in CallRecord
      BY <1>1 DEF CallRecord, Phase
    <3> QED
      BY <1>1, <1>9, <2>1, <3>1, SetTopType
  <2>2. CASE Ends(linked, i) # {}
    <3>1. LastOf(linked, i) \in Ends(linked, i)
      BY <2>2 DEF LastOf
    <3>2. LastOf(linked, i) \in 0 .. NumLines
      BY <3>1, LinesAssumption DEF Ends, Line
    <3>3. i + 1 \in 1 .. NumLines + 1
      BY <1>2, LinesAssumption DEF Line
    <3>4. [Top EXCEPT !.at = i + 1, !.end = LastOf(linked, i)] \in CallRecord
      BY <1>1, <3>2, <3>3 DEF CallRecord
    <3> QED
      BY <1>1, <1>9, <2>2, <3>4, SetTopType
  <2> QED
    BY <2>1, <2>2
<1> QED
  BY <1>8, <1>10 DEF Shapes, LineRecord, TreeifyLine

\* What the lemmas on an action say about it, together.
Typed ==
    /\ arity' \in [Proc -> Arity \cup {UNDEFINED}]
    /\ line' \in [Body -> [Line -> LineRecord]]
    /\ body' \in [Body -> BodyRecord]
    /\ stack' \in Seq(CallRecord)

LEMMA TypedIsShapes == Typed => Shapes'
  BY DEF Typed, Shapes, LineRecord, BodyRecord

LEMMA Untouched ==
  ASSUME Shapes
  PROVE  /\ arity \in [Proc -> Arity \cup {UNDEFINED}]
         /\ line \in [Body -> [Line -> LineRecord]]
         /\ body \in [Body -> BodyRecord]
         /\ stack \in Seq(CallRecord)
  BY DEF Shapes, LineRecord, BodyRecord

LEMMA TailInvokeType ==
  ASSUME Shapes, NEW b \in Body, TailInvoke(b)
  PROVE  Shapes'
<1>1. Len(stack) - 1 \in 0 .. Len(stack)
  BY TopType DEF TailInvoke
<1>2. Outer \in Seq(CallRecord)
  BY <1>1, CutType DEF Outer
<1>3. Begin(b, Outer) /\ arity' = arity
  BY DEF TailInvoke
<1>4. Typed
  BY <1>2, <1>3, BeginType, Untouched DEF Typed, BodyRecord
<1> QED
  BY <1>4, TypedIsShapes

LEMMA InvokeType ==
  ASSUME Shapes, NEW b \in Body, Invoke(b)
  PROVE  Shapes'
<1>1. Begin(b, stack) /\ arity' = arity /\ stack \in Seq(CallRecord)
  BY DEF Invoke, Shapes
<1>2. Typed
  BY <1>1, BeginType, Untouched DEF Typed, BodyRecord
<1> QED
  BY <1>2, TypedIsShapes

LEMMA TreeifyErrorType ==
  ASSUME Shapes, TreeifyError
  PROVE  Shapes'
<1>1. PICK k \in 0 .. Len(stack) - 1 : stack' = SubSeq(stack, 1, k)
  BY DEF TreeifyError
<1>2. k \in 0 .. Len(stack)
  BY Untouched
<1>3. stack' \in Seq(CallRecord)
  BY <1>1, <1>2, CutType
<1> QED
  BY <1>3, Untouched, TypedIsShapes DEF Typed, TreeifyError

\* The call goes on with the trees of the body, where it was.
DoneCall == [NewCall(Top.body) EXCEPT
                 !.phase = IF Top.phase = "repair" THEN "line" ELSE "next",
                 !.rest = Trees(line[Top.body], Top.skip + 1)]

LEMMA DoneCallType ==
  ASSUME Shapes, stack # <<>>
  PROVE  DoneCall \in CallRecord /\ Top.body \in Body
<1>1. Top \in CallRecord
  BY TopType
<1>2. Top.body \in Body /\ Top.skip + 1 \in 1 .. NumLines + 1
  BY <1>1, LinesAssumption DEF CallRecord
<1>3. line[Top.body] \in [Line -> LineRecord]
  BY <1>2, Untouched
<1>4. Trees(line[Top.body], Top.skip + 1) \in Seq([at : Line, parse : Parses])
  BY <1>2, <1>3, TreesType
<1>5. NewCall(Top.body) \in CallRecord
  BY <1>2, NewCallType
<1>6. ASSUME NEW ph \in Phase, NEW ts \in Seq([at : Line, parse : Parses])
      PROVE  [NewCall(Top.body) EXCEPT !.phase = ph, !.rest = ts] \in CallRecord
  BY <1>5 DEF CallRecord
<1>7. (IF Top.phase = "repair" THEN "line" ELSE "next") \in Phase
  BY DEF Phase
<1> QED
  BY <1>2, <1>4, <1>6, <1>7 DEF DoneCall

LEMMA TreeifyDoneType ==
  ASSUME Shapes, TreeifyDone
  PROVE  Shapes'
<1>1. stack # <<>>
  BY DEF TreeifyDone, Treeifying
<1>2. stack' \in Seq(CallRecord)
  BY <1>1, DoneCallType, SetTopType DEF TreeifyDone, DoneCall
<1>3. [tree |-> TRUE, fresh |-> BodyFresh(Top.body)] \in BodyRecord
  <2>1. BodyFresh(Top.body) \in BOOLEAN
    BY DEF BodyFresh
  <2>2. ASSUME NEW v \in BOOLEAN PROVE [tree |-> TRUE, fresh |-> v] \in BodyRecord
    BY DEF BodyRecord
  <2> QED
    BY <2>1, <2>2
<1>4. body' \in [Body -> BodyRecord]
  BY <1>3, Untouched DEF TreeifyDone
<1> QED
  BY <1>2, <1>4, Untouched, TypedIsShapes DEF Typed, TreeifyDone

LEMMA RunLineType ==
  ASSUME Shapes, RunLine
  PROVE  Shapes'
<1>1. stack # <<>> /\ Top \in CallRecord
  BY TopType DEF RunLine, AtLine
<1>2. [Top EXCEPT !.phase = "line"] \in CallRecord
  BY <1>1 DEF CallRecord, Phase
<1>3. stack' \in Seq(CallRecord)
  BY <1>1, <1>2, SetTopType DEF RunLine
<1> QED
  BY <1>3, Untouched, TypedIsShapes DEF Typed, RunLine

\* The call that parses its body again skips the lines before the one it had come to.
RepairCall == [NewCall(Top.body) EXCEPT !.phase = "repair", !.skip = Head(Top.rest).at - 1]

LEMMA RepairCallType ==
  ASSUME Shapes, AtLine
  PROVE  RepairCall \in CallRecord /\ Top.body \in Body /\ Head(Top.rest).at \in Line
<1>1. stack # <<>> /\ Top \in CallRecord /\ Top.rest # <<>>
  BY TopType DEF AtLine
<1>2. Head(Top.rest) \in [at : Line, parse : Parses]
  <2>1. Top.rest \in Seq([at : Line, parse : Parses])
    BY <1>1 DEF CallRecord
  <2> QED
    BY <1>1, <2>1, HeadType
<1>3. Top.body \in Body /\ Head(Top.rest).at \in Line /\ Head(Top.rest).at - 1 \in 0 .. NumLines
  <2>1. Head(Top.rest).at \in Line
    BY <1>2
  <2> QED
    BY <1>1, <2>1, LinesAssumption DEF CallRecord, Line
<1>4. NewCall(Top.body) \in CallRecord
  BY <1>3, NewCallType
<1>5. RepairCall \in CallRecord
  BY <1>3, <1>4 DEF CallRecord, Phase, RepairCall
<1> QED
  BY <1>3, <1>5

LEMMA RepairLineType ==
  ASSUME Shapes, RepairLine
  PROVE  Shapes'
<1>1. stack # <<>>
  BY DEF RepairLine, AtLine
<1>4. RepairCall \in CallRecord
  BY RepairCallType DEF RepairLine
<1>5. Outer \in Seq(CallRecord)
  <2>1. Len(stack) - 1 \in 0 .. Len(stack)
    BY <1>1, TopType
  <2> QED
    BY <2>1, CutType DEF Outer
<1>6. Disown(Outer, Top.body) \in Seq(CallRecord)
  BY <1>5, DisownType
<1>7. stack' \in Seq(CallRecord)
  BY <1>4, <1>6 DEF RepairLine, RepairCall
<1>8. line' \in [Body -> [Line -> LineRecord]]
  BY Untouched, NoTreeType DEF RepairLine
<1>9. body' \in [Body -> BodyRecord]
  BY Untouched, NoBodyTree DEF RepairLine
<1> QED
  BY <1>7, <1>8, <1>9, Untouched, TypedIsShapes DEF Typed, RepairLine

LEMMA EndLineType ==
  ASSUME Shapes, EndLine
  PROVE  Shapes'
<1>1. stack # <<>> /\ Top \in CallRecord
  BY TopType DEF EndLine
<1>2. ASSUME NEW ts \in Seq([at : Line, parse : Parses])
      PROVE  [Top EXCEPT !.phase = "next", !.rest = ts] \in CallRecord
  BY <1>1 DEF CallRecord, Phase
<1>3. Tail(Top.rest) \in Seq([at : Line, parse : Parses])
  BY <1>1 DEF CallRecord, EndLine
<1>4. [Top EXCEPT !.phase = "next", !.rest = Tail(Top.rest)] \in CallRecord
  BY <1>2, <1>3
<1>5. stack' \in Seq(CallRecord)
  BY <1>1, <1>4, SetTopType DEF EndLine
<1> QED
  BY <1>5, Untouched, TypedIsShapes DEF Typed, EndLine

LEMMA ReturnType ==
  ASSUME Shapes, Return
  PROVE  Shapes'
<1>1. stack # <<>> /\ stack \in Seq(CallRecord)
  BY Untouched DEF Return
<1>2. \E k \in 0 .. Len(stack) : stack' = SubSeq(stack, 1, k)
  <2>1. Len(stack) \in Nat \ {0}
    BY <1>1
  <2>2. CASE stack' = Outer
    BY <2>1, <2>2 DEF Outer
  <2>3. CASE \E k \in 0 .. Len(stack) - 1 : stack' = SubSeq(stack, 1, k)
    BY <2>1, <2>3
  <2> QED
    BY <2>2, <2>3 DEF Return
<1>3. stack' \in Seq(CallRecord)
  BY <1>2, CutType
<1> QED
  BY <1>3, Untouched, TypedIsShapes DEF Typed, Return

\* The redefinitions leave the calls alone; the table of arities stays a table.
LEMMA RedefineType ==
  ASSUME Shapes, Redefine
  PROVE  Shapes'
<1>1. stack' = stack
  BY DEF Redefine, Define, EraseProcs, EraseAll
<1>2. NewGeneration \/ UNCHANGED <<line, body>>
  BY DEF Redefine, Define, EraseProcs, EraseAll, SameGeneration
<1>3. line' \in [Body -> [Line -> LineRecord]] /\ body' \in [Body -> BodyRecord]
  BY <1>2, NewGenerationType, Untouched DEF BodyRecord
<1>4. arity' \in [Proc -> Arity \cup {UNDEFINED}]
  <2>1. CASE \E p \in Proc, n \in Arity : Define(p, n)
    BY <2>1, Untouched DEF Define
  <2>2. CASE \E S \in SUBSET Proc : EraseProcs(S) \/ EraseAll(S)
    BY <2>2, Untouched DEF EraseProcs, EraseAll
  <2> QED
    BY <2>1, <2>2 DEF Redefine
<1> QED
  BY <1>1, <1>3, <1>4, Untouched, TypedIsShapes DEF Typed

LEMMA TypeNext ==
  ASSUME Shapes, [Next]_vars
  PROVE  Shapes'
<1>1. CASE UNCHANGED vars
  BY <1>1 DEF vars, Shapes
<1>2. CASE \E b \in Body : Invoke(b) \/ TailInvoke(b)
  BY <1>2, InvokeType, TailInvokeType
<1>3. CASE Treeify
  BY <1>3, TreeifyLineType, TreeifyErrorType, TreeifyDoneType DEF Treeify
<1>4. CASE RunLine \/ RepairLine \/ EndLine \/ Return
  BY <1>4, RunLineType, RepairLineType, EndLineType, ReturnType
<1>5. CASE Redefine
  BY <1>5, RedefineType
<1> QED
  BY <1>1, <1>2, <1>3, <1>4, <1>5 DEF Next

\* Only redefinitions change the history.
LEMMA SilentNext ==
  ASSUME silent \in SUBSET Proc, [Next]_vars
  PROVE  silent' \in SUBSET Proc
<1>1. CASE Redefine
  <2>1. CASE \E p \in Proc, n \in Arity : Define(p, n)
    <3>1. PICK p \in Proc, n \in Arity : Define(p, n)
      BY <2>1
    <3>2. silent' = {} \/ silent' = silent \cup Unlike(p, n)
      BY <3>1 DEF Define, NewGeneration, SameGeneration
    <3> QED
      BY <3>2 DEF Unlike
  <2>2. CASE \E S \in SUBSET Proc : EraseProcs(S) \/ EraseAll(S)
    BY <2>2 DEF EraseProcs, EraseAll, NewGeneration, SameGeneration
  <2> QED
    BY <1>1, <2>1, <2>2 DEF Redefine
<1>2. CASE ~Redefine
  <2>1. CASE \E b \in Body : Invoke(b) \/ TailInvoke(b)
    BY <2>1 DEF Invoke, TailInvoke
  <2>2. CASE TreeifyLine \/ TreeifyError \/ TreeifyDone
    BY <2>2 DEF TreeifyLine, TreeifyError, TreeifyDone
  <2>3. CASE RunLine \/ RepairLine \/ EndLine \/ Return
    BY <2>3 DEF RunLine, RepairLine, EndLine, Return
  <2>4. CASE UNCHANGED vars
    BY <2>4 DEF vars
  <2> QED
    BY <1>2, <2>1, <2>2, <2>3, <2>4 DEF Next, Treeify
<1> QED
  BY <1>1, <1>2

\* The state is what the code's data can be, whatever the calls and redefinitions.
THEOREM TypeCorrect == Spec => []TypeOK
<1>1. Init => TypeOK
  BY TypeInit DEF Init, Shapes, TypeOK
<1>2. TypeOK /\ [Next]_vars => TypeOK'
  BY TypeNext, SilentNext DEF Shapes, TypeOK
<1> QED
  BY <1>1, <1>2, PTL DEF Spec

-----------------------------------------------------------------------------
(* The generation. *)

\* A tree parsed as it would be now, and with a generation: no procedure in it is
\* undefined, but for the names that begin with SET; silent changes apart.
ParsedNow(l) == \A p \in DOMAIN l.parse \ silent :
    l.parse[p] = Inputs(p) /\ (arity[p] # UNDEFINED \/ p \in Setter)

\* Inductive: FreshIsRight alone would not survive the definition of a procedure
\* that was undefined, which leaves the_generation as it is.
FreshInv == \A b \in Body, i \in Line : line[b][i].fresh => ParsedNow(line[b][i])

LEMMA FreshInit == Init => FreshInv
  BY DEF Init, FreshInv, NoTree

\* make_tree gives a generation only to a tree of procedures that are defined, or
\* have a name that begins with SET.
LEMMA MakeTreeParsedNow ==
  ASSUME Shapes, FreshInv, NEW b \in Body, NEW i \in Line, MakeTree(b, i).fresh
  PROVE  ParsedNow(MakeTree(b, i))
<1>1. CASE Usable(line[b][i])
  BY <1>1 DEF MakeTree, FreshInv
<1>2. CASE ~Usable(line[b][i])
  <2>1. \A p \in Calls[b][i] \ Setter : arity[p] # UNDEFINED
    BY <1>2 DEF MakeTree
  <2>2. MakeTree(b, i).parse = [p \in Calls[b][i] |-> Inputs(p)]
    BY <1>2 DEF MakeTree
  <2> QED
    BY <2>1, <2>2 DEF ParsedNow
<1> QED
  BY <1>1, <1>2

\* Lines only lose their trees, and the procedures stay.
LEMMA FreshWhenUntreed ==
  ASSUME FreshInv, arity' = arity, silent' = silent,
         \A b \in Body, i \in Line : line'[b][i] = line[b][i] \/ line'[b][i] = NoTree
  PROVE  FreshInv'
<1>1. ~NoTree.fresh
  BY DEF NoTree
<1>2. ASSUME NEW b \in Body, NEW i \in Line, line'[b][i].fresh
      PROVE  ParsedNow(line[b][i])'
  <2>1. line'[b][i] = line[b][i]
    BY <1>1, <1>2
  <2> QED
    BY <1>2, <2>1 DEF FreshInv, ParsedNow, Inputs
<1> QED
  BY <1>2 DEF FreshInv

LEMMA FreshBegin ==
  ASSUME Shapes, FreshInv, NEW b \in Body, NEW s, Begin(b, s), arity' = arity, silent' = silent
  PROVE  FreshInv'
<1>1. \A c \in Body, i \in Line : line'[c][i] = line[c][i] \/ line'[c][i] = NoTree
  BY Untouched DEF Begin, Untreeify
<1> QED
  BY <1>1, FreshWhenUntreed

LEMMA FreshRepairLine ==
  ASSUME Shapes, FreshInv, RepairLine
  PROVE  FreshInv'
<1>1. \A b \in Body, i \in Line : line'[b][i] = line[b][i] \/ line'[b][i] = NoTree
  BY Untouched DEF RepairLine
<1>2. arity' = arity /\ silent' = silent
  BY DEF RepairLine
<1> QED
  BY <1>1, <1>2, FreshWhenUntreed

\* The line that is parsed is right; appending it to another changes no parse.
LEMMA FreshTreeifyLine ==
  ASSUME Shapes, FreshInv, TreeifyLine
  PROVE  FreshInv'
<1> DEFINE i == Top.at
           made == [line[Top.body] EXCEPT ![i] = MakeTree(Top.body, i)]
           linked == IF Top.end = 0 THEN made ELSE [made EXCEPT ![Top.end].next = i]
<1>1. stack # <<>> /\ Top \in CallRecord
  BY TopType DEF TreeifyLine, Treeifying
<1>2. Top.body \in Body /\ i \in Line
  BY <1>1, LinesAssumption DEF CallRecord, TreeifyLine, Line
<1>3. line \in [Body -> [Line -> LineRecord]]
  BY Untouched
<1>4. made \in [Line -> LineRecord]
  BY <1>2, <1>3, MakeTreeType
<1>5. ASSUME NEW j \in Line
      PROVE  linked[j].fresh = made[j].fresh /\ linked[j].parse = made[j].parse
  <2>1. made[j] \in LineRecord
    BY <1>4
  <2>2. linked[j] = made[j] \/ linked[j] = [made[j] EXCEPT !.next = i]
    <3> HIDE DEF made
    <3> QED
      BY <1>4
  <2> HIDE DEF made, linked
  <2> QED
    BY <2>1, <2>2 DEF LineRecord
<1>6. ASSUME NEW j \in Line, made[j].fresh
      PROVE  ParsedNow(made[j])
  <2>1. CASE j = i
    BY <1>2, <1>3, <1>6, <2>1, MakeTreeParsedNow
  <2>2. CASE j # i
    BY <1>2, <1>3, <1>6, <2>2 DEF FreshInv
  <2> QED
    BY <2>1, <2>2
<1>7. arity' = arity /\ silent' = silent /\ line' = [line EXCEPT ![Top.body] = linked]
  BY DEF TreeifyLine
<1>8. ASSUME NEW b \in Body, NEW j \in Line, line'[b][j].fresh
      PROVE  ParsedNow(line[b][j])'
  <2> HIDE DEF made, linked
  <2>1. CASE b = Top.body
    <3>1. line'[b][j] = linked[j]
      BY <1>2, <1>3, <1>7, <2>1
    <3>2. made[j].fresh /\ line'[b][j].parse = made[j].parse
      BY <1>5, <1>8, <3>1
    <3> QED
      BY <1>6, <1>7, <3>2 DEF ParsedNow, Inputs
  <2>2. CASE b # Top.body
    <3>1. line'[b][j] = line[b][j]
      BY <1>2, <1>3, <1>7, <2>2
    <3> QED
      BY <1>7, <1>8, <3>1 DEF FreshInv, ParsedNow, Inputs
  <2> QED
    BY <2>1, <2>2
<1> QED
  BY <1>8 DEF FreshInv

\* The same generation: a procedure that a fresh line may call, and that is not
\* silent afterwards, is called as before.
LEMMA SameCalls ==
  ASSUME Shapes, Redefine, ~NewGeneration, NEW q \in Proc \ silent',
         arity[q] # UNDEFINED \/ q \in Setter
  PROVE  /\ line' = line /\ silent \subseteq silent'
         /\ Inputs(q)' = Inputs(q) /\ (arity'[q] # UNDEFINED \/ q \in Setter)
<1>1. arity \in [Proc -> Arity \cup {UNDEFINED}]
  BY Untouched
<1>2. CASE \E p \in Proc, n \in Arity : Define(p, n)
  <2>1. PICK p \in Proc, n \in Arity : Define(p, n)
    BY <1>2
  <2>2. /\ line' = line /\ silent' = silent \cup Unlike(p, n)
        /\ arity' = [arity EXCEPT ![p] = n] /\ (arity[p] = UNDEFINED \/ arity[p] = n)
    BY <2>1 DEF Define, SameGeneration
  <2>3. CASE q # p
    BY <1>1, <2>2, <2>3 DEF Inputs
  <2>4. CASE q = p
    <3>1. arity'[q] = n /\ n # UNDEFINED
      BY <1>1, <2>2, <2>4, ArityAssumption
    <3>2. Inputs(q) = n
      BY <2>2, <2>4 DEF Unlike, Inputs
    <3> QED
      BY <2>2, <3>1, <3>2 DEF Inputs
  <2> QED
    BY <2>3, <2>4
<1>3. CASE \E S \in SUBSET Proc : EraseAll(S)
  <2>1. PICK S \in SUBSET Proc : EraseAll(S)
    BY <1>3
  <2>2. /\ line' = line /\ silent' = silent \cup {p \in S : arity[p] # UNDEFINED}
        /\ arity' = [p \in Proc |-> IF p \in S THEN UNDEFINED ELSE arity[p]]
    BY <2>1 DEF EraseAll, SameGeneration
  <2>3. arity'[q] = arity[q]
    BY <1>1, <2>2
  <2> QED
    BY <2>2, <2>3 DEF Inputs
<1> QED
  BY <1>2, <1>3 DEF Redefine, EraseProcs

\* A new generation: no line is fresh.
LEMMA FreshRedefine ==
  ASSUME Shapes, FreshInv, Redefine
  PROVE  FreshInv'
<1>1. line \in [Body -> [Line -> LineRecord]]
  BY Untouched
<1>2. CASE NewGeneration
  <2>1. ASSUME NEW b \in Body, NEW i \in Line PROVE ~line'[b][i].fresh
    <3>1. line'[b][i] = [line[b][i] EXCEPT !.fresh = FALSE] /\ line[b][i] \in LineRecord
      BY <1>1, <1>2 DEF NewGeneration
    <3> QED
      BY <3>1, NotFresh
  <2> QED
    BY <2>1 DEF FreshInv
<1>3. CASE ~NewGeneration
  <2>1. line' = line /\ silent \subseteq silent'
    BY <1>3 DEF Redefine, Define, EraseProcs, EraseAll, SameGeneration
  <2>2. ASSUME NEW b \in Body, NEW i \in Line, line[b][i].fresh
        PROVE  ParsedNow(line[b][i])'
    <3>1. ParsedNow(line[b][i])
      BY <2>2 DEF FreshInv
    <3>2. DOMAIN line[b][i].parse \subseteq Proc
      <4>1. line[b][i].parse \in Parses
        BY <1>1 DEF LineRecord
      <4> QED
        BY <4>1 DEF Parses
    <3>3. ASSUME NEW q \in DOMAIN line[b][i].parse \ silent'
          PROVE  line[b][i].parse[q] = Inputs(q)' /\ (arity'[q] # UNDEFINED \/ q \in Setter)
      <4>1. q \in Proc \ silent' /\ q \notin silent
        BY <2>1, <3>2
      <4>2. line[b][i].parse[q] = Inputs(q) /\ (arity[q] # UNDEFINED \/ q \in Setter)
        BY <3>1, <4>1 DEF ParsedNow
      <4> QED
        BY <1>3, <4>1, <4>2, SameCalls
    <3> QED
      BY <2>1, <3>3 DEF ParsedNow
  <2> QED
    BY <2>1, <2>2 DEF FreshInv
<1> QED
  BY <1>2, <1>3

LEMMA FreshNext ==
  ASSUME Shapes, FreshInv, [Next]_vars
  PROVE  FreshInv'
<1>1. CASE UNCHANGED <<arity, line, silent>>
  BY <1>1 DEF FreshInv, ParsedNow, Inputs
<1>2. CASE \E b \in Body : Invoke(b) \/ TailInvoke(b)
  BY <1>2, FreshBegin DEF Invoke, TailInvoke
<1>3. CASE TreeifyLine
  BY <1>3, FreshTreeifyLine
<1>4. CASE RepairLine
  BY <1>4, FreshRepairLine
<1>5. CASE Redefine
  BY <1>5, FreshRedefine
<1> QED
  BY <1>1, <1>2, <1>3, <1>4, <1>5
     DEF Next, Treeify, TreeifyError, TreeifyDone, RunLine, EndLine, Return, vars

\* A line whose tree has the current generation is parsed as it would be parsed
\* now, as far as the procedures go that were not erased or defined in a way that
\* leaves the_generation alone: under recursion, repairs, rejected lines, and every
\* order of definitions and erasures (paren.c, make_tree; wrksp.c, define_helper).
THEOREM FreshTreesAreRight == Spec => []FreshIsRight
<1>1. Init => Shapes /\ FreshInv
  BY TypeInit, FreshInit
<1>2. Shapes /\ FreshInv /\ [Next]_vars => Shapes' /\ FreshInv'
  BY TypeNext, FreshNext
<1>3. FreshInv => FreshIsRight
  BY DEF FreshInv, FreshIsRight, ParsedNow, Right, Inputs
<1> QED
  BY <1>1, <1>2, <1>3, PTL DEF Spec

-----------------------------------------------------------------------------
(* Appending the trees of the lines. *)

\* A body with a line the parser rejects; one in which it rejects one of the first
\* two lines, or none.
Rejected(b) == \E i \in Line : <<b, i>> \in BadLine
Early(b) == Rejected(b) => \E i \in Line : i <= 2 /\ <<b, i>> \in BadLine

\* The trees of the lines 1 to n are appended to each other, no others are.
Linked(lines, n) == \A i \in Line : lines[i].next = IF i < n THEN i + 1 ELSE 0

Whole(b, lines, t) ==
    /\ ~Rejected(b)
    /\ \A i \in Line : lines[i].tree
    /\ Linked(lines, NumLines)
    /\ t.fresh => \A i \in Line : lines[i].fresh

\* A body c is treeifying: the lines before c.at have their trees.
Building(c, lines, t) ==
    /\ ~t.tree
    /\ \A j \in Line : j < c.at => <<c.body, j>> \notin BadLine /\ lines[j].tree
    /\ Early(c.body) => c.end = c.at - 1 /\ Linked(lines, c.at - 1)

InWork(b) == Treeifying /\ Top.body = b

\* Inductive.  A body without a tree has no lines with something appended to them:
\* untreeify has taken all trees away, or an error came before the second line had
\* one.  (A body in which a later line is rejected is left with lines appended to
\* each other, and is the reason for Early.)
BodyInv ==
    /\ \A b \in Body : body[b].tree => Whole(b, line[b], body[b])
    /\ \A b \in Body : ~body[b].tree /\ Early(b) /\ ~InWork(b) => Linked(line[b], 0)
    /\ Treeifying => Building(Top, line[Top.body], body[Top.body])
    /\ \A k \in 1 .. Len(stack) - 1 : stack[k].phase = "line"
    /\ stack # <<>> /\ Top.phase = "endless" => ~Early(Top.body)

LEMMA BodyInit == Init => BodyInv
<1> SUFFICES ASSUME Init PROVE BodyInv
  OBVIOUS
<1>1. stack = <<>> /\ Len(stack) = 0 /\ \A b \in Body : ~body[b].tree
  BY DEF Init
<1>2. \A b \in Body : Linked(line[b], 0)
  BY LinesAssumption DEF Init, NoTree, Linked, Line
<1> QED
  BY <1>1, <1>2 DEF BodyInv, Treeifying

\* What remains of the control stack is running a line, or is empty.
LEMMA CutRuns ==
  ASSUME Shapes, \A k \in 1 .. Len(stack) - 1 : stack[k].phase = "line",
         NEW n \in 0 .. Len(stack) - 1, stack' = SubSeq(stack, 1, n)
  PROVE  /\ \A k \in 1 .. Len(stack') : stack'[k].phase = "line"
         /\ stack' # <<>> => Top'.phase = "line"
<1>1. stack \in Seq(CallRecord) /\ Len(stack) \in Nat
  BY Untouched
<1>2. Len(stack') = n /\ \A k \in 1 .. n : stack'[k] = stack[k]
  BY <1>1
<1>3. \A k \in 1 .. Len(stack') : stack'[k].phase = "line"
  BY <1>1, <1>2
<1>4. stack' # <<>> => Len(stack') \in 1 .. Len(stack')
  BY <1>1
<1> QED
  BY <1>3, <1>4 DEF Top

\* A new call on calls that are running lines.
LEMMA AppendRuns ==
  ASSUME NEW s \in Seq(CallRecord), NEW r \in CallRecord,
         \A k \in 1 .. Len(s) : s[k].phase = "line", stack' = Append(s, r)
  PROVE  /\ \A k \in 1 .. Len(stack') - 1 : stack'[k].phase = "line"
         /\ stack' # <<>> /\ Top' = r
  BY DEF Top

LEMMA SetTopRuns ==
  ASSUME Shapes, stack # <<>>, NEW r \in CallRecord, SetTop(r),
         \A k \in 1 .. Len(stack) - 1 : stack[k].phase = "line"
  PROVE  /\ \A k \in 1 .. Len(stack') - 1 : stack'[k].phase = "line"
         /\ stack' # <<>> /\ Top' = r
<1>1. stack \in Seq(CallRecord) /\ Len(stack) \in Nat /\ Len(stack) # 0
  BY Untouched
<1>2. /\ stack' = [stack EXCEPT ![Len(stack)] = r]
      /\ Len(stack') = Len(stack)
      /\ \A k \in 1 .. Len(stack) - 1 : stack'[k] = stack[k]
      /\ stack'[Len(stack)] = r
  BY <1>1 DEF SetTop
<1>3. stack' # <<>>
  BY <1>1, <1>2
<1> QED
  BY <1>2, <1>3 DEF Top

LEMMA DisownRuns ==
  ASSUME NEW s \in Seq(CallRecord), NEW b, \A k \in 1 .. Len(s) : s[k].phase = "line"
  PROVE  Disown(s, b) \in Seq(CallRecord) /\ \A k \in 1 .. Len(Disown(s, b)) : Disown(s, b)[k].phase = "line"
<1>1. Disown(s, b) \in Seq(CallRecord)
  BY DisownType
<1>2. DOMAIN Disown(s, b) = DOMAIN s /\ DOMAIN s = 1 .. Len(s)
  BY DEF Disown
<1>3. Len(Disown(s, b)) = Len(s)
  BY <1>1, <1>2
<1>4. ASSUME NEW k \in 1 .. Len(s) PROVE Disown(s, b)[k].phase = "line"
  <2>1. s[k] \in CallRecord /\ s[k].phase = "line"
    OBVIOUS
  <2>2. Disown(s, b)[k] = s[k] \/ Disown(s, b)[k] = [s[k] EXCEPT !.own = FALSE]
    BY <1>2 DEF Disown
  <2>3. [s[k] EXCEPT !.own = FALSE].phase = "line"
    BY <2>1 DEF CallRecord
  <2> QED
    BY <2>1, <2>2, <2>3
<1> QED
  BY <1>1, <1>3, <1>4

\* Nothing is appended to the lines of an empty body.
LEMMA Unlinked ==
  /\ ~NoTree.tree /\ ~NoTree.fresh /\ NoTree.next = 0
  /\ \A lines : (\A i \in Line : lines[i] = NoTree) => Linked(lines, 0)
<1>1. ~NoTree.tree /\ ~NoTree.fresh /\ NoTree.next = 0
  BY DEF NoTree
<1>2. \A i \in Line : ~(i < 0)
  BY LinesAssumption DEF Line
<1> QED
  BY <1>1, <1>2 DEF Linked

LEMMA BodyBegin ==
  ASSUME Shapes, BodyInv, NEW b \in Body, NEW s \in Seq(CallRecord), Begin(b, s),
         ~Treeifying, \A k \in 1 .. Len(s) : s[k].phase = "line"
  PROVE  BodyInv'
<1>1. line \in [Body -> [Line -> LineRecord]] /\ body \in [Body -> BodyRecord]
  BY Untouched
<1>2. NewCall(b) \in CallRecord
  BY NewCallType
<1>3. CASE Usable(body[b])
  <2>1. line' = line /\ body' = body
    BY <1>3 DEF Begin
  <2> DEFINE r == [NewCall(b) EXCEPT !.phase = "next", !.rest = Trees(line[b], 1)]
  <2>2. Trees(line[b], 1) \in Seq([at : Line, parse : Parses])
    <3>1. line[b] \in [Line -> LineRecord] /\ 1 \in 1 .. NumLines + 1
      BY <1>1, LinesAssumption
    <3> QED
      BY <3>1, TreesType
  <2>3. r \in CallRecord /\ r.phase = "next"
    BY <1>2, <2>2 DEF CallRecord, Phase
  <2>4. stack' = Append(s, r)
    BY <1>3 DEF Begin
  <2> HIDE DEF r
  <2>5. /\ \A k \in 1 .. Len(stack') - 1 : stack'[k].phase = "line"
        /\ stack' # <<>> /\ Top' = r
    BY <2>3, <2>4, AppendRuns
  <2>6. ~Treeifying'
    BY <2>3, <2>5 DEF Treeifying
  <2> QED
    BY <2>1, <2>3, <2>5, <2>6 DEF BodyInv, InWork
<1>4. CASE ~Usable(body[b])
  <2> DEFINE t == IF body[b].tree THEN Disown(s, b) ELSE s
  <2>1. t \in Seq(CallRecord) /\ \A k \in 1 .. Len(t) : t[k].phase = "line"
    BY DisownRuns
  <2>2. stack' = Append(t, NewCall(b)) /\ Untreeify(b)
    BY <1>4 DEF Begin
  <2> HIDE DEF t
  <2>3. /\ \A k \in 1 .. Len(stack') - 1 : stack'[k].phase = "line"
        /\ stack' # <<>> /\ Top' = NewCall(b)
    BY <1>2, <2>1, <2>2, AppendRuns
  <2>4. Top'.body = b /\ Top'.phase = "treeify" /\ Top'.at = 1 /\ Top'.end = 0
    BY <2>3 DEF NewCall
  <2>5. Treeifying' /\ \A c \in Body : InWork(c)' <=> c = b
    BY <2>3, <2>4 DEF Treeifying, InWork
  <2>6. body'[b].tree = FALSE /\ \A c \in Body : c # b => body'[c] = body[c] /\ line'[c] = line[c]
    BY <1>1, <2>2 DEF Untreeify
  <2>7. Early(b) => Linked(line'[b], 0)
    <3>1. CASE body[b].tree
      <4>1. \A i \in Line : line'[b][i] = NoTree
        BY <1>1, <2>2, <3>1 DEF Untreeify
      <4> QED
        BY <4>1, Unlinked
    <3>2. CASE ~body[b].tree
      BY <2>2, <3>2 DEF Untreeify, BodyInv, InWork
    <3> QED
      BY <3>1, <3>2
  <2>8. Building(Top', line'[b], body'[b])
    <3>1. \A j \in Line : ~(j < 1)
      BY LinesAssumption DEF Line
    <3> QED
      BY <2>4, <2>6, <2>7, <3>1 DEF Building
  <2>9. \A c \in Body : body'[c].tree => Whole(c, line'[c], body'[c])
    BY <2>6 DEF BodyInv
  <2>10. \A c \in Body : ~body'[c].tree /\ Early(c) /\ ~InWork(c)' => Linked(line'[c], 0)
    BY <2>5, <2>6 DEF BodyInv, InWork
  <2> QED
    BY <2>3, <2>4, <2>8, <2>9, <2>10 DEF BodyInv
<1> QED
  BY <1>3, <1>4

\* A tree from which untreeify has taken all lines.
LEMMA BodyRepairLine ==
  ASSUME Shapes, BodyInv, RepairLine
  PROVE  BodyInv'
<1> DEFINE b == Top.body
           r == RepairCall
<1>1. line \in [Body -> [Line -> LineRecord]] /\ body \in [Body -> BodyRecord]
  BY Untouched
<1>2. stack # <<>> /\ Top \in CallRecord /\ stack \in Seq(CallRecord) /\ Len(stack) \in Nat \ {0}
  BY TopType, Untouched DEF RepairLine, AtLine
<1>3. b \in Body /\ ~Treeifying
  BY <1>2 DEF CallRecord, RepairLine, AtLine, Treeifying
<1>4. r \in CallRecord
  BY RepairCallType DEF RepairLine
<1>5. r.body = b /\ r.phase = "repair" /\ r.at = 1 /\ r.end = 0
  BY DEF NewCall, RepairCall
<1>6. Outer \in Seq(CallRecord) /\ \A k \in 1 .. Len(Outer) : Outer[k].phase = "line"
  BY <1>2 DEF Outer, BodyInv
<1>7. /\ Disown(Outer, b) \in Seq(CallRecord)
      /\ \A k \in 1 .. Len(Disown(Outer, b)) : Disown(Outer, b)[k].phase = "line"
  BY <1>6, DisownRuns
<1>8. stack' = Append(Disown(Outer, b), r)
  BY DEF RepairLine, RepairCall
<1> HIDE DEF r
<1>9. /\ \A k \in 1 .. Len(stack') - 1 : stack'[k].phase = "line"
      /\ stack' # <<>> /\ Top' = r
  BY <1>4, <1>7, <1>8, AppendRuns
<1>10. Treeifying' /\ \A c \in Body : InWork(c)' <=> c = b
  BY <1>5, <1>9 DEF Treeifying, InWork
<1>11. body'[b].tree = FALSE /\ \A c \in Body : c # b => body'[c] = body[c] /\ line'[c] = line[c]
  BY <1>1, <1>3 DEF RepairLine
<1>12. Linked(line'[b], 0)
  <2>1. \A i \in Line : line'[b][i] = NoTree
    BY <1>1, <1>3 DEF RepairLine
  <2> QED
    BY <2>1, Unlinked
<1>13. Building(Top', line'[b], body'[b])
  <2>1. \A j \in Line : ~(j < 1)
    BY LinesAssumption DEF Line
  <2> QED
    BY <1>5, <1>9, <1>11, <1>12, <2>1 DEF Building
<1>14. \A c \in Body : body'[c].tree => Whole(c, line'[c], body'[c])
  BY <1>11 DEF BodyInv
<1>15. \A c \in Body : ~body'[c].tree /\ Early(c) /\ ~InWork(c)' => Linked(line'[c], 0)
  BY <1>3, <1>10, <1>11 DEF BodyInv, InWork
<1> QED
  BY <1>5, <1>9, <1>13, <1>14, <1>15 DEF BodyInv

\* A line with nothing appended to it is the end of its own trees.
LEMMA EndOfLine ==
  ASSUME NEW lines, NEW i \in Line, lines[i].next = 0
  PROVE  Ends(lines, i) # {} /\ LastOf(lines, i) = i
<1>1. Follows(lines, i, i)
  <2> DEFINE f == [k \in 1 .. 1 |-> i]
  <2>1. f \in [1 .. 1 -> Line] /\ f[1] = i
    OBVIOUS
  <2>2. 1 \in Line
    BY LinesAssumption DEF Line
  <2>3. \A k \in 1 .. 1 - 1 : lines[f[k]].next = f[k + 1]
    OBVIOUS
  <2> HIDE DEF f
  <2> QED
    BY <2>1, <2>2, <2>3 DEF Follows
<1>2. i \in Ends(lines, i)
  BY <1>1 DEF Ends
<1>3. ASSUME NEW j \in Ends(lines, i) PROVE j = i
  <2>1. PICK n \in Line : \E f \in [1 .. n -> Line] :
            f[1] = i /\ f[n] = j /\ \A k \in 1 .. n - 1 : lines[f[k]].next = f[k + 1]
    BY <1>3 DEF Ends, Follows
  <2>2. PICK f \in [1 .. n -> Line] :
            f[1] = i /\ f[n] = j /\ \A k \in 1 .. n - 1 : lines[f[k]].next = f[k + 1]
    BY <2>1
  <2>3. n \in Nat /\ 1 <= n
    BY LinesAssumption DEF Line
  <2>4. CASE n = 1
    BY <2>2, <2>4
  <2>5. CASE n # 1
    <3>1. 1 \in 1 .. n - 1 /\ 2 \in 1 .. n
      BY <2>3, <2>5
    <3>2. lines[f[1]].next = f[2] /\ f[2] \in Line
      BY <2>2, <3>1
    <3>3. 0 \notin Line
      BY DEF Line
    <3> QED
      BY <2>2, <3>2, <3>3
  <2> QED
    BY <2>4, <2>5
<1> QED
  BY <1>2, <1>3 DEF LastOf

\* One more line appended.
Appended(lines, i, r) ==
    IF i - 1 = 0 THEN [lines EXCEPT ![i] = r]
    ELSE [[lines EXCEPT ![i] = r] EXCEPT ![i - 1].next = i]

LEMMA LinkOneMore ==
  ASSUME NEW lines \in [Line -> LineRecord], NEW i \in Line, Linked(lines, i - 1),
         NEW r \in LineRecord, r.next = 0
  PROVE  Linked(Appended(lines, i, r), i) /\ Appended(lines, i, r)[i].next = 0
<1> DEFINE made == [lines EXCEPT ![i] = r]
           linked == Appended(lines, i, r)
<1>1. i \in Nat /\ 1 <= i /\ i <= NumLines /\ NumLines \in Nat /\ Line = 1 .. NumLines
  BY LinesAssumption DEF Line
<1>2. made \in [Line -> LineRecord] /\ made[i] = r /\ \A j \in Line \ {i} : made[j] = lines[j]
  OBVIOUS
<1>6. linked = IF i - 1 = 0 THEN made ELSE [made EXCEPT ![i - 1].next = i]
  BY DEF Appended
<1> HIDE DEF made, linked
<1>3. \A j \in Line \ {i} : made[j].next = IF j < i - 1 THEN j + 1 ELSE 0
  BY <1>2 DEF Linked
<1>4. CASE i = 1
  <2>1. linked = made
    BY <1>4, <1>6
  <2>2. ASSUME NEW j \in Line PROVE made[j].next = IF j < i THEN j + 1 ELSE 0
    <3>1. j \in Nat /\ 1 <= j
      BY <1>1
    <3>2. CASE j = i
      BY <1>2, <3>1, <3>2
    <3>3. CASE j # i
      <4>1. made[j].next = IF j < i - 1 THEN j + 1 ELSE 0
        BY <1>3, <3>3
      <4> QED
        BY <1>4, <3>1, <4>1
    <3> QED
      BY <3>2, <3>3
  <2>3. linked[i].next = 0
    BY <1>2, <2>1
  <2> QED
    BY <2>1, <2>2, <2>3 DEF Linked, linked
<1>5. CASE i # 1
  <2>1. linked = [made EXCEPT ![i - 1].next = i]
    BY <1>1, <1>5, <1>6
  <2>2. i - 1 \in Line /\ i - 1 # i
    BY <1>1, <1>5
  <2>3. made[i - 1] \in LineRecord
    BY <1>2, <2>2
  <2>4. linked[i - 1] = [made[i - 1] EXCEPT !.next = i] /\ \A j \in Line \ {i - 1} : linked[j] = made[j]
    BY <1>2, <2>1, <2>2
  <2>5. linked[i - 1].next = i
    BY <2>3, <2>4 DEF LineRecord
  <2>6. linked[i].next = 0
    BY <1>2, <2>2, <2>4
  <2>7. ASSUME NEW j \in Line PROVE linked[j].next = IF j < i THEN j + 1 ELSE 0
    <3>1. j \in Nat
      BY <1>1
    <3>2. CASE j = i - 1
      BY <1>1, <2>5, <3>2
    <3>3. CASE j = i
      BY <1>1, <2>6, <3>3
    <3>4. CASE j # i - 1 /\ j # i
      <4>1. linked[j].next = IF j < i - 1 THEN j + 1 ELSE 0
        BY <1>3, <2>4, <3>4
      <4> QED
        BY <1>1, <3>1, <3>4, <4>1
    <3> QED
      BY <3>2, <3>3, <3>4
  <2> QED
    BY <2>6, <2>7 DEF Linked, linked
<1> QED
  BY <1>4, <1>5

\* make_tree leaves a tree.
LEMMA MakeTreeTree ==
  ASSUME Shapes, NEW b \in Body, NEW i \in Line
  PROVE  /\ MakeTree(b, i).tree
         /\ line[b][i].next = 0 => MakeTree(b, i).next = 0
<1>1. CASE Usable(line[b][i])
  BY <1>1 DEF MakeTree, Usable
<1>2. CASE ~Usable(line[b][i])
  BY <1>2 DEF MakeTree
<1> QED
  BY <1>1, <1>2

LEMMA BodyTreeifyLine ==
  ASSUME Shapes, BodyInv, TreeifyLine
  PROVE  BodyInv'
<1> DEFINE b == Top.body
           i == Top.at
           made == [line[b] EXCEPT ![i] = MakeTree(b, i)]
           linked == IF Top.end = 0 THEN made ELSE [made EXCEPT ![Top.end].next = i]
           r == IF Ends(linked, i) = {} THEN [Top EXCEPT !.phase = "endless"]
                ELSE [Top EXCEPT !.at = i + 1, !.end = LastOf(linked, i)]
<1>1. stack # <<>> /\ Top \in CallRecord /\ Treeifying /\ stack \in Seq(CallRecord)
  BY TopType, Untouched DEF TreeifyLine, Treeifying
<1>2. b \in Body /\ i \in Line /\ Top.end \in 0 .. NumLines
  BY <1>1, LinesAssumption DEF CallRecord, TreeifyLine, Line
<1>3. line \in [Body -> [Line -> LineRecord]] /\ body \in [Body -> BodyRecord]
  BY Untouched
<1>4. MakeTree(b, i) \in LineRecord /\ MakeTree(b, i).tree
  BY <1>2, MakeTreeType, MakeTreeTree
<1>5. made \in [Line -> LineRecord] /\ made[i] = MakeTree(b, i)
      /\ \A j \in Line \ {i} : made[j] = line[b][j]
  BY <1>2, <1>3, <1>4
<1>6. line' = [line EXCEPT ![b] = linked] /\ SetTop(r) /\ UNCHANGED <<arity, body>>
  BY DEF TreeifyLine
<1>7. Building(Top, line[b], body[b])
  BY <1>1 DEF BodyInv
<1>8. ASSUME NEW j \in Line PROVE linked[j].tree = made[j].tree
  <2>1. made[j] \in LineRecord
    BY <1>5
  <2>2. linked[j] = made[j] \/ linked[j] = [made[j] EXCEPT !.next = i]
    <3> HIDE DEF made
    <3> QED
      BY <1>5
  <2> HIDE DEF made, linked
  <2> QED
    BY <2>1, <2>2 DEF LineRecord
<1>9. Early(b) => Linked(linked, i) /\ linked[i].next = 0
  <2> SUFFICES ASSUME Early(b) PROVE Linked(linked, i) /\ linked[i].next = 0
    OBVIOUS
  <2>1. Top.end = i - 1 /\ Linked(line[b], i - 1)
    BY <1>7 DEF Building
  <2>2. line[b][i].next = 0
    <3>1. ~(i < i - 1)
      BY <1>2, LinesAssumption DEF Line
    <3> QED
      BY <1>2, <2>1, <3>1 DEF Linked
  <2>3. MakeTree(b, i).next = 0
    BY <1>2, <2>2, MakeTreeTree
  <2>4. linked = Appended(line[b], i, MakeTree(b, i))
    BY <2>1 DEF Appended
  <2>5. line[b] \in [Line -> LineRecord]
    BY <1>2, <1>3
  <2> HIDE DEF made, linked, b, i
  <2>6. Linked(Appended(line[b], i, MakeTree(b, i)), i) /\ Appended(line[b], i, MakeTree(b, i))[i].next = 0
    BY <1>2, <1>4, <2>1, <2>3, <2>5, LinkOneMore
  <2> QED
    BY <2>4, <2>6
<1> HIDE DEF made, linked
<1>10. Early(b) => Ends(linked, i) # {} /\ LastOf(linked, i) = i
  BY <1>2, <1>9, EndOfLine
<1>11. r \in CallRecord
  <2>1. CASE Ends(linked, i) = {}
    BY <1>1, <2>1 DEF CallRecord, Phase
  <2>2. CASE Ends(linked, i) # {}
    <3>1. LastOf(linked, i) \in Ends(linked, i)
      BY <2>2 DEF LastOf
    <3>2. LastOf(linked, i) \in 0 .. NumLines
      BY <3>1, LinesAssumption DEF Ends, Line
    <3>3. i + 1 \in 1 .. NumLines + 1
      BY <1>2, LinesAssumption DEF Line
    <3>4. [Top EXCEPT !.at = i + 1, !.end = LastOf(linked, i)] \in CallRecord
      BY <1>1, <3>2, <3>3 DEF CallRecord
    <3> QED
      BY <2>2, <3>4
  <2> QED
    BY <2>1, <2>2
<1>12. /\ r.body = b
       /\ r.phase \in {"treeify", "repair"} =>
              r.at = i + 1 /\ r.end = LastOf(linked, i)
       /\ r.phase = "endless" => Ends(linked, i) = {}
  <2>1. CASE Ends(linked, i) = {}
    BY <1>1, <2>1 DEF CallRecord
  <2>2. CASE Ends(linked, i) # {}
    <3>1. r = [Top EXCEPT !.at = i + 1, !.end = LastOf(linked, i)] /\ Top.phase # "endless"
      BY <1>1, <2>2 DEF Treeifying
    <3> QED
      BY <1>1, <2>2, <3>1 DEF CallRecord
  <2> QED
    BY <2>1, <2>2
<1> HIDE DEF r
<1>13. /\ \A k \in 1 .. Len(stack') - 1 : stack'[k].phase = "line"
       /\ stack' # <<>> /\ Top' = r
  BY <1>1, <1>6, <1>11, SetTopRuns DEF BodyInv
<1>14. line'[b] = linked /\ \A c \in Body \ {b} : line'[c] = line[c]
  BY <1>2, <1>3, <1>6
<1>15. body' = body /\ ~body[b].tree
  BY <1>6, <1>7 DEF Building
<1>16. \A c \in Body : body'[c].tree => Whole(c, line'[c], body'[c])
  BY <1>14, <1>15 DEF BodyInv
<1>17. Treeifying' => Building(Top', line'[b], body'[b])
  <2> SUFFICES ASSUME Treeifying' PROVE Building(Top', line'[b], body'[b])
    OBVIOUS
  <2>1. r.at = i + 1 /\ r.end = LastOf(linked, i)
    BY <1>12, <1>13 DEF Treeifying
  <2>2. ASSUME NEW j \in Line, j < i + 1 PROVE <<b, j>> \notin BadLine /\ linked[j].tree
    <3>1. CASE j = i
      BY <1>2, <1>4, <1>5, <1>8, <3>1 DEF TreeifyLine
    <3>2. CASE j # i
      <4>1. j < i
        BY <1>2, <2>2, <3>2, LinesAssumption DEF Line
      <4>2. <<b, j>> \notin BadLine /\ line[b][j].tree
        BY <1>7, <4>1 DEF Building
      <4> QED
        BY <1>5, <1>8, <3>2, <4>2
    <3> QED
      BY <3>1, <3>2
  <2>3. i + 1 - 1 = i
    BY <1>2, LinesAssumption DEF Line
  <2>4. Top'.body = b /\ Top'.at = i + 1 /\ Top'.end = LastOf(linked, i)
    BY <1>12, <1>13, <2>1
  <2>5. Early(b) => Top'.end = Top'.at - 1 /\ Linked(linked, Top'.at - 1)
    <3>1. Top'.at - 1 = i
      <4>1. i \in Nat
        BY <1>2, LinesAssumption DEF Line
      <4>2. Top'.at = i + 1
        BY <2>4
      <4> HIDE DEF i
      <4> QED
        BY <4>1, <4>2
    <3> QED
      BY <1>9, <1>10, <2>4, <3>1
  <2>6. \A j \in Line : j < Top'.at => <<b, j>> \notin BadLine /\ linked[j].tree
    BY <2>2, <2>4
  <2> HIDE DEF b
  <2> QED
    BY <1>14, <1>15, <2>4, <2>5, <2>6 DEF Building
<1>18. \A c \in Body : ~body'[c].tree /\ Early(c) /\ ~InWork(c)' => Linked(line'[c], 0)
  <2> SUFFICES ASSUME NEW c \in Body, ~body'[c].tree, Early(c), ~InWork(c)'
               PROVE  Linked(line'[c], 0)
    OBVIOUS
  <2>1. c # b
    <3> SUFFICES ASSUME c = b PROVE FALSE
      OBVIOUS
    <3>1. Ends(linked, i) # {}
      BY <1>10
    <3>2. r.phase \in {"treeify", "repair"}
      BY <1>1, <3>1 DEF r, CallRecord, Treeifying
    <3> QED
      BY <1>12, <1>13, <3>2 DEF InWork, Treeifying
  <2> QED
    BY <1>14, <1>15, <2>1 DEF BodyInv, InWork
<1>19. stack' # <<>> /\ Top'.phase = "endless" => ~Early(Top'.body)
  BY <1>10, <1>12, <1>13
<1> QED
  BY <1>12, <1>13, <1>16, <1>17, <1>18, <1>19 DEF BodyInv

\* The error comes at the first line or the second, before anything was appended.
LEMMA BodyTreeifyError ==
  ASSUME Shapes, BodyInv, TreeifyError
  PROVE  BodyInv'
<1> DEFINE b == Top.body
<1>1. stack # <<>> /\ Top \in CallRecord /\ Treeifying
  BY TopType DEF TreeifyError, Treeifying
<1>2. UNCHANGED <<arity, line, body>>
  BY DEF TreeifyError
<1>3. PICK n \in 0 .. Len(stack) - 1 : stack' = SubSeq(stack, 1, n)
  BY DEF TreeifyError
<1>4. /\ \A k \in 1 .. Len(stack') : stack'[k].phase = "line"
      /\ stack' # <<>> => Top'.phase = "line"
  BY <1>3, CutRuns DEF BodyInv
<1>5. ~Treeifying'
  BY <1>4 DEF Treeifying
<1>6. Len(stack') \in Nat
  BY <1>3, Untouched
<1>7. Building(Top, line[b], body[b])
  BY <1>1 DEF BodyInv
<1>8. Early(b) => Linked(line[b], 0)
  <2> SUFFICES ASSUME Early(b) PROVE Linked(line[b], 0)
    OBVIOUS
  <2>1. Top.at \in Line /\ <<b, Top.at>> \in BadLine
    BY <1>1, LinesAssumption DEF TreeifyError, CallRecord, Line
  <2>2. PICK m \in Line : m <= 2 /\ <<b, m>> \in BadLine
    BY <2>1 DEF Early, Rejected
  <2>3. ~(m < Top.at)
    BY <1>7, <2>2 DEF Building
  <2>4. Top.at \in Nat /\ Top.at <= 2
    BY <2>1, <2>2, <2>3, LinesAssumption DEF Line
  <2>5. Linked(line[b], Top.at - 1)
    BY <1>7 DEF Building
  <2>6. \A j \in Line : ~(j < Top.at - 1) /\ ~(j < 0)
    BY <2>4, LinesAssumption DEF Line
  <2> QED
    BY <2>5, <2>6 DEF Linked
<1>9. \A c \in Body : ~body'[c].tree /\ Early(c) /\ ~InWork(c)' => Linked(line'[c], 0)
  <2> SUFFICES ASSUME NEW c \in Body, ~body'[c].tree, Early(c) PROVE Linked(line'[c], 0)
    OBVIOUS
  <2>1. CASE c = b
    BY <1>2, <1>8, <2>1
  <2>2. CASE c # b
    BY <1>2, <2>2 DEF BodyInv, InWork
  <2> QED
    BY <2>1, <2>2
<1>10. \A c \in Body : body'[c].tree => Whole(c, line'[c], body'[c])
  BY <1>2 DEF BodyInv
<1>11. \A k \in 1 .. Len(stack') - 1 : stack'[k].phase = "line"
  BY <1>4, <1>6
<1> QED
  BY <1>4, <1>5, <1>9, <1>10, <1>11 DEF BodyInv

\* The last line is parsed: the body is its lines.
LEMMA BodyTreeifyDone ==
  ASSUME Shapes, BodyInv, TreeifyDone
  PROVE  BodyInv'
<1> DEFINE b == Top.body
           r == DoneCall
<1>1. stack # <<>> /\ Top \in CallRecord /\ Treeifying /\ Top.at = NumLines + 1
  BY TopType DEF TreeifyDone, Treeifying
<1>2. b \in Body /\ body \in [Body -> BodyRecord] /\ NumLines \in Nat \ {0}
  BY <1>1, Untouched, LinesAssumption DEF CallRecord
<1>3. r \in CallRecord
  BY <1>1, DoneCallType
<1>4. SetTop(r) /\ line' = line
      /\ body' = [body EXCEPT ![b] = [tree |-> TRUE, fresh |-> BodyFresh(b)]]
  BY DEF TreeifyDone, DoneCall
<1>5. r.phase \in {"line", "next"}
  BY DEF NewCall, DoneCall
<1> HIDE DEF r
<1>6. /\ \A k \in 1 .. Len(stack') - 1 : stack'[k].phase = "line"
      /\ stack' # <<>> /\ Top' = r
  BY <1>1, <1>3, <1>4, SetTopRuns DEF BodyInv
<1>7. ~Treeifying'
  BY <1>5, <1>6 DEF Treeifying
<1>8. body'[b].tree /\ body'[b].fresh = BodyFresh(b) /\ \A c \in Body \ {b} : body'[c] = body[c]
  BY <1>2, <1>4
<1>9. Whole(b, line[b], body'[b])
  <2>1. Building(Top, line[b], body[b])
    BY <1>1 DEF BodyInv
  <2>2. \A j \in Line : j < Top.at
    BY <1>1, <1>2 DEF Line
  <2>3. ~Rejected(b) /\ \A j \in Line : line[b][j].tree
    BY <2>1, <2>2 DEF Building, Rejected
  <2>4. Top.at - 1 = NumLines
    BY <1>1, <1>2
  <2>5. Linked(line[b], NumLines)
    BY <2>1, <2>3, <2>4 DEF Building, Early
  <2> QED
    BY <1>8, <2>3, <2>5 DEF Whole, BodyFresh
<1>10. \A c \in Body : body'[c].tree => Whole(c, line'[c], body'[c])
  <2> SUFFICES ASSUME NEW c \in Body, body'[c].tree PROVE Whole(c, line'[c], body'[c])
    OBVIOUS
  <2>1. CASE c = b
    BY <1>4, <1>9, <2>1
  <2>2. CASE c # b
    BY <1>4, <1>8, <2>2 DEF BodyInv
  <2> QED
    BY <2>1, <2>2
<1>11. \A c \in Body : ~body'[c].tree /\ Early(c) /\ ~InWork(c)' => Linked(line'[c], 0)
  <2> SUFFICES ASSUME NEW c \in Body, ~body'[c].tree, Early(c) PROVE Linked(line'[c], 0)
    OBVIOUS
  <2>1. c # b
    BY <1>8
  <2> QED
    BY <1>4, <1>8, <2>1 DEF BodyInv, InWork
<1> QED
  BY <1>5, <1>6, <1>7, <1>10, <1>11 DEF BodyInv

\* Steps of the calls that touch no body.
LEMMA BodyStill ==
  ASSUME Shapes, BodyInv, UNCHANGED <<line, body>>, ~Treeifying,
         \A k \in 1 .. Len(stack') - 1 : stack'[k].phase = "line",
         stack' # <<>> => Top'.phase \in {"line", "next"}
  PROVE  BodyInv'
<1>1. ~Treeifying'
  BY DEF Treeifying
<1> QED
  BY <1>1 DEF BodyInv, InWork

LEMMA BodyLines ==
  ASSUME Shapes, BodyInv, RunLine \/ EndLine \/ Return
  PROVE  BodyInv'
<1>1. stack # <<>> /\ Top \in CallRecord /\ stack \in Seq(CallRecord) /\ Len(stack) \in Nat \ {0}
  BY TopType, Untouched DEF RunLine, AtLine, EndLine, Return
<1>2. UNCHANGED <<line, body>> /\ ~Treeifying
  BY DEF RunLine, AtLine, EndLine, Return, Treeifying
<1>3. CASE RunLine
  <2>1. [Top EXCEPT !.phase = "line"] \in CallRecord /\ [Top EXCEPT !.phase = "line"].phase = "line"
    BY <1>1 DEF CallRecord, Phase
  <2>2. SetTop([Top EXCEPT !.phase = "line"])
    BY <1>3 DEF RunLine
  <2>3. /\ \A k \in 1 .. Len(stack') - 1 : stack'[k].phase = "line"
        /\ stack' # <<>> /\ Top' = [Top EXCEPT !.phase = "line"]
    BY <1>1, <2>1, <2>2, SetTopRuns DEF BodyInv
  <2> QED
    BY <1>2, <2>1, <2>3, BodyStill
<1>4. CASE EndLine
  <2> DEFINE r == [Top EXCEPT !.phase = "next", !.rest = Tail(Top.rest)]
  <2>1. Tail(Top.rest) \in Seq([at : Line, parse : Parses])
    BY <1>1, <1>4 DEF CallRecord, EndLine
  <2>2. r \in CallRecord /\ r.phase = "next"
    BY <1>1, <2>1 DEF CallRecord, Phase
  <2>3. SetTop(r)
    BY <1>4 DEF EndLine
  <2> HIDE DEF r
  <2>4. /\ \A k \in 1 .. Len(stack') - 1 : stack'[k].phase = "line"
        /\ stack' # <<>> /\ Top' = r
    BY <1>1, <2>2, <2>3, SetTopRuns DEF BodyInv
  <2> QED
    BY <1>2, <2>2, <2>4, BodyStill
<1>5. CASE Return
  <2>1. PICK n \in 0 .. Len(stack) - 1 : stack' = SubSeq(stack, 1, n)
    BY <1>1, <1>5 DEF Return, Outer
  <2>2. /\ \A k \in 1 .. Len(stack') : stack'[k].phase = "line"
        /\ stack' # <<>> => Top'.phase = "line"
    BY <2>1, CutRuns DEF BodyInv
  <2>3. \A k \in 1 .. Len(stack') - 1 : stack'[k].phase = "line"
    BY <1>1, <2>1, <2>2
  <2> QED
    BY <1>2, <2>2, <2>3, BodyStill
<1> QED
  BY <1>3, <1>4, <1>5

\* A new generation changes no tree.
LEMMA BodyRedefine ==
  ASSUME Shapes, BodyInv, Redefine
  PROVE  BodyInv'
<1>1. stack' = stack /\ ~Treeifying /\ (NewGeneration \/ UNCHANGED <<line, body>>)
  BY DEF Redefine, Define, EraseProcs, EraseAll, SameGeneration, Running, Treeifying
<1>2. Top' = Top /\ ~Treeifying' /\ \A c \in Body : ~InWork(c)
  BY <1>1 DEF Top, Treeifying, InWork
<1>3. CASE UNCHANGED <<line, body>>
  BY <1>1, <1>2, <1>3 DEF BodyInv
<1>4. CASE NewGeneration
  <2>1. ASSUME NEW c \in Body, NEW i \in Line
        PROVE  line'[c][i].tree = line[c][i].tree /\ line'[c][i].next = line[c][i].next
    <3>1. line'[c][i] = [line[c][i] EXCEPT !.fresh = FALSE] /\ line[c][i] \in LineRecord
      BY <1>4, Untouched DEF NewGeneration
    <3> QED
      BY <3>1 DEF LineRecord
  <2>2. ASSUME NEW c \in Body PROVE body'[c].tree = body[c].tree /\ body'[c].fresh = FALSE
    <3>1. body'[c] = [body[c] EXCEPT !.fresh = FALSE] /\ body[c] \in BodyRecord
      BY <1>4, Untouched DEF NewGeneration
    <3> QED
      BY <3>1 DEF BodyRecord
  <2>3. \A c \in Body : \A n : Linked(line[c], n) => Linked(line'[c], n)
    BY <2>1 DEF Linked
  <2>4. \A c \in Body : body'[c].tree => Whole(c, line'[c], body'[c])
    BY <2>1, <2>2, <2>3 DEF BodyInv, Whole
  <2>5. \A c \in Body : ~body'[c].tree /\ Early(c) /\ ~InWork(c)' => Linked(line'[c], 0)
    BY <1>2, <2>2, <2>3 DEF BodyInv
  <2> QED
    BY <1>1, <1>2, <2>4, <2>5 DEF BodyInv
<1> QED
  BY <1>1, <1>3, <1>4

LEMMA BodyInvoke ==
  ASSUME Shapes, BodyInv, NEW b \in Body, Invoke(b) \/ TailInvoke(b)
  PROVE  BodyInv'
<1>1. stack \in Seq(CallRecord) /\ Len(stack) \in Nat /\ ~Treeifying
      /\ (stack # <<>> => Len(stack) # 0 /\ Top.phase = "line")
  BY Untouched DEF Invoke, TailInvoke, Running, Treeifying
<1>2. \A k \in 1 .. Len(stack) : stack[k].phase = "line"
  <2> SUFFICES ASSUME NEW k \in 1 .. Len(stack), k # Len(stack) PROVE stack[k].phase = "line"
    BY <1>1 DEF Top
  <2>1. k \in 1 .. Len(stack) - 1
    BY <1>1
  <2> QED
    BY <2>1 DEF BodyInv
<1>3. CASE Invoke(b)
  BY <1>1, <1>2, <1>3, BodyBegin DEF Invoke
<1>4. CASE TailInvoke(b)
  <2>1. Outer \in Seq(CallRecord) /\ \A k \in 1 .. Len(Outer) : Outer[k].phase = "line"
    BY <1>1, <1>2, <1>4 DEF Outer, TailInvoke
  <2> QED
    BY <1>1, <1>4, <2>1, BodyBegin DEF TailInvoke
<1> QED
  BY <1>3, <1>4

LEMMA BodyNext ==
  ASSUME Shapes, BodyInv, [Next]_vars
  PROVE  BodyInv'
<1>1. CASE UNCHANGED vars
  <2>1. Top' = Top /\ (Treeifying' <=> Treeifying) /\ \A c \in Body : InWork(c)' <=> InWork(c)
    BY <1>1 DEF vars, Top, Treeifying, InWork
  <2> QED
    BY <1>1, <2>1 DEF BodyInv, vars
<1>2. CASE \E b \in Body : Invoke(b) \/ TailInvoke(b)
  BY <1>2, BodyInvoke
<1>3. CASE Treeify
  BY <1>3, BodyTreeifyLine, BodyTreeifyError, BodyTreeifyDone DEF Treeify
<1>4. CASE RepairLine
  BY <1>4, BodyRepairLine
<1>5. CASE RunLine \/ EndLine \/ Return
  BY <1>5, BodyLines
<1>6. CASE Redefine
  BY <1>6, BodyRedefine
<1> QED
  BY <1>1, <1>2, <1>3, <1>4, <1>5, <1>6 DEF Next

LEMMA BodyAlways == Spec => [](Shapes /\ BodyInv)
<1>1. Init => Shapes /\ BodyInv
  BY TypeInit, BodyInit
<1>2. Shapes /\ BodyInv /\ [Next]_vars => Shapes' /\ BodyInv'
  BY TypeNext, BodyNext
<1> QED
  BY <1>1, <1>2, PTL DEF Spec

LEMMA LinesOfABody == Shapes /\ BodyInv => BodyIsItsLines
<1> SUFFICES ASSUME Shapes, BodyInv, NEW b \in Body, body[b].tree
             PROVE  /\ \A i \in Line : line[b][i].tree /\ line[b][i].next = IF i = NumLines THEN 0 ELSE i + 1
                    /\ body[b].fresh => \A i \in Line : line[b][i].fresh
  BY DEF BodyIsItsLines
<1>1. Whole(b, line[b], body[b])
  BY DEF BodyInv
<1>2. \A i \in Line : i < NumLines <=> i # NumLines
  BY LinesAssumption DEF Line
<1> QED
  BY <1>1, <1>2 DEF Whole, Linked

\* A body that counts as parsed has the trees of all its lines, in order, and a
\* current generation only if they have: whatever the parser rejects and
\* whatever is redefined, erased or called recursively (paren.c,
\* make_tree_from_body).
THEOREM ParsedBodiesAreTheirLines == Spec => []BodyIsItsLines
  BY BodyAlways, LinesOfABody, PTL

\* And appending ends, if the parser rejects one of the first two lines of every
\* body in which it rejects any.
THEOREM BodiesStayWhole ==
  ASSUME \A b \in Body : Early(b)
  PROVE  Spec => []BodiesAreWhole
<1>1. Shapes /\ BodyInv => BodiesAreWhole
  <2> SUFFICES ASSUME Shapes, BodyInv, NEW k \in DOMAIN stack PROVE stack[k].phase # "endless"
    BY LinesOfABody DEF BodiesAreWhole, AppendEnds
  <2>1. stack \in Seq(CallRecord) /\ stack[k] \in CallRecord /\ stack # <<>> /\ Len(stack) \in Nat
    BY Untouched
  <2>2. CASE k = Len(stack)
    BY <2>1, <2>2 DEF BodyInv, Top, CallRecord
  <2>3. CASE k # Len(stack)
    <3>1. k \in 1 .. Len(stack) - 1
      BY <2>1, <2>3
    <3> QED
      BY <3>1 DEF BodyInv
  <2> QED
    BY <2>2, <2>3
<1> QED
  BY <1>1, BodyAlways, PTL

-----------------------------------------------------------------------------
(* The line that is begun.  A call that has not been disowned walks the trees  *)
(* its body has, so the comparison of generations, which looks at the line     *)
(* list, speaks of the tree that is run.                                       *)

Walks(c) == c.own /\ c.phase \in {"next", "line"}

\* The trees unev points to are the trees of the body's lines.
Keeps(c, lines) ==
    \A j \in DOMAIN c.rest : c.rest[j].parse = lines[c.body][c.rest[j].at].parse

\* A body that loses its tree is disowned by the calls that walk it, and while it has
\* none, as when it is being treeified, nobody walks it.
Tidy(stk, lines, bodies) ==
    \A k \in DOMAIN stk : Walks(stk[k]) => bodies[stk[k].body].tree /\ Keeps(stk[k], lines)

LineInv ==
    /\ Tidy(stack, line, body)
    /\ Treeifying => \A j \in Line : j < Top.at => Right(line[Top.body][j].parse)
    /\ stack # <<>> /\ Top.phase = "repair" => Top.skip < NumLines

LEMMA TidyAppend ==
  ASSUME NEW s \in Seq(CallRecord), NEW lines, NEW bodies, Tidy(s, lines, bodies), NEW r \in CallRecord,
         Walks(r) => bodies[r.body].tree /\ Keeps(r, lines)
  PROVE  Tidy(Append(s, r), lines, bodies)
<1> DEFINE t == Append(s, r)
<1>1. Len(s) \in Nat /\ DOMAIN s = 1 .. Len(s) /\ DOMAIN t = 1 .. Len(s) + 1
      /\ t[Len(s) + 1] = r /\ \A k \in DOMAIN s : t[k] = s[k]
  OBVIOUS
<1> HIDE DEF t
<1>2. \A k \in DOMAIN t : k \in DOMAIN s \/ k = Len(s) + 1
  BY <1>1
<1>3. \A k \in DOMAIN t : Walks(t[k]) => bodies[t[k].body].tree /\ Keeps(t[k], lines)
  BY <1>1, <1>2 DEF Tidy
<1> QED
  BY <1>3 DEF Tidy, t

LEMMA TidySetTop ==
  ASSUME Shapes, stack # <<>>, NEW lines, NEW bodies, Tidy(stack, lines, bodies), NEW r \in CallRecord,
         Walks(r) => bodies[r.body].tree /\ Keeps(r, lines), SetTop(r)
  PROVE  Tidy(stack', lines, bodies)
<1>1. stack \in Seq(CallRecord) /\ Len(stack) \in Nat \ {0}
  BY Untouched
<1>2. DOMAIN stack' = DOMAIN stack /\ stack'[Len(stack)] = r
      /\ \A k \in DOMAIN stack \ {Len(stack)} : stack'[k] = stack[k]
  BY <1>1 DEF SetTop
<1>3. \A k \in DOMAIN stack : Walks(stack'[k]) => bodies[stack'[k].body].tree /\ Keeps(stack'[k], lines)
  BY <1>2 DEF Tidy
<1> QED
  BY <1>2, <1>3 DEF Tidy

LEMMA TidyCut ==
  ASSUME Shapes, NEW lines, NEW bodies, Tidy(stack, lines, bodies), NEW n \in 0 .. Len(stack)
  PROVE  Tidy(SubSeq(stack, 1, n), lines, bodies)
<1>1. stack \in Seq(CallRecord) /\ Len(stack) \in Nat /\ DOMAIN stack = 1 .. Len(stack)
  BY Untouched
<1>2. DOMAIN SubSeq(stack, 1, n) = 1 .. n /\ \A k \in 1 .. n : SubSeq(stack, 1, n)[k] = stack[k]
  BY <1>1
<1>3. \A k \in 1 .. n : k \in DOMAIN stack
  BY <1>1
<1> QED
  BY <1>2, <1>3 DEF Tidy

\* A body nobody walks may change.
LEMMA TidyLines ==
  ASSUME NEW stk, NEW b, Tidy(stk, line, body),
         \A c \in Body \ {b} : line'[c] = line[c] /\ body'[c] = body[c],
         \A k \in DOMAIN stk : stk[k].body \in Body /\ (stk[k].body = b => ~Walks(stk[k]))
  PROVE  Tidy(stk, line', body')
<1>1. ASSUME NEW k \in DOMAIN stk, Walks(stk[k])
      PROVE  body'[stk[k].body].tree /\ Keeps(stk[k], line')
  <2>1. stk[k].body \in Body \ {b}
    BY <1>1
  <2> QED
    BY <1>1, <2>1 DEF Tidy, Keeps
<1> QED
  BY <1>1 DEF Tidy

LEMMA DisownTidy ==
  ASSUME NEW s \in Seq(CallRecord), NEW b, Tidy(s, line, body)
  PROVE  /\ Tidy(Disown(s, b), line, body)
         /\ \A k \in DOMAIN Disown(s, b) : /\ Disown(s, b)[k].body \in Body
                                           /\ Disown(s, b)[k].body = b => ~Walks(Disown(s, b)[k])
<1> DEFINE d == Disown(s, b)
<1>1. DOMAIN d = DOMAIN s
  BY DEF Disown
<1>2. ASSUME NEW k \in DOMAIN s
      PROVE  /\ d[k].body = s[k].body /\ d[k].body \in Body
             /\ d[k].body = b => ~Walks(d[k])
             /\ d[k].body # b => d[k] = s[k]
  <2>1. s[k] \in CallRecord
    OBVIOUS
  <2>2. CASE s[k].body = b
    <3>1. d[k] = [s[k] EXCEPT !.own = FALSE]
      BY <2>2 DEF Disown
    <3>2. d[k].body = s[k].body /\ d[k].own = FALSE
      BY <2>1, <3>1 DEF CallRecord
    <3> QED
      BY <2>1, <2>2, <3>2 DEF Walks, CallRecord
  <2>3. CASE s[k].body # b
    <3>1. d[k] = s[k]
      BY <2>3 DEF Disown
    <3> QED
      BY <2>1, <2>3, <3>1 DEF CallRecord
  <2> QED
    BY <2>2, <2>3
<1> HIDE DEF d
<1>3. \A k \in DOMAIN d : Walks(d[k]) => d[k] = s[k]
  BY <1>1, <1>2
<1>4. Tidy(d, line, body)
  BY <1>1, <1>3 DEF Tidy
<1> QED
  BY <1>1, <1>2, <1>4 DEF d

LEMMA KeepsTrees ==
  ASSUME NEW i \in 1 .. NumLines + 1, NEW lines, NEW c, NEW b,
         c.body = b, c.rest = Trees(lines[b], i)
  PROVE  Keeps(c, lines)
<1>1. NumLines - i + 1 \in Nat /\ NumLines \in Nat
  BY LinesAssumption
<1>2. DOMAIN Trees(lines[b], i) = 1 .. NumLines - i + 1
  BY DEF Trees
<1>3. ASSUME NEW j \in 1 .. NumLines - i + 1
      PROVE  Trees(lines[b], i)[j] = [at |-> i + j - 1, parse |-> lines[b][i + j - 1].parse]
  BY DEF Trees
<1>4. ASSUME NEW j \in 1 .. NumLines - i + 1
      PROVE  c.rest[j].at = i + j - 1 /\ c.rest[j].parse = lines[b][i + j - 1].parse
  <2>1. c.rest[j] = [at |-> i + j - 1, parse |-> lines[b][i + j - 1].parse]
    BY <1>3
  <2> QED
    BY <2>1
<1> QED
  BY <1>2, <1>4 DEF Keeps

LEMMA LineInit == Init => LineInv
<1> SUFFICES ASSUME Init PROVE LineInv
  OBVIOUS
<1>1. stack = <<>> /\ DOMAIN stack = {}
  BY DEF Init
<1> QED
  BY <1>1 DEF LineInv, Tidy, Treeifying

LEMMA LineBegin ==
  ASSUME Shapes, LineInv, NEW b \in Body, NEW s \in Seq(CallRecord), Begin(b, s), Tidy(s, line, body)
  PROVE  LineInv'
<1>1. line \in [Body -> [Line -> LineRecord]] /\ body \in [Body -> BodyRecord] /\ NewCall(b) \in CallRecord
  BY Untouched, NewCallType
<1>3. CASE Usable(body[b])
  <2> DEFINE r == [NewCall(b) EXCEPT !.phase = "next", !.rest = Trees(line[b], 1)]
  <2>1. Trees(line[b], 1) \in Seq([at : Line, parse : Parses]) /\ 1 \in 1 .. NumLines + 1
    <3>1. line[b] \in [Line -> LineRecord] /\ 1 \in 1 .. NumLines + 1
      BY <1>1, LinesAssumption
    <3> QED
      BY <3>1, TreesType
  <2>2. r \in CallRecord
    BY <1>1, <2>1 DEF CallRecord, Phase
  <2>3. r.body = b /\ r.phase = "next" /\ r.own /\ r.rest = Trees(line[b], 1)
    BY <1>1 DEF NewCall
  <2>4. stack' = Append(s, r) /\ line' = line /\ body' = body
    BY <1>3 DEF Begin
  <2> HIDE DEF r
  <2>5. Keeps(r, line) /\ body[b].tree
    BY <1>3, <2>1, <2>3, KeepsTrees DEF Usable
  <2>6. Tidy(stack', line', body')
    BY <2>2, <2>3, <2>4, <2>5, TidyAppend
  <2>7. Top' = r
    BY <2>2, <2>4 DEF Top
  <2> QED
    BY <2>3, <2>6, <2>7 DEF LineInv, Treeifying
<1>4. CASE ~Usable(body[b])
  <2> DEFINE t == IF body[b].tree THEN Disown(s, b) ELSE s
  <2>1. Untreeify(b) /\ stack' = Append(t, NewCall(b))
    BY <1>4 DEF Begin
  <2>2. \A c \in Body \ {b} : line'[c] = line[c] /\ body'[c] = body[c]
    BY <1>1, <2>1 DEF Untreeify
  <2>3. /\ t \in Seq(CallRecord) /\ Tidy(t, line, body)
        /\ \A k \in DOMAIN t : t[k].body \in Body /\ (t[k].body = b => ~Walks(t[k]))
    <3>1. CASE body[b].tree
      BY <3>1, DisownTidy, DisownType
    <3>2. CASE ~body[b].tree
      <4>1. \A k \in DOMAIN s : s[k] \in CallRecord
        OBVIOUS
      <4> QED
        BY <3>2, <4>1 DEF Tidy, CallRecord
    <3> QED
      BY <3>1, <3>2
  <2> HIDE DEF t
  <2>4. Tidy(t, line', body')
    BY <2>2, <2>3, TidyLines
  <2>5. NewCall(b).phase = "treeify" /\ NewCall(b).at = 1
    BY DEF NewCall
  <2>6. Tidy(stack', line', body')
    BY <1>1, <2>1, <2>3, <2>4, <2>5, TidyAppend DEF Walks
  <2>7. Top' = NewCall(b)
    BY <1>1, <2>1, <2>3 DEF Top
  <2>8. \A j \in Line : ~(j < 1)
    BY LinesAssumption DEF Line
  <2> QED
    BY <2>5, <2>6, <2>7, <2>8 DEF LineInv, Treeifying
<1> QED
  BY <1>3, <1>4

LEMMA LineInvoke ==
  ASSUME Shapes, LineInv, NEW b \in Body, Invoke(b) \/ TailInvoke(b)
  PROVE  LineInv'
<1>1. stack \in Seq(CallRecord) /\ Len(stack) \in Nat
  BY Untouched
<1>2. CASE Invoke(b)
  BY <1>1, <1>2, LineBegin DEF Invoke, LineInv
<1>3. CASE TailInvoke(b)
  <2>1. Len(stack) - 1 \in 0 .. Len(stack)
    BY <1>1, <1>3 DEF TailInvoke
  <2>2. Outer \in Seq(CallRecord)
    BY <2>1, CutType DEF Outer
  <2>3. Tidy(Outer, line, body)
    BY <2>1, TidyCut DEF Outer, LineInv
  <2> QED
    BY <1>1, <1>3, <2>2, <2>3, LineBegin DEF TailInvoke
<1> QED
  BY <1>2, <1>3

LEMMA LineRepairLine ==
  ASSUME Shapes, LineInv, RepairLine
  PROVE  LineInv'
<1> DEFINE b == Top.body
           r == RepairCall
           d == Disown(Outer, b)
<1>1. AtLine /\ stack # <<>> /\ stack \in Seq(CallRecord) /\ Len(stack) \in Nat \ {0}
  BY TopType, Untouched DEF RepairLine, AtLine
<1>2. r \in CallRecord /\ b \in Body /\ Head(Top.rest).at \in Line
  BY <1>1, RepairCallType
<1>3. r.phase = "repair" /\ r.at = 1 /\ r.skip = Head(Top.rest).at - 1
  BY DEF NewCall, RepairCall
<1>4. Len(stack) - 1 \in 0 .. Len(stack)
  BY <1>1
<1>5. Outer \in Seq(CallRecord)
  BY <1>4, CutType DEF Outer
<1>6. Tidy(Outer, line, body)
  BY <1>4, TidyCut DEF Outer, LineInv
<1>7. d \in Seq(CallRecord)
  BY <1>5, DisownType
<1>8. /\ Tidy(d, line, body)
      /\ \A k \in DOMAIN d : d[k].body \in Body /\ (d[k].body = b => ~Walks(d[k]))
  BY <1>5, <1>6, DisownTidy
<1>9. stack' = Append(d, r)
  BY DEF RepairLine, RepairCall
<1> HIDE DEF r, d
<1>10. \A c \in Body \ {b} : line'[c] = line[c] /\ body'[c] = body[c]
  BY Untouched DEF RepairLine
<1> HIDE DEF b
<1>11. Tidy(d, line', body')
  BY <1>8, <1>10, TidyLines
<1>12. Tidy(stack', line', body')
  BY <1>2, <1>3, <1>7, <1>9, <1>11, TidyAppend DEF Walks
<1>13. Top' = r
  BY <1>2, <1>7, <1>9 DEF Top
<1>14. Top'.skip < NumLines
  BY <1>2, <1>3, <1>13, LinesAssumption DEF Line
<1>15. \A j \in Line : ~(j < 1)
  BY LinesAssumption DEF Line
<1> QED
  BY <1>3, <1>12, <1>13, <1>14, <1>15 DEF LineInv, Treeifying

\* A tree that make_tree makes is right for the procedures of now.
LEMMA MakeTreeRight ==
  ASSUME Shapes, FreshInv, NEW b \in Body, NEW i \in Line
  PROVE  Right(MakeTree(b, i).parse)
<1>1. CASE Usable(line[b][i])
  <2>1. MakeTree(b, i) = line[b][i] /\ ParsedNow(line[b][i])
    BY <1>1 DEF MakeTree, FreshInv, Usable
  <2> QED
    BY <2>1 DEF ParsedNow, Right, Inputs
<1>2. CASE ~Usable(line[b][i])
  <2>1. MakeTree(b, i).parse = [p \in Calls[b][i] |-> Inputs(p)]
    BY <1>2 DEF MakeTree
  <2> QED
    BY <2>1 DEF Right, Inputs
<1> QED
  BY <1>1, <1>2

LEMMA LineTreeifyLine ==
  ASSUME Shapes, BodyInv, FreshInv, LineInv, TreeifyLine
  PROVE  LineInv'
<1> DEFINE b == Top.body
           i == Top.at
           made == [line[b] EXCEPT ![i] = MakeTree(b, i)]
           linked == IF Top.end = 0 THEN made ELSE [made EXCEPT ![Top.end].next = i]
           r == IF Ends(linked, i) = {} THEN [Top EXCEPT !.phase = "endless"]
                ELSE [Top EXCEPT !.at = i + 1, !.end = LastOf(linked, i)]
<1>1. stack # <<>> /\ Top \in CallRecord /\ Treeifying /\ stack \in Seq(CallRecord)
      /\ Len(stack) \in Nat \ {0}
  BY TopType, Untouched DEF TreeifyLine, Treeifying
<1>2. b \in Body /\ i \in Line /\ Top.end \in 0 .. NumLines
  BY <1>1, LinesAssumption DEF CallRecord, TreeifyLine, Line
<1>3. line \in [Body -> [Line -> LineRecord]]
  BY Untouched
<1>4. MakeTree(b, i) \in LineRecord
  BY <1>2, MakeTreeType
<1>5. made \in [Line -> LineRecord] /\ made[i] = MakeTree(b, i)
      /\ \A j \in Line \ {i} : made[j] = line[b][j]
  BY <1>2, <1>3, <1>4
<1>6. line' = [line EXCEPT ![b] = linked] /\ body' = body /\ SetTop(r) /\ arity' = arity /\ silent' = silent
  BY DEF TreeifyLine
<1>7. ASSUME NEW j \in Line PROVE linked[j].parse = made[j].parse
  <2>1. made[j] \in LineRecord
    BY <1>5
  <2>2. linked[j] = made[j] \/ linked[j] = [made[j] EXCEPT !.next = i]
    <3> HIDE DEF made
    <3> QED
      BY <1>5
  <2> HIDE DEF made, linked
  <2> QED
    BY <2>1, <2>2 DEF LineRecord
<1> HIDE DEF made, linked
<1>8. r \in CallRecord /\ r.body = b /\ r.skip = Top.skip
      /\ (r.phase # "endless" => r.phase = Top.phase /\ r.at = i + 1)
  <2>1. CASE Ends(linked, i) = {}
    BY <1>1, <2>1 DEF CallRecord, Phase
  <2>2. CASE Ends(linked, i) # {}
    <3>1. LastOf(linked, i) \in Ends(linked, i)
      BY <2>2 DEF LastOf
    <3>2. LastOf(linked, i) \in 0 .. NumLines
      BY <3>1, LinesAssumption DEF Ends, Line
    <3>3. i + 1 \in 1 .. NumLines + 1
      BY <1>2, LinesAssumption DEF Line
    <3>5. r = [Top EXCEPT !.at = i + 1, !.end = LastOf(linked, i)]
      BY <2>2
    <3> DEFINE u == i + 1
               v == LastOf(linked, i)
    <3>6. u \in 1 .. NumLines + 1 /\ v \in 0 .. NumLines /\ r = [Top EXCEPT !.at = u, !.end = v]
      BY <3>2, <3>3, <3>5
    <3> HIDE DEF r, u, v
    <3>7. r \in CallRecord
      BY <1>1, <3>6 DEF CallRecord
    <3>8. r.body = Top.body /\ r.skip = Top.skip /\ r.phase = Top.phase /\ r.at = u
      BY <1>1, <3>6 DEF CallRecord
    <3> QED
      BY <3>7, <3>8 DEF u
  <2> QED
    BY <2>1, <2>2
<1> HIDE DEF r
<1>9. line'[b] = linked /\ \A c \in Body \ {b} : line'[c] = line[c] /\ body'[c] = body[c]
  BY <1>2, <1>3, <1>6
<1>10. \A j \in Line : j < i => Right(line[b][j].parse)
  BY <1>1 DEF LineInv
<1>11. ASSUME NEW k \in DOMAIN stack
       PROVE  stack[k].body \in Body /\ (stack[k].body = b => ~Walks(stack[k]))
  <2>1. stack[k] \in CallRecord
    BY <1>1
  <2>2. ~body[b].tree
    BY <1>1 DEF BodyInv, Building
  <2> QED
    BY <2>1, <2>2 DEF LineInv, Tidy, CallRecord
<1>12. Tidy(stack, line', body')
  <2> HIDE DEF b
  <2> QED
    BY <1>9, <1>11, TidyLines DEF LineInv
<1>13. Tidy(stack', line', body')
  <2>1. ~Walks(r)
    BY <1>1, <1>8 DEF Walks, Treeifying
  <2> QED
    BY <1>1, <1>6, <1>8, <1>12, <2>1, TidySetTop
<1>14. Top' = r /\ stack' # <<>>
  BY <1>1, <1>6, <1>8 DEF SetTop, Top
<1>15. ASSUME Treeifying' PROVE \A j \in Line : j < Top'.at => Right(line'[b][j].parse)
  <2>1. r.at = i + 1
    BY <1>8, <1>14, <1>15 DEF Treeifying
  <2>2. ASSUME NEW j \in Line, j < i + 1 PROVE Right(linked[j].parse)
    <3>1. CASE j = i
      BY <1>2, <1>5, <1>7, <3>1, MakeTreeRight
    <3>2. CASE j # i
      <4>1. j < i
        BY <1>2, <2>2, <3>2, LinesAssumption DEF Line
      <4> QED
        BY <1>5, <1>7, <1>10, <3>2, <4>1
    <3> QED
      BY <3>1, <3>2
  <2> QED
    BY <1>9, <1>14, <2>1, <2>2
<1>16. ASSUME Treeifying' PROVE \A j \in Line : j < Top'.at => Right(line[Top.body][j].parse)'
  <2>1. Top'.body = b
    BY <1>8, <1>14
  <2> QED
    BY <1>6, <1>15, <1>16, <2>1 DEF Right
<1>17. stack' # <<>> /\ Top'.phase = "repair" => Top'.skip < NumLines
  BY <1>1, <1>8, <1>14 DEF LineInv
<1> QED
  BY <1>13, <1>16, <1>17 DEF LineInv

\* The error ends calls, the ones that remain keep what they have.
LEMMA LineCut ==
  ASSUME Shapes, LineInv, NEW n \in 0 .. Len(stack), stack' = SubSeq(stack, 1, n),
         line' = line, body' = body, ~Treeifying', stack' # <<>> => Top'.phase # "repair"
  PROVE  LineInv'
  BY TidyCut DEF LineInv

\* The body is parsed: the trees are right, and the one a repaired call goes on
\* with is there.
LEMMA LineTreeifyDone ==
  ASSUME Shapes, LineInv, TreeifyDone
  PROVE  /\ LineInv'
         /\ Begins => TopIsRight'
<1> DEFINE b == Top.body
           i == Top.skip + 1
           r == DoneCall
<1>1. stack # <<>> /\ Top \in CallRecord /\ Treeifying /\ Top.at = NumLines + 1
  BY TopType DEF TreeifyDone, Treeifying
<1>2. r \in CallRecord /\ b \in Body /\ i \in 1 .. NumLines + 1 /\ NumLines \in Nat \ {0}
  BY <1>1, DoneCallType, LinesAssumption DEF CallRecord
<1>3. SetTop(r) /\ line' = line /\ arity' = arity /\ silent' = silent
  BY DEF TreeifyDone, DoneCall
<1>4. r.phase = (IF Top.phase = "repair" THEN "line" ELSE "next") /\ r.own /\ r.body = b
      /\ r.rest = Trees(line[b], i)
  BY DEF NewCall, DoneCall
<1> HIDE DEF r
<1>5. Keeps(r, line)
  BY <1>2, <1>4, KeepsTrees
<1>6. body'[b].tree /\ \A c \in Body : body[c].tree => body'[c].tree
  <2>1. body \in [Body -> BodyRecord]
    BY Untouched
  <2> QED
    BY <1>2, <2>1 DEF TreeifyDone
<1>7. Tidy(stack, line, body')
  <2>1. ASSUME NEW k \in DOMAIN stack PROVE stack[k].body \in Body
    <3>1. stack[k] \in CallRecord
      BY Untouched
    <3> QED
      BY <3>1 DEF CallRecord
  <2>2. ASSUME NEW k \in DOMAIN stack, Walks(stack[k])
        PROVE  body'[stack[k].body].tree /\ Keeps(stack[k], line)
    <3>1. body[stack[k].body].tree /\ Keeps(stack[k], line)
      BY <2>2 DEF LineInv, Tidy
    <3> QED
      BY <1>6, <2>1, <3>1
  <2> QED
    BY <2>2 DEF Tidy
<1>8. Tidy(stack', line, body')
  BY <1>1, <1>2, <1>3, <1>4, <1>5, <1>6, <1>7, TidySetTop
<1>9. Top' = r /\ stack' # <<>>
  BY <1>1, <1>2, <1>3, Untouched DEF SetTop, Top
<1>10. LineInv'
  BY <1>3, <1>4, <1>8, <1>9 DEF LineInv, Treeifying
<1>11. ASSUME Begins PROVE TopIsRight'
  <2>1. Top.phase = "repair"
    BY <1>4, <1>9, <1>11 DEF Begins
  <2>2. i \in Line
    <3>1. Top.skip \in 0 .. NumLines /\ Top.skip < NumLines
      BY <1>1, <2>1 DEF LineInv, CallRecord
    <3> QED
      BY <1>2, <3>1 DEF Line
  <2>3. Right(line[b][i].parse)
    <3>1. i < Top.at
      BY <1>1, <1>2, <2>2 DEF Line
    <3> QED
      BY <1>1, <2>2, <3>1 DEF LineInv
  <2>4. Head(Trees(line[b], i)) = [at |-> i, parse |-> line[b][i].parse]
    <3> DEFINE t == Trees(line[b], i)
    <3>1. line[b] \in [Line -> LineRecord]
      BY <1>2, Untouched
    <3>2. t \in Seq([at : Line, parse : Parses])
      BY <1>2, <3>1, TreesType
    <3>3. 1 \in 1 .. NumLines - i + 1 /\ i + 1 - 1 = i
      BY <1>2, <2>2 DEF Line
    <3>4. t[1] = [at |-> i, parse |-> line[b][i].parse] /\ t # <<>>
      BY <3>3 DEF Trees
    <3> HIDE DEF t
    <3> QED
      BY <3>2, <3>4 DEF t
  <2> QED
    BY <1>3, <1>4, <1>9, <2>3, <2>4 DEF TopIsRight, Right
<1> QED
  BY <1>10, <1>11

\* A call at its next line walks the line's tree, or is disowned.
LEMMA TopRest ==
  ASSUME Shapes, LineInv, AtLine
  PROVE  /\ Top.own => Head(Top.rest).parse = ListOf(Top).parse
         /\ Top.body \in Body /\ Head(Top.rest).at \in Line
<1>1. stack \in Seq(CallRecord) /\ Len(stack) \in DOMAIN stack /\ Top \in CallRecord
  BY TopType, Untouched DEF AtLine
<1>2. Top.own => Keeps(Top, line)
  BY <1>1 DEF LineInv, Tidy, Top, Walks, AtLine
<1>3. Top.rest \in Seq([at : Line, parse : Parses]) /\ Top.rest # <<>>
  BY <1>1 DEF CallRecord, AtLine
<1>4. 1 \in DOMAIN Top.rest /\ Head(Top.rest) = Top.rest[1]
  BY <1>3
<1> QED
  BY <1>1, <1>2, <1>4, RepairCallType DEF Keeps, ListOf

\* The call goes on to or with its lines: it walks the same trees as before.
LEMMA LineStep ==
  ASSUME Shapes, LineInv, stack # <<>>, Top.phase \in {"next", "line"}, NEW r \in CallRecord, SetTop(r),
         r.phase \in {"next", "line"}, r.own = Top.own, r.body = Top.body,
         Keeps(Top, line) => Keeps(r, line), UNCHANGED <<line, body>>
  PROVE  LineInv' /\ Top' = r
<1>1. Len(stack) \in DOMAIN stack
  BY Untouched
<1>2. Walks(Top) => body[Top.body].tree /\ Keeps(Top, line)
  BY <1>1 DEF LineInv, Tidy, Top
<1>3. Walks(r) => body[r.body].tree /\ Keeps(r, line)
  BY <1>2 DEF Walks
<1>4. Tidy(stack', line, body)
  BY <1>3, TidySetTop DEF LineInv
<1>5. Top' = r
  BY Untouched DEF SetTop, Top
<1>6. r.phase # "treeify" /\ r.phase # "repair"
  OBVIOUS
<1> QED
  BY <1>4, <1>5, <1>6 DEF LineInv, Treeifying

LEMMA LineRunLine ==
  ASSUME Shapes, FreshInv, LineInv, RunLine
  PROVE  LineInv' /\ TopIsRight'
<1> DEFINE r == [Top EXCEPT !.phase = "line"]
<1>1. /\ AtLine /\ stack # <<>> /\ Top \in CallRecord /\ Top.phase = "next" /\ SetTop(r)
      /\ UNCHANGED <<arity, line, body, silent>>
  BY TopType DEF RunLine, AtLine
<1>2. r \in CallRecord /\ r.phase = "line" /\ r.own = Top.own /\ r.body = Top.body /\ r.rest = Top.rest
  BY <1>1 DEF CallRecord, Phase
<1>3. (Top.own => Head(Top.rest).parse = ListOf(Top).parse) /\ Top.body \in Body /\ Head(Top.rest).at \in Line
  BY <1>1, TopRest
<1> HIDE DEF r
<1>4. Keeps(Top, line) => Keeps(r, line)
  BY <1>2 DEF Keeps
<1>5. LineInv' /\ Top' = r
  BY <1>1, <1>2, <1>4, LineStep
<1>6. ASSUME Top.own PROVE Right(Head(Top.rest).parse)
  <2>1. ListOf(Top).fresh
    BY <1>6 DEF RunLine
  <2>2. ParsedNow(ListOf(Top))
    BY <1>3, <2>1 DEF FreshInv, ListOf
  <2> QED
    BY <1>3, <1>6, <2>2 DEF ParsedNow, Right, Inputs
<1>7. TopIsRight'
  BY <1>1, <1>2, <1>5, <1>6 DEF TopIsRight, Right
<1> QED
  BY <1>5, <1>7

LEMMA LineEndLine ==
  ASSUME Shapes, LineInv, EndLine
  PROVE  LineInv'
<1> DEFINE r == [Top EXCEPT !.phase = "next", !.rest = Tail(Top.rest)]
<1>1. stack # <<>> /\ Top \in CallRecord /\ Top.phase = "line" /\ SetTop(r) /\ line' = line /\ body' = body
  BY TopType DEF EndLine
<1>2. Top.rest \in Seq([at : Line, parse : Parses]) /\ Top.rest # <<>>
  BY <1>1 DEF CallRecord, EndLine
<1>3. Tail(Top.rest) \in Seq([at : Line, parse : Parses])
      /\ \A j \in DOMAIN Tail(Top.rest) : j + 1 \in DOMAIN Top.rest /\ Tail(Top.rest)[j] = Top.rest[j + 1]
  BY <1>2
<1>4. r \in CallRecord /\ r.phase = "next" /\ r.own = Top.own /\ r.body = Top.body /\ r.rest = Tail(Top.rest)
  BY <1>1, <1>3 DEF CallRecord, Phase
<1> HIDE DEF r
<1>5. Keeps(Top, line) => Keeps(r, line)
  BY <1>3, <1>4 DEF Keeps
<1> QED
  BY <1>1, <1>4, <1>5, LineStep

\* STOP, OUTPUT, THROW and the end of a body; and errors of the parser.
LEMMA LineEnds ==
  ASSUME Shapes, BodyInv, LineInv, TreeifyError \/ Return
  PROVE  LineInv'
<1>1. stack \in Seq(CallRecord) /\ Len(stack) \in Nat \ {0} /\ line' = line /\ body' = body
  BY Untouched DEF TreeifyError, Treeifying, Return
<1>2. PICK n \in 0 .. Len(stack) - 1 : stack' = SubSeq(stack, 1, n)
  BY <1>1 DEF TreeifyError, Return, Outer
<1>3. stack' # <<>> => Top'.phase = "line"
  BY <1>2, CutRuns DEF BodyInv
<1>4. ~Treeifying' /\ (stack' # <<>> => Top'.phase # "repair")
  BY <1>3 DEF Treeifying
<1>5. n \in 0 .. Len(stack)
  BY <1>1
<1> QED
  BY <1>1, <1>2, <1>4, <1>5, LineCut

\* A redefinition changes no parse.
LEMMA LineRedefine ==
  ASSUME Shapes, LineInv, Redefine
  PROVE  LineInv'
<1>1. stack' = stack /\ ~Treeifying /\ (NewGeneration \/ UNCHANGED <<line, body>>)
  BY DEF Redefine, Define, EraseProcs, EraseAll, SameGeneration, Running, Treeifying
<1>2. Top' = Top /\ ~Treeifying'
  BY <1>1 DEF Top, Treeifying
<1>3. ASSUME NEW c \in Body, NEW i \in Line PROVE line'[c][i].parse = line[c][i].parse
  <2>1. CASE UNCHANGED <<line, body>>
    BY <2>1
  <2>2. CASE NewGeneration
    <3>1. line'[c][i] = [line[c][i] EXCEPT !.fresh = FALSE] /\ line[c][i] \in LineRecord
      BY <2>2, Untouched DEF NewGeneration
    <3> QED
      BY <3>1 DEF LineRecord
  <2> QED
    BY <1>1, <2>1, <2>2
<1>4. ASSUME NEW c \in Body PROVE body'[c].tree = body[c].tree
  <2>1. CASE UNCHANGED <<line, body>>
    BY <2>1
  <2>2. CASE NewGeneration
    <3>1. body'[c] = [body[c] EXCEPT !.fresh = FALSE] /\ body[c] \in BodyRecord
      BY <2>2, Untouched DEF NewGeneration
    <3> QED
      BY <3>1 DEF BodyRecord
  <2> QED
    BY <1>1, <2>1, <2>2
<1>5. ASSUME NEW k \in DOMAIN stack, Walks(stack[k])
      PROVE  body'[stack[k].body].tree /\ Keeps(stack[k], line')
  <2>1. stack[k] \in CallRecord
    BY Untouched
  <2>2. stack[k].body \in Body /\ stack[k].rest \in Seq([at : Line, parse : Parses])
    BY <2>1 DEF CallRecord
  <2>3. ASSUME NEW j \in DOMAIN stack[k].rest PROVE stack[k].rest[j].at \in Line
    <3>1. stack[k].rest[j] \in [at : Line, parse : Parses]
      BY <2>2, ElementType
    <3> QED
      BY <3>1
  <2> QED
    BY <1>3, <1>4, <1>5, <2>2, <2>3 DEF LineInv, Tidy, Keeps
<1>6. Tidy(stack', line', body')
  BY <1>1, <1>5 DEF Tidy
<1> QED
  BY <1>1, <1>2, <1>6 DEF LineInv

LEMMA LineNext ==
  ASSUME Shapes, BodyInv, FreshInv, LineInv, [Next]_vars
  PROVE  LineInv'
<1>1. CASE UNCHANGED vars
  <2>1. Top' = Top /\ (Treeifying' <=> Treeifying)
    BY <1>1 DEF vars, Top, Treeifying
  <2> QED
    BY <1>1, <2>1 DEF LineInv, Tidy, Keeps, Right, vars
<1>2. CASE \E b \in Body : Invoke(b) \/ TailInvoke(b)
  BY <1>2, LineInvoke
<1>3. CASE TreeifyLine \/ TreeifyDone
  BY <1>3, LineTreeifyLine, LineTreeifyDone
<1>4. CASE RepairLine \/ RunLine \/ EndLine
  BY <1>4, LineRepairLine, LineRunLine, LineEndLine
<1>5. CASE TreeifyError \/ Return
  BY <1>5, LineEnds
<1>6. CASE Redefine
  BY <1>6, LineRedefine
<1> QED
  BY <1>1, <1>2, <1>3, <1>4, <1>5, <1>6 DEF Next, Treeify

\* Only RunLine and the end of a repair begin a line.
LEMMA LineBegins ==
  ASSUME Shapes, FreshInv, LineInv, [Next]_vars, Begins
  PROVE  TopIsRight'
<1>1. stack \in Seq(CallRecord) /\ Len(stack) \in Nat \ {0} /\ Len(stack') = Len(stack)
      /\ Top.phase # "line" /\ Top'.phase = "line"
  BY Untouched DEF Begins
<1>2. CASE RunLine
  BY <1>2, LineRunLine
<1>3. CASE TreeifyDone
  BY <1>3, LineTreeifyDone
<1>4. CASE TreeifyLine
  <2> DEFINE r == IF Ends(line'[Top.body], Top.at) = {} THEN [Top EXCEPT !.phase = "endless"]
                  ELSE [Top EXCEPT !.at = Top.at + 1, !.end = LastOf(line'[Top.body], Top.at)]
  <2>1. Top \in CallRecord /\ Top.body \in Body
    BY <1>1, TopType DEF CallRecord
  <2>2. SetTop(r)
    BY <1>4, <2>1, Untouched DEF TreeifyLine
  <2>3. r.phase # "line"
    BY <1>1, <2>1 DEF CallRecord
  <2> HIDE DEF r
  <2>4. Top' = r
    BY <1>1, <2>2 DEF SetTop, Top
  <2> QED
    BY <1>1, <2>3, <2>4
<1>5. CASE EndLine
  BY <1>1, <1>5 DEF EndLine
<1>6. CASE Return \/ TreeifyError
  <2>1. PICK n \in 0 .. Len(stack) - 1 : stack' = SubSeq(stack, 1, n)
    BY <1>1, <1>6 DEF TreeifyError, Return, Outer
  <2>2. Len(stack') = n
    BY <1>1, <2>1
  <2> QED
    BY <1>1, <2>2
<1>7. CASE RepairLine
  <2>1. RepairCall \in CallRecord /\ RepairCall.phase = "repair"
    BY <1>7, RepairCallType DEF RepairLine, RepairCall, NewCall
  <2>2. Disown(Outer, Top.body) \in Seq(CallRecord)
    <3>1. Outer \in Seq(CallRecord)
      <4>1. Len(stack) - 1 \in 0 .. Len(stack)
        BY <1>1
      <4> QED
        BY <4>1, CutType DEF Outer
    <3> QED
      BY <3>1, DisownType
  <2>3. Top' = RepairCall
    BY <1>7, <2>1, <2>2 DEF RepairLine, RepairCall, Top
  <2> QED
    BY <1>1, <2>1, <2>3
<1>8. CASE \E b \in Body : Invoke(b) \/ TailInvoke(b)
  BY <1>1, <1>8 DEF Invoke, TailInvoke, Running
<1>9. CASE Redefine \/ UNCHANGED vars
  <2>1. stack' = stack
    BY <1>9 DEF Redefine, Define, EraseProcs, EraseAll, vars
  <2> QED
    BY <1>1, <2>1 DEF Top
<1> QED
  BY <1>2, <1>3, <1>4, <1>5, <1>6, <1>7, <1>8, <1>9 DEF Next, Treeify

\* No line is begun with a tree that a redefinition has made wrong, by a call that
\* walks the trees its body has: whatever is redefined or erased, in recursive
\* procedures, and when a body is parsed again while it runs (eval.c, eval_sequence).
\* The calls it says nothing of are those eval.c:903 does not try to fix.
THEOREM BegunLinesAreRight == Spec => LineIsRight
<1> DEFINE Inv == Shapes /\ BodyInv /\ FreshInv /\ LineInv
<1>1. Init => Inv
  BY TypeInit, BodyInit, FreshInit, LineInit
<1>2. Inv /\ [Next]_vars => Inv'
  BY TypeNext, BodyNext, FreshNext, LineNext
<1>3. Inv /\ [Next]_vars => [Begins => TopIsRight']_vars
  BY LineBegins
<1> QED
  BY <1>1, <1>2, <1>3, PTL DEF Spec, LineIsRight
=============================================================================
