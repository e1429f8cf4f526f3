------------------------------ MODULE TurtleProofs ------------------------------
(***************************************************************************)
(* The turtle and its record, for every screen, every size of the record's *)
(* buffers from 308 bytes on (GR_SIZE is 60000), and commands with any     *)
(* inputs but labels of more than 127 characters, whose length the record  *)
(* cannot hold.                                                            *)
(*                                                                         *)
(* The argument has four parts.  Base: every record is Good (each buffer   *)
(* but the last in use is closed by NEXTBUFFER) and Fits (each ends before *)
(* the room that safe_to_save keeps), STARTFILL is where lfilled will look *)
(* for it, and the state has its types.  Bounded: the turtle is on the     *)
(* screen, or the walk it is on will bring it there; and in WRAP mode it   *)
(* and wanna are one place of the torus.  Faith: a redraw of the record    *)
(* shows what has been drawn, and ends with the pen, the mode and the      *)
(* place that the next entry will be drawn with; without these the next    *)
(* entry could not be shown to be drawn as it was.  While a FILLED runs,   *)
(* the colour in its STARTFILL is still to come, so Faith also says what   *)
(* the redraw will be once it is there (Midway).  FileFaith: so it is with *)
(* the picture file.                                                       *)
(*                                                                         *)
(* Turtle defines what a redraw does by functions on the number of         *)
(* entries.  What they compute is proved by induction on that number, with *)
(* the least element that a set of naturals has.                           *)
(***************************************************************************)
EXTENDS Turtle, SequenceTheorems, WellFoundedInduction, TLAPS

-----------------------------------------------------------------------------
(* Induction and recursion up to n, from the well-foundedness of < on the naturals. *)

LEMMA Least ==
  ASSUME NEW T \in SUBSET Nat, T # {}
  PROVE  \E n \in T : \A m \in T : n <= m
<1> DEFINE R == OpToRel(<, Nat)
<1>1. IsWellFoundedOn(R, Nat)
  BY NatLessThanWellFounded
<1> HIDE DEF R
<1>2. PICK n \in T : \A m \in T : ~(<<m, n>> \in R)
  BY <1>1, WFMin
<1>3. \A m \in T : ~(m < n)
  BY <1>2 DEF OpToRel, R
<1> QED
  BY <1>3

LEMMA Upward ==
  ASSUME NEW n \in Nat, NEW S, 0 \in S, \A i \in 1 .. n : i - 1 \in S => i \in S
  PROVE  \A i \in 0 .. n : i \in S
<1> DEFINE T == {i \in 0 .. n : i \notin S}
<1> SUFFICES ASSUME T # {} PROVE FALSE
  OBVIOUS
<1>1. PICK m \in T : \A i \in T : m <= i
  <2>1. T \in SUBSET Nat
    OBVIOUS
  <2> HIDE DEF T
  <2> QED
    BY <2>1, Least
<1>2. m \in 1 .. n
  OBVIOUS
<1>3. m - 1 \in 0 .. n /\ m - 1 \notin T
  BY <1>1, <1>2
<1> QED
  BY <1>2, <1>3

\* A function that begins with c and goes on with the steps st.
Follows(f, n, c, st) == \A i \in 0 .. n : f[i] = IF i = 0 THEN c ELSE st[i][f[i - 1]]

LEMMA RecursionExists ==
  ASSUME NEW n \in Nat, NEW S, NEW c \in S, NEW st \in [1 .. n -> [S -> S]]
  PROVE  \E f \in [0 .. n -> S] : Follows(f, n, c, st)
<1> DEFINE Upto(m, f) == \A i \in 0 .. m : f[i] = IF i = 0 THEN c ELSE st[i][f[i - 1]]
           T == {m \in 0 .. n : \E f \in [0 .. m -> S] : Upto(m, f)}
<1>1. 0 \in T
  <2>1. Upto(0, [i \in 0 .. 0 |-> c]) /\ [i \in 0 .. 0 |-> c] \in [0 .. 0 -> S]
    OBVIOUS
  <2> HIDE DEF Upto
  <2> QED
    BY <2>1
<1>2. ASSUME NEW m \in 1 .. n, m - 1 \in T PROVE m \in T
  <2>1. PICK f \in [0 .. m - 1 -> S] : Upto(m - 1, f)
    BY <1>2
  <2> DEFINE g == [i \in 0 .. m |-> IF i = m THEN st[m][f[m - 1]] ELSE f[i]]
  <2>2. g \in [0 .. m -> S]
    OBVIOUS
  <2>3. ASSUME NEW i \in 0 .. m PROVE g[i] = IF i = 0 THEN c ELSE st[i][g[i - 1]]
    <3>1. CASE i = m
      <4>1. g[m - 1] = f[m - 1] /\ g[i] = st[m][f[m - 1]] /\ i # 0
        BY <3>1
      <4> HIDE DEF g
      <4> QED
        BY <3>1, <4>1
    <3>2. CASE i # m
      <4>1. i \in 0 .. m - 1 /\ g[i] = f[i]
        BY <3>2
      <4>2. i # 0 => g[i - 1] = f[i - 1]
        BY <3>2
      <4> HIDE DEF g
      <4> QED
        BY <2>1, <4>1, <4>2
    <3> QED
      BY <3>1, <3>2
  <2>4. Upto(m, g)
    BY <2>3
  <2> HIDE DEF g, Upto
  <2> QED
    BY <2>2, <2>4
<1>3. n \in T
  <2> HIDE DEF T
  <2>1. \A m \in 1 .. n : m - 1 \in T => m \in T
    BY <1>2
  <2>2. \A m \in 0 .. n : m \in T
    BY <1>1, <2>1, Upward
  <2> QED
    BY <2>2
<1>4. PICK f \in [0 .. n -> S] : Upto(n, f)
  <2> HIDE DEF Upto
  <2> QED
    BY <1>3
<1> QED
  BY <1>4 DEF Follows

-----------------------------------------------------------------------------
(* The entries of the record. *)

Point == Int \X Int
Mode == {"PAINT", "REVERSE"}
Visibility == {0, -1}
PenRecord == [vis : Visibility, md : Mode, color : Int, size : Int]

Entry ==
    ({"LINEXY", "MOVEXY", "ARC"} \X Point) \cup ({"LABEL"} \X LabelLens)
      \cup ({"SETPENVIS"} \X Visibility) \cup ({"SETPENMODE"} \X Mode \X Mode)
      \cup ({"SETPENCOLOR", "SETPENSIZE", "STARTFILL"} \X Int)
      \cup {<<"FILLERUP">>, <<"ENDFILL">>}
Link == <<"NEXTBUFFER">>
Stored == Entry \cup {Link}

\* The labels whose length a signed char holds: a redraw reads no others (Replay1).
ShortLabels == LabelLens \subseteq 0 .. 127

LEMMA EntryKinds ==
  ASSUME NEW e \in Entry
  PROVE  /\ e[1] \in {"LINEXY", "MOVEXY", "ARC", "LABEL", "SETPENVIS", "SETPENMODE", "SETPENCOLOR",
                      "SETPENSIZE", "STARTFILL", "FILLERUP", "ENDFILL"}
         /\ e[1] \in {"LINEXY", "MOVEXY", "ARC"} => e[2] \in Point
         /\ e[1] = "LABEL" => e[2] \in LabelLens
         /\ e[1] = "SETPENVIS" => e[2] \in Visibility
         /\ e[1] = "SETPENMODE" => e[2] \in Mode /\ e[3] \in Mode
         /\ e[1] \in {"SETPENCOLOR", "SETPENSIZE", "STARTFILL"} => e[2] \in Int
BY DEF Entry

LEMMA EntryMade ==
  /\ \A p \in Point : <<"LINEXY", p>> \in Entry /\ <<"MOVEXY", p>> \in Entry /\ <<"ARC", p>> \in Entry
  /\ \A len \in LabelLens : <<"LABEL", len>> \in Entry
  /\ \A v \in Visibility : <<"SETPENVIS", v>> \in Entry
  /\ \A m, k \in Mode : <<"SETPENMODE", m, k>> \in Entry
  /\ \A c \in Int : <<"SETPENCOLOR", c>> \in Entry /\ <<"SETPENSIZE", c>> \in Entry /\ <<"STARTFILL", c>> \in Entry
  /\ <<"FILLERUP">> \in Entry /\ <<"ENDFILL">> \in Entry
BY DEF Entry

LEMMA SizeBound == ASSUME NEW e \in Stored, ShortLabels PROVE Size(e) \in 8 .. 144
<1>1. CASE e = Link
  BY <1>1 DEF Link, Size, Words
<1>2. CASE e \in Entry
  <2>1. CASE e[1] = "LABEL"
    <3>1. e[2] \in 0 .. 127
      BY <1>2, <2>1, EntryKinds DEF ShortLabels
    <3>2. Size(e) = ((10 + e[2] + 7) \div 8) * 8
      BY <2>1 DEF Size
    <3> QED
      BY <3>1, <3>2
  <2>2. CASE e[1] # "LABEL"
    BY <1>2, <2>2, EntryKinds DEF Size, Words
  <2> QED
    BY <2>1, <2>2
<1> QED
  BY <1>1, <1>2 DEF Stored

-----------------------------------------------------------------------------
(* What the recursions over a sequence of entries compute. *)

LEMMA BytesIs ==
  ASSUME NEW b \in Seq(Stored), ShortLabels
  PROVE  \E f \in [0 .. Len(b) -> Nat] :
            f[0] = 0 /\ (\A i \in 1 .. Len(b) : f[i] = f[i - 1] + Size(b[i])) /\ Bytes(b) = f[Len(b)]
<1> DEFINE n == Len(b)
           Sum(f) == f = [i \in 0 .. Len(b) |-> IF i = 0 THEN 0 ELSE f[i - 1] + Size(b[i])]
           st == [i \in 1 .. n |-> [s \in Nat |-> s + Size(b[i])]]
           g == CHOOSE f : Sum(f)
<1>1. n \in Nat /\ \A i \in 1 .. n : Size(b[i]) \in Nat
  <2>1. n \in Nat /\ \A i \in 1 .. n : b[i] \in Stored
    OBVIOUS
  <2>2. \A e \in Stored : Size(e) \in 8 .. 144
    BY SizeBound
  <2>3. 8 .. 144 \subseteq Nat
    OBVIOUS
  <2> QED
    BY <2>1, <2>2, <2>3
<1>2. st \in [1 .. n -> [Nat -> Nat]]
  BY <1>1
<1>3. PICK f \in [0 .. n -> Nat] : Follows(f, n, 0, st)
  <2> HIDE DEF n, st, g, Sum
  <2>1. 0 \in Nat
    OBVIOUS
  <2> QED
    BY <1>1, <1>2, <2>1, RecursionExists
<1>4. \A i \in 0 .. n : f[i] = IF i = 0 THEN 0 ELSE f[i - 1] + Size(b[i])
  <2>1. \A i \in 1 .. n : \A s \in Nat : st[i][s] = s + Size(b[i])
    OBVIOUS
  <2> HIDE DEF st, n, g, Sum
  <2>2. \A i \in 0 .. n : f[i] = IF i = 0 THEN 0 ELSE st[i][f[i - 1]]
    BY <1>3 DEF Follows
  <2>3. \A i \in 1 .. n : i - 1 \in 0 .. n /\ f[i - 1] \in Nat
    BY <1>1
  <2>4. \A i \in 1 .. n : st[i][f[i - 1]] = f[i - 1] + Size(b[i])
    BY <2>1, <2>3
  <2>5. ASSUME NEW i \in 0 .. n PROVE f[i] = IF i = 0 THEN 0 ELSE f[i - 1] + Size(b[i])
    <3>1. i = 0 \/ i \in 1 .. n
      BY <1>1
    <3> QED
      BY <2>2, <2>4, <3>1
  <2> QED
    BY <2>5
<1>5. Sum(f)
  <2>1. f = [i \in 0 .. n |-> f[i]]
    OBVIOUS
  <2> QED
    BY <1>4, <2>1, Zenon
<1>6. Sum(g)
  BY <1>5, Zenon
<1>7. Bytes(b) = g[n]
  BY Zenon DEF Bytes
<1> HIDE DEF g
<1>8. g[0] = 0 /\ \A i \in 1 .. n : g[i] = g[i - 1] + Size(b[i])
  <2>1. \A i \in 0 .. n : g[i] = IF i = 0 THEN 0 ELSE g[i - 1] + Size(b[i])
    BY <1>6, Zenon
  <2> HIDE DEF n
  <2> QED
    BY <1>1, <2>1
<1>9. g \in [0 .. n -> Nat]
  <2>1. \A i \in 0 .. n : i \in {j \in 0 .. n : g[j] \in Nat}
    <3> DEFINE S == {j \in 0 .. n : g[j] \in Nat}
    <3>1. 0 \in S /\ \A i \in 1 .. n : i - 1 \in S => i \in S
      BY <1>1, <1>8
    <3> HIDE DEF S, n
    <3>2. \A i \in 0 .. n : i \in S
      BY <1>1, <3>1, Upward
    <3> QED
      BY <3>2 DEF S
  <2>2. g = [i \in 0 .. n |-> g[i]]
    BY <1>6, Zenon
  <2> QED
    BY <2>1, <2>2
<1> QED
  BY <1>7, <1>8, <1>9

-----------------------------------------------------------------------------
(* What a redraw of a sequence of entries does. *)

InkRecord == Mode \X Int \X Int
What ==
    ({"line"} \X Point \X Point \X InkRecord) \cup ({"label"} \X Point \X InkRecord)
      \cup ({"fill"} \X Point \X Int) \cup ({"polygon"} \X Seq(Point) \X Int \X InkRecord)
Items == [what : What, tag : {"", "stray"}]

State == [last : Point, dev : Point, spot : Point, imode : Mode, wanna : Point, points : Seq(Point),
          on : BOOLEAN, out : Seq(Items), pcolor : Int, pen : PenRecord]

LEMMA TheOnly == ASSUME NEW x PROVE The({x}) = x
BY DEF The

LEMMA PenType ==
  ASSUME NEW p \in PenRecord
  PROVE  p.vis \in Visibility /\ p.md \in Mode /\ p.color \in Int /\ p.size \in Int /\ Ink(p) \in InkRecord
BY DEF PenRecord, Ink, InkRecord

LEMMA One == ASSUME NEW S, NEW x \in S PROVE <<x>> \in Seq(S) /\ Len(<<x>>) = 1 /\ <<x>>[1] = x
OBVIOUS

LEMMA ItemType ==
  ASSUME NEW w \in What, NEW t \in {"", "stray"}
  PROVE  Item(w, t) \in Seq(Items) /\ Len(Item(w, t)) = 1 /\ Item(w, t)[1].what = w /\ Item(w, t)[1].tag = t
<1> DEFINE x == [what |-> w, tag |-> t]
<1>1. x \in Items /\ x.what = w /\ x.tag = t
  BY DEF Items
<1>2. Item(w, t) = <<x>>
  BY DEF Item
<1> HIDE DEF x
<1>3. <<x>> \in Seq(Items) /\ Len(<<x>>) = 1 /\ <<x>>[1] = x
  BY <1>1, One
<1> QED
  BY <1>1, <1>2, <1>3

LEMMA WhatMade ==
  /\ \A a, b \in Point : \A k \in InkRecord : <<"line", a, b, k>> \in What
  /\ \A a \in Point : \A k \in InkRecord : <<"label", a, k>> \in What
  /\ \A a \in Point : \A c \in Int : <<"fill", a, c>> \in What
  /\ \A ps \in Seq(Point) : \A c \in Int : \A k \in InkRecord : <<"polygon", ps, c, k>> \in What
BY DEF What

LEMMA LineType ==
  ASSUME NEW a \in Point, NEW b \in Point, NEW p \in PenRecord, NEW t \in {"", "stray"}
  PROVE  Line(a, b, p, t) \in Seq(Items)
<1>1. <<"line", a, b, Ink(p)>> \in What
  BY PenType, WhatMade
<1>2. Item(<<"line", a, b, Ink(p)>>, t) \in Seq(Items)
  BY <1>1, ItemType
<1> QED
  BY <1>2, EmptySeq DEF Line

LEMMA AroundType == ASSUME NEW c \in Point PROVE Up(c) \in Point /\ Side(c) \in Point /\ Down(c) \in Point
BY DEF Point, Up, Side, Down

LEMMA DoArcType ==
  ASSUME NEW c \in Point, NEW p \in PenRecord, NEW s \in BOOLEAN
  PROVE  DoArc(c, p, s) \in Seq(Items)
<1> DEFINE x == IF s THEN Line(Side(c), Side(c), p, "") ELSE Line(Up(c), Side(c), p, "stray")
           y == Line(Side(c), Down(c), p, "")
           z == Line(Down(c), Down(c), p, "")
<1>1. x \in Seq(Items) /\ y \in Seq(Items) /\ z \in Seq(Items)
  BY AroundType, LineType
<1>2. DoArc(c, p, s) = (x \o y) \o z
  BY DEF DoArc
<1> HIDE DEF x, y, z
<1> QED
  BY <1>1, <1>2, ConcatProperties

LEMMA FreshType == ASSUME NEW v \in Visibility PROVE Fresh(v) \in State
BY EmptySeq DEF Fresh, State, Center, Point, Mode, PenRecord

LEMMA VisitType == ASSUME NEW s \in State, NEW p \in Point PROVE Visit(s, p) \in State
<1>1. CASE s.on
  <2> DEFINE ps == Append(s.points, p)
  <2>1. ps \in Seq(Point)
    BY DEF State
  <2>2. Visit(s, p) = [s EXCEPT !.points = ps]
    BY <1>1 DEF Visit
  <2> HIDE DEF ps
  <2> QED
    BY <2>1, <2>2 DEF State
<1>2. CASE ~s.on
  BY <1>2 DEF Visit
<1> QED
  BY <1>1, <1>2

LEMMA Replay1Type ==
  ASSUME NEW s \in State, NEW e \in Entry, ShortLabels
  PROVE  Replay1(s, e) \in State
<1>0. /\ s.last \in Point /\ s.dev \in Point /\ s.spot \in Point /\ s.pen \in PenRecord /\ s.out \in Seq(Items)
      /\ s.points \in Seq(Point) /\ s.pcolor \in Int
  BY DEF State
<1>1. CASE e[1] = "LINEXY"
  <2> DEFINE o == s.out \o Line(s.dev, e[2], s.pen, "")
             u == [s EXCEPT !.out = o, !.dev = e[2], !.spot = e[2], !.last = e[2]]
  <2>1. e[2] \in Point
    BY <1>1, EntryKinds
  <2>2. o \in Seq(Items)
    BY <1>0, <2>1, LineType, ConcatProperties
  <2>3. Replay1(s, e) = Visit(u, e[2])
    BY <1>1 DEF Replay1
  <2>4. u \in State
    <3> HIDE DEF o
    <3> QED
      BY <2>1, <2>2 DEF State
  <2> HIDE DEF u
  <2> QED
    BY <2>1, <2>3, <2>4, VisitType
<1>2. CASE e[1] = "MOVEXY"
  <2> DEFINE u == [s EXCEPT !.dev = e[2], !.spot = s.last, !.last = e[2]]
  <2>1. e[2] \in Point
    BY <1>2, EntryKinds
  <2>3. Replay1(s, e) = Visit(u, e[2])
    BY <1>2 DEF Replay1
  <2>4. u \in State
    BY <1>0, <2>1 DEF State
  <2> HIDE DEF u
  <2> QED
    BY <2>1, <2>3, <2>4, VisitType
<1>3. CASE e[1] = "LABEL"
  <2> DEFINE o == s.out \o Item(<<"label", s.dev, Ink(s.pen)>>, "")
  <2>1. ~(e[2] > 127)
    <3>1. e[2] \in LabelLens
      BY <1>3, EntryKinds
    <3>2. \A l \in LabelLens : ~(l > 127)
      BY DEF ShortLabels
    <3> QED
      BY <3>1, <3>2
  <2>2. o \in Seq(Items)
    <3>1. <<"label", s.dev, Ink(s.pen)>> \in What
      BY <1>0, PenType, WhatMade
    <3> QED
      BY <1>0, <3>1, ItemType, ConcatProperties
  <2>3. Replay1(s, e) = [s EXCEPT !.out = o, !.dev = s.last, !.spot = s.last]
    BY <1>3, <2>1 DEF Replay1
  <2> HIDE DEF o
  <2> QED
    BY <1>0, <2>2, <2>3 DEF State
<1>4. CASE e[1] = "SETPENVIS"
  <2>1. Replay1(s, e) = [s EXCEPT !.pen.vis = e[2]] /\ e[2] \in Visibility
    BY <1>4, EntryKinds DEF Replay1
  <2> QED
    BY <2>1 DEF State, PenRecord
<1>5. CASE e[1] = "SETPENMODE"
  <2>1. Replay1(s, e) = [s EXCEPT !.pen.md = e[2], !.imode = e[3]] /\ e[2] \in Mode /\ e[3] \in Mode
    BY <1>5, EntryKinds DEF Replay1
  <2> QED
    BY <2>1 DEF State, PenRecord
<1>6. CASE e[1] = "SETPENCOLOR"
  <2>1. Replay1(s, e) = [s EXCEPT !.pen.color = e[2]] /\ e[2] \in Int
    BY <1>6, EntryKinds DEF Replay1
  <2> QED
    BY <2>1 DEF State, PenRecord
<1>7. CASE e[1] = "SETPENSIZE"
  <2>1. Replay1(s, e) = [s EXCEPT !.pen.size = e[2]] /\ e[2] \in Int
    BY <1>7, EntryKinds DEF Replay1
  <2> QED
    BY <2>1 DEF State, PenRecord
<1>8. CASE e[1] = "FILLERUP"
  <2> DEFINE o == s.out \o Item(<<"fill", s.spot, s.pen.color>>, "")
  <2>2. o \in Seq(Items)
    <3>1. <<"fill", s.spot, s.pen.color>> \in What
      BY <1>0, PenType, WhatMade
    <3> QED
      BY <1>0, <3>1, ItemType, ConcatProperties
  <2>3. Replay1(s, e) = [s EXCEPT !.out = o]
    BY <1>8 DEF Replay1
  <2> HIDE DEF o
  <2> QED
    BY <2>2, <2>3 DEF State
<1>9. CASE e[1] = "ARC"
  <2> DEFINE o == s.out \o DoArc(e[2], s.pen, TRUE)
  <2>1. e[2] \in Point
    BY <1>9, EntryKinds
  <2>2. o \in Seq(Items)
    BY <1>0, <2>1, DoArcType, ConcatProperties
  <2>3. Replay1(s, e) = [s EXCEPT !.out = o, !.dev = e[2], !.spot = e[2], !.wanna = e[2]]
    BY <1>9 DEF Replay1
  <2> HIDE DEF o
  <2> QED
    BY <2>1, <2>2, <2>3 DEF State
<1>10. CASE e[1] = "STARTFILL"
  <2> DEFINE ps == <<s.last>>
  <2>1. ps \in Seq(Point) /\ e[2] \in Int
    BY <1>0, <1>10, EntryKinds
  <2>2. Replay1(s, e) = [s EXCEPT !.on = TRUE, !.points = ps, !.pcolor = e[2]]
    BY <1>10 DEF Replay1
  <2> HIDE DEF ps
  <2> QED
    BY <2>1, <2>2 DEF State
<1>11. CASE e[1] = "ENDFILL"
  <2> DEFINE o == s.out \o Item(<<"polygon", s.points, s.pcolor, Ink(s.pen)>>, "")
  <2>2. o \in Seq(Items)
    <3>1. <<"polygon", s.points, s.pcolor, Ink(s.pen)>> \in What
      BY <1>0, PenType, WhatMade
    <3> QED
      BY <1>0, <3>1, ItemType, ConcatProperties
  <2>3. Replay1(s, e) = [s EXCEPT !.on = FALSE, !.out = o]
    BY <1>11 DEF Replay1
  <2> HIDE DEF o
  <2> QED
    BY <2>2, <2>3 DEF State
<1> QED
  BY <1>1, <1>2, <1>3, <1>4, <1>5, <1>6, <1>7, <1>8, <1>9, <1>10, <1>11, EntryKinds

LEMMA StepOnly == \A s, e : The({Replay1(t, e) : t \in {s}}) = Replay1(s, e)
<1>1. ASSUME NEW s, NEW e PROVE {Replay1(t, e) : t \in {s}} = {Replay1(s, e)}
  OBVIOUS
<1>2. ASSUME NEW s, NEW e PROVE The({Replay1(t, e) : t \in {s}}) = Replay1(s, e)
  <2>1. The({Replay1(s, e)}) = Replay1(s, e)
    BY TheOnly
  <2> QED
    BY <1>1, <2>1, Zenon
<1> QED
  BY <1>2, Zenon

LEMMA RunIs ==
  ASSUME NEW es \in Seq(Entry), NEW vis \in Visibility, ShortLabels
  PROVE  \E f \in [0 .. Len(es) -> State] :
            f[0] = Fresh(vis) /\ (\A i \in 1 .. Len(es) : f[i] = Replay1(f[i - 1], es[i])) /\ Run(es, vis) = f[Len(es)]
<1> DEFINE n == Len(es)
           Rule(f) == f = [i \in 0 .. Len(es) |-> IF i = 0 THEN Fresh(vis) ELSE The({Replay1(t, es[i]) : t \in {f[i - 1]}})]
           st == [i \in 1 .. n |-> [s \in State |-> Replay1(s, es[i])]]
           g == CHOOSE f : Rule(f)
<1>1. n \in Nat /\ \A i \in 1 .. n : \A s \in State : Replay1(s, es[i]) \in State
  <2>1. n \in Nat /\ \A i \in 1 .. n : es[i] \in Entry
    OBVIOUS
  <2>2. \A s \in State : \A e \in Entry : Replay1(s, e) \in State
    BY Replay1Type
  <2> QED
    BY <2>1, <2>2
<1>2. st \in [1 .. n -> [State -> State]]
  BY <1>1
<1>3. PICK f \in [0 .. n -> State] : Follows(f, n, Fresh(vis), st)
  <2> HIDE DEF n, st, g, Rule
  <2>1. Fresh(vis) \in State
    BY FreshType
  <2> QED
    BY <1>1, <1>2, <2>1, RecursionExists
<1>4. \A i \in 0 .. n : f[i] = IF i = 0 THEN Fresh(vis) ELSE Replay1(f[i - 1], es[i])
  <2>1. \A i \in 1 .. n : \A s \in State : st[i][s] = Replay1(s, es[i])
    OBVIOUS
  <2> HIDE DEF st, n, g, Rule
  <2>2. \A i \in 0 .. n : f[i] = IF i = 0 THEN Fresh(vis) ELSE st[i][f[i - 1]]
    BY <1>3 DEF Follows
  <2>3. \A i \in 1 .. n : i - 1 \in 0 .. n /\ f[i - 1] \in State
    BY <1>1
  <2>4. \A i \in 1 .. n : st[i][f[i - 1]] = Replay1(f[i - 1], es[i])
    BY <2>1, <2>3
  <2>5. ASSUME NEW i \in 0 .. n PROVE f[i] = IF i = 0 THEN Fresh(vis) ELSE Replay1(f[i - 1], es[i])
    <3>1. i = 0 \/ i \in 1 .. n
      BY <1>1
    <3> QED
      BY <2>2, <2>4, <3>1
  <2> QED
    BY <2>5
<1>5. Rule(f)
  <2>1. f = [i \in 0 .. n |-> f[i]]
    OBVIOUS
  <2>2. ASSUME NEW i \in 0 .. n PROVE f[i] = IF i = 0 THEN Fresh(vis) ELSE The({Replay1(t, es[i]) : t \in {f[i - 1]}})
    <3>1. f[i] = IF i = 0 THEN Fresh(vis) ELSE Replay1(f[i - 1], es[i])
      BY <1>4, Zenon
    <3>2. The({Replay1(t, es[i]) : t \in {f[i - 1]}}) = Replay1(f[i - 1], es[i])
      BY StepOnly, Zenon
    <3> QED
      BY <3>1, <3>2, Zenon
  <2> QED
    BY <2>1, <2>2, Zenon
<1>6. Rule(g)
  BY <1>5, Zenon
<1>7. Run(es, vis) = g[n]
  BY Zenon DEF Run
<1> HIDE DEF g
<1>8. g[0] = Fresh(vis) /\ \A i \in 1 .. n : g[i] = Replay1(g[i - 1], es[i])
  <2>1. \A i \in 0 .. n : g[i] = IF i = 0 THEN Fresh(vis) ELSE The({Replay1(t, es[i]) : t \in {g[i - 1]}})
    BY <1>6, Zenon
  <2>2. 0 \in 0 .. n /\ \A i \in 1 .. n : i \in 0 .. n /\ i # 0
    BY <1>1
  <2>3. ASSUME NEW i \in 1 .. n PROVE g[i] = Replay1(g[i - 1], es[i])
    <3>1. g[i] = The({Replay1(t, es[i]) : t \in {g[i - 1]}})
      BY <2>1, <2>2, Zenon
    <3> QED
      BY <3>1, StepOnly, Zenon
  <2>4. g[0] = Fresh(vis)
    BY <2>1, <2>2, Zenon
  <2> QED
    BY <2>3, <2>4, Zenon
<1>9. g \in [0 .. n -> State]
  <2>1. \A i \in 0 .. n : i \in {j \in 0 .. n : g[j] \in State}
    <3> DEFINE S == {j \in 0 .. n : g[j] \in State}
    <3>1. 0 \in S /\ \A i \in 1 .. n : i - 1 \in S => i \in S
      <4> HIDE DEF n
      <4>1. Fresh(vis) \in State
        BY FreshType
      <4>2. \A i \in 1 .. n : g[i - 1] \in State => g[i] \in State
        <5>1. ASSUME NEW i \in 1 .. n, g[i - 1] \in State PROVE g[i] \in State
          <6>1. g[i] = Replay1(g[i - 1], es[i])
            BY <1>8
          <6> QED
            BY <1>1, <5>1, <6>1
        <5> QED
          BY <5>1
      <4>3. 0 \in 0 .. n /\ \A i \in 1 .. n : i \in 0 .. n /\ i - 1 \in 0 .. n
        BY <1>1
      <4> QED
        BY <1>8, <4>1, <4>2, <4>3, Zenon
    <3> HIDE DEF S, n
    <3>2. \A i \in 0 .. n : i \in S
      BY <1>1, <3>1, Upward
    <3> QED
      BY <3>2 DEF S
  <2>2. g = [i \in 0 .. n |-> g[i]]
    BY <1>6, Zenon
  <2> QED
    BY <2>1, <2>2
<1> QED
  BY <1>7, <1>8, <1>9

LEMMA EntriesIs ==
  ASSUME NEW r, r.cur \in Nat, \A i \in 1 .. r.cur : Live(r.bufs[i]) \in Seq(Entry)
  PROVE  \E f \in [0 .. r.cur -> Seq(Entry)] :
            f[0] = <<>> /\ (\A i \in 1 .. r.cur : f[i] = f[i - 1] \o Live(r.bufs[i])) /\ Entries(r) = f[r.cur]
<1> DEFINE n == r.cur
           Rule(f) == f = [i \in 0 .. r.cur |-> IF i = 0 THEN <<>> ELSE f[i - 1] \o Live(r.bufs[i])]
           st == [i \in 1 .. n |-> [s \in Seq(Entry) |-> s \o Live(r.bufs[i])]]
           g == CHOOSE f : Rule(f)
<1>1. n \in Nat /\ \A i \in 1 .. n : \A s \in Seq(Entry) : s \o Live(r.bufs[i]) \in Seq(Entry)
  BY ConcatProperties
<1>2. st \in [1 .. n -> [Seq(Entry) -> Seq(Entry)]]
  BY <1>1
<1>3. PICK f \in [0 .. n -> Seq(Entry)] : Follows(f, n, <<>>, st)
  <2> HIDE DEF n, st, g, Rule
  <2>1. <<>> \in Seq(Entry)
    BY EmptySeq
  <2> QED
    BY <1>1, <1>2, <2>1, RecursionExists
<1>4. \A i \in 0 .. n : f[i] = IF i = 0 THEN <<>> ELSE f[i - 1] \o Live(r.bufs[i])
  <2>1. \A i \in 1 .. n : \A s \in Seq(Entry) : st[i][s] = s \o Live(r.bufs[i])
    OBVIOUS
  <2> HIDE DEF st, n, g, Rule
  <2>2. \A i \in 0 .. n : f[i] = IF i = 0 THEN <<>> ELSE st[i][f[i - 1]]
    BY <1>3 DEF Follows
  <2>3. \A i \in 1 .. n : i - 1 \in 0 .. n /\ f[i - 1] \in Seq(Entry)
    BY <1>1
  <2>4. \A i \in 1 .. n : st[i][f[i - 1]] = f[i - 1] \o Live(r.bufs[i])
    BY <2>1, <2>3
  <2>5. ASSUME NEW i \in 0 .. n PROVE f[i] = IF i = 0 THEN <<>> ELSE f[i - 1] \o Live(r.bufs[i])
    <3>1. i = 0 \/ i \in 1 .. n
      BY <1>1
    <3> QED
      BY <2>2, <2>4, <3>1
  <2> QED
    BY <2>5
<1>5. Rule(f)
  <2>1. f = [i \in 0 .. n |-> f[i]]
    OBVIOUS
  <2> QED
    BY <1>4, <2>1, Zenon
<1>6. Rule(g)
  BY <1>5, Zenon
<1>7. Entries(r) = g[n]
  BY Zenon DEF Entries
<1> HIDE DEF g
<1>8. g[0] = <<>> /\ \A i \in 1 .. n : g[i] = g[i - 1] \o Live(r.bufs[i])
  <2>1. \A i \in 0 .. n : g[i] = IF i = 0 THEN <<>> ELSE g[i - 1] \o Live(r.bufs[i])
    BY <1>6, Zenon
  <2>2. 0 \in 0 .. n /\ \A i \in 1 .. n : i \in 0 .. n /\ i # 0
    BY <1>1
  <2>3. ASSUME NEW i \in 1 .. n PROVE g[i] = g[i - 1] \o Live(r.bufs[i])
    <3>1. g[i] = g[i - 1] \o Live(r.bufs[i])
      BY <2>1, <2>2, Zenon
    <3> QED
      BY <3>1, Zenon
  <2>4. g[0] = <<>>
    BY <2>1, <2>2, Zenon
  <2> QED
    BY <2>3, <2>4, Zenon
<1>9. g \in [0 .. n -> Seq(Entry)]
  <2>1. \A i \in 0 .. n : i \in {j \in 0 .. n : g[j] \in Seq(Entry)}
    <3> DEFINE S == {j \in 0 .. n : g[j] \in Seq(Entry)}
    <3>1. 0 \in S /\ \A i \in 1 .. n : i - 1 \in S => i \in S
      <4> HIDE DEF n
      <4>1. <<>> \in Seq(Entry)
        BY EmptySeq
      <4>2. \A i \in 1 .. n : g[i - 1] \in Seq(Entry) => g[i] \in Seq(Entry)
        <5>1. ASSUME NEW i \in 1 .. n, g[i - 1] \in Seq(Entry) PROVE g[i] \in Seq(Entry)
          <6>1. g[i] = g[i - 1] \o Live(r.bufs[i])
            BY <1>8
          <6> QED
            BY <1>1, <5>1, <6>1
        <5> QED
          BY <5>1
      <4>3. 0 \in 0 .. n /\ \A i \in 1 .. n : i \in 0 .. n /\ i - 1 \in 0 .. n
        BY <1>1
      <4> QED
        BY <1>8, <4>1, <4>2, <4>3, Zenon
    <3> HIDE DEF S, n
    <3>2. \A i \in 0 .. n : i \in S
      BY <1>1, <3>1, Upward
    <3> QED
      BY <3>2 DEF S
  <2>2. g = [i \in 0 .. n |-> g[i]]
    BY <1>6, Zenon
  <2> QED
    BY <2>1, <2>2
<1> QED
  BY <1>7, <1>8, <1>9

LEMMA VisitedIs ==
  ASSUME NEW es \in Seq(Entry)
  PROVE  \E f \in [0 .. Len(es) -> Seq(Point)] :
            f[0] = <<>> /\ (\A i \in 1 .. Len(es) : f[i] = (IF es[i][1] \in {"LINEXY", "MOVEXY"} THEN Append(f[i - 1], es[i][2]) ELSE f[i - 1])) /\ Visited(es) = f[Len(es)]
<1> DEFINE n == Len(es)
           Rule(f) == f = [i \in 0 .. Len(es) |-> IF i = 0 THEN <<>> ELSE IF es[i][1] \in {"LINEXY", "MOVEXY"} THEN Append(f[i - 1], es[i][2]) ELSE f[i - 1]]
           st == [i \in 1 .. n |-> [s \in Seq(Point) |-> (IF es[i][1] \in {"LINEXY", "MOVEXY"} THEN Append(s, es[i][2]) ELSE s)]]
           g == CHOOSE f : Rule(f)
<1>1. n \in Nat /\ \A i \in 1 .. n : \A s \in Seq(Point) : (IF es[i][1] \in {"LINEXY", "MOVEXY"} THEN Append(s, es[i][2]) ELSE s) \in Seq(Point)
  <2>1. n \in Nat /\ \A i \in 1 .. n : es[i] \in Entry
    OBVIOUS
  <2>2. \A i \in 1 .. n : es[i][1] \in {"LINEXY", "MOVEXY"} => es[i][2] \in Point
    BY <2>1, EntryKinds
  <2> QED
    BY <2>1, <2>2, AppendProperties
<1>2. st \in [1 .. n -> [Seq(Point) -> Seq(Point)]]
  BY <1>1
<1>3. PICK f \in [0 .. n -> Seq(Point)] : Follows(f, n, <<>>, st)
  <2> HIDE DEF n, st, g, Rule
  <2>1. <<>> \in Seq(Point)
    BY EmptySeq
  <2> QED
    BY <1>1, <1>2, <2>1, RecursionExists
<1>4. \A i \in 0 .. n : f[i] = IF i = 0 THEN <<>> ELSE (IF es[i][1] \in {"LINEXY", "MOVEXY"} THEN Append(f[i - 1], es[i][2]) ELSE f[i - 1])
  <2>1. \A i \in 1 .. n : \A s \in Seq(Point) : st[i][s] = (IF es[i][1] \in {"LINEXY", "MOVEXY"} THEN Append(s, es[i][2]) ELSE s)
    OBVIOUS
  <2> HIDE DEF st, n, g, Rule
  <2>2. \A i \in 0 .. n : f[i] = IF i = 0 THEN <<>> ELSE st[i][f[i - 1]]
    BY <1>3 DEF Follows
  <2>3. \A i \in 1 .. n : i - 1 \in 0 .. n /\ f[i - 1] \in Seq(Point)
    BY <1>1
  <2>4. \A i \in 1 .. n : st[i][f[i - 1]] = (IF es[i][1] \in {"LINEXY", "MOVEXY"} THEN Append(f[i - 1], es[i][2]) ELSE f[i - 1])
    BY <2>1, <2>3
  <2>5. ASSUME NEW i \in 0 .. n PROVE f[i] = IF i = 0 THEN <<>> ELSE (IF es[i][1] \in {"LINEXY", "MOVEXY"} THEN Append(f[i - 1], es[i][2]) ELSE f[i - 1])
    <3>1. i = 0 \/ i \in 1 .. n
      BY <1>1
    <3> QED
      BY <2>2, <2>4, <3>1
  <2> QED
    BY <2>5
<1>5. Rule(f)
  <2>1. f = [i \in 0 .. n |-> f[i]]
    OBVIOUS
  <2> QED
    BY <1>4, <2>1, Zenon
<1>6. Rule(g)
  BY <1>5, Zenon
<1>7. Visited(es) = g[n]
  BY Zenon DEF Visited
<1> HIDE DEF g
<1>8. g[0] = <<>> /\ \A i \in 1 .. n : g[i] = (IF es[i][1] \in {"LINEXY", "MOVEXY"} THEN Append(g[i - 1], es[i][2]) ELSE g[i - 1])
  <2>1. \A i \in 0 .. n : g[i] = IF i = 0 THEN <<>> ELSE IF es[i][1] \in {"LINEXY", "MOVEXY"} THEN Append(g[i - 1], es[i][2]) ELSE g[i - 1]
    BY <1>6, Zenon
  <2>2. 0 \in 0 .. n /\ \A i \in 1 .. n : i \in 0 .. n /\ i # 0
    BY <1>1
  <2>3. ASSUME NEW i \in 1 .. n PROVE g[i] = (IF es[i][1] \in {"LINEXY", "MOVEXY"} THEN Append(g[i - 1], es[i][2]) ELSE g[i - 1])
    <3>1. g[i] = IF es[i][1] \in {"LINEXY", "MOVEXY"} THEN Append(g[i - 1], es[i][2]) ELSE g[i - 1]
      BY <2>1, <2>2, Zenon
    <3> QED
      BY <3>1, Zenon
  <2>4. g[0] = <<>>
    BY <2>1, <2>2, Zenon
  <2> QED
    BY <2>3, <2>4, Zenon
<1>9. g \in [0 .. n -> Seq(Point)]
  <2>1. \A i \in 0 .. n : i \in {j \in 0 .. n : g[j] \in Seq(Point)}
    <3> DEFINE S == {j \in 0 .. n : g[j] \in Seq(Point)}
    <3>1. 0 \in S /\ \A i \in 1 .. n : i - 1 \in S => i \in S
      <4> HIDE DEF n
      <4>1. <<>> \in Seq(Point)
        BY EmptySeq
      <4>2. \A i \in 1 .. n : g[i - 1] \in Seq(Point) => g[i] \in Seq(Point)
        <5>1. ASSUME NEW i \in 1 .. n, g[i - 1] \in Seq(Point) PROVE g[i] \in Seq(Point)
          <6>1. g[i] = (IF es[i][1] \in {"LINEXY", "MOVEXY"} THEN Append(g[i - 1], es[i][2]) ELSE g[i - 1])
            BY <1>8
          <6> QED
            BY <1>1, <5>1, <6>1
        <5> QED
          BY <5>1
      <4>3. 0 \in 0 .. n /\ \A i \in 1 .. n : i \in 0 .. n /\ i - 1 \in 0 .. n
        BY <1>1
      <4> QED
        BY <1>8, <4>1, <4>2, <4>3, Zenon
    <3> HIDE DEF S, n
    <3>2. \A i \in 0 .. n : i \in S
      BY <1>1, <3>1, Upward
    <3> QED
      BY <3>2 DEF S
  <2>2. g = [i \in 0 .. n |-> g[i]]
    BY <1>6, Zenon
  <2> QED
    BY <2>1, <2>2
<1> QED
  BY <1>7, <1>8, <1>9

LEMMA BytesAgree ==
  ASSUME NEW a \in Seq(Stored), NEW b \in Seq(Stored), ShortLabels, Len(a) <= Len(b),
         \A i \in 1 .. Len(a) : Size(a[i]) = Size(b[i])
  PROVE  /\ Bytes(a) \in Nat /\ Bytes(b) \in Nat /\ Bytes(a) <= Bytes(b)
         /\ Len(a) = Len(b) => Bytes(a) = Bytes(b)
         /\ Len(b) = Len(a) + 1 => Bytes(b) = Bytes(a) + Size(b[Len(b)])
<1> DEFINE n == Len(a)
           m == Len(b)
<1>1. n \in Nat /\ m \in Nat /\ n <= m
  OBVIOUS
<1>2. PICK f \in [0 .. n -> Nat] : f[0] = 0 /\ (\A i \in 1 .. n : f[i] = f[i - 1] + Size(a[i])) /\ Bytes(a) = f[n]
  BY BytesIs
<1>3. PICK g \in [0 .. m -> Nat] : g[0] = 0 /\ (\A i \in 1 .. m : g[i] = g[i - 1] + Size(b[i])) /\ Bytes(b) = g[m]
  BY BytesIs
<1>4. \A i \in 1 .. m : Size(b[i]) \in Nat
  <2>1. \A i \in 1 .. m : b[i] \in Stored
    OBVIOUS
  <2>2. \A e \in Stored : Size(e) \in 8 .. 144
    BY SizeBound
  <2>3. 8 .. 144 \subseteq Nat
    OBVIOUS
  <2> QED
    BY <2>1, <2>2, <2>3
<1> HIDE DEF n, m
<1>5. \A i \in 0 .. n : f[i] = g[i]
  <2> DEFINE S == {i \in 0 .. n : f[i] = g[i]}
  <2>1. 0 \in S
    BY <1>1, <1>2, <1>3
  <2>2. ASSUME NEW i \in 1 .. n, i - 1 \in S PROVE i \in S
    <3>1. i \in 1 .. m /\ f[i - 1] = g[i - 1] /\ Size(a[i]) = Size(b[i])
      BY <1>1, <2>2 DEF n
    <3> QED
      BY <1>2, <1>3, <3>1
  <2> HIDE DEF S
  <2>3. \A i \in 1 .. n : i - 1 \in S => i \in S
    BY <2>2
  <2>4. \A i \in 0 .. n : i \in S
    BY <1>1, <2>1, <2>3, Upward
  <2> QED
    BY <2>4 DEF S
<1>6. f[n] = g[n] /\ g[n] \in Nat /\ g[m] \in Nat
  BY <1>1, <1>5
<1>7. \A i \in 0 .. m : i \in {j \in 0 .. m : j >= n => g[n] <= g[j]}
  <2> DEFINE S == {j \in 0 .. m : j >= n => g[n] <= g[j]}
  <2>1. 0 \in S
    BY <1>1, <1>6
  <2>2. ASSUME NEW i \in 1 .. m, i - 1 \in S PROVE i \in S
    <3>1. g[i] = g[i - 1] + Size(b[i]) /\ Size(b[i]) \in Nat /\ g[i - 1] \in Nat /\ g[i] \in Nat
      BY <1>1, <1>3, <1>4, SMTT(30)
    <3>2. CASE i = n
      BY <1>1, <1>6, <3>2
    <3>3. CASE i # n
      BY <1>1, <1>6, <2>2, <3>1, <3>3
    <3> QED
      BY <3>2, <3>3
  <2> HIDE DEF S
  <2>3. \A i \in 1 .. m : i - 1 \in S => i \in S
    BY <2>2
  <2>4. \A i \in 0 .. m : i \in S
    BY <1>1, <2>1, <2>3, Upward
  <2> QED
    BY <2>4 DEF S
<1>8. g[n] <= g[m]
  BY <1>1, <1>7
<1>9. m = n + 1 => g[m] = g[n] + Size(b[m])
  BY <1>1, <1>3
<1> QED
  BY <1>2, <1>3, <1>6, <1>8, <1>9 DEF n, m

LEMMA BytesEmpty == ASSUME ShortLabels PROVE Bytes(<<>>) = 0
<1>1. <<>> \in Seq(Stored) /\ Len(<<>>) = 0
  BY EmptySeq
<1> QED
  BY <1>1, BytesIs

LEMMA RunEmpty == ASSUME NEW vis \in Visibility, ShortLabels PROVE Run(<<>>, vis) = Fresh(vis)
<1>1. <<>> \in Seq(Entry) /\ Len(<<>>) = 0
  BY EmptySeq
<1> QED
  BY <1>1, RunIs

LEMMA RunType ==
  ASSUME NEW es \in Seq(Entry), NEW vis \in Visibility, ShortLabels
  PROVE  Run(es, vis) \in State
<1>1. PICK f \in [0 .. Len(es) -> State] : Run(es, vis) = f[Len(es)]
  BY RunIs
<1> QED
  BY <1>1

LEMMA RunAppend ==
  ASSUME NEW es \in Seq(Entry), NEW e \in Entry, NEW vis \in Visibility, ShortLabels
  PROVE  Run(Append(es, e), vis) = Replay1(Run(es, vis), e)
<1> DEFINE n == Len(es)
           b == Append(es, e)
<1>1. b \in Seq(Entry) /\ Len(b) = n + 1 /\ n \in Nat /\ b[n + 1] = e /\ \A i \in 1 .. n : es[i] = b[i]
  BY AppendProperties
<1> HIDE DEF b
<1>2. PICK f \in [0 .. n -> State] :
        f[0] = Fresh(vis) /\ (\A i \in 1 .. n : f[i] = Replay1(f[i - 1], es[i])) /\ Run(es, vis) = f[n]
  BY RunIs
<1>3. PICK g \in [0 .. n + 1 -> State] :
        g[0] = Fresh(vis) /\ (\A i \in 1 .. n + 1 : g[i] = Replay1(g[i - 1], b[i])) /\ Run(b, vis) = g[n + 1]
  <2>1. \E g \in [0 .. Len(b) -> State] :
           g[0] = Fresh(vis) /\ (\A i \in 1 .. Len(b) : g[i] = Replay1(g[i - 1], b[i])) /\ Run(b, vis) = g[Len(b)]
    BY <1>1, RunIs
  <2> HIDE DEF n
  <2> QED
    BY <1>1, <2>1
<1> HIDE DEF n
<1>5. \A i \in 0 .. n : f[i] = g[i]
  <2> DEFINE S == {i \in 0 .. n : f[i] = g[i]}
  <2>1. 0 \in S
    BY <1>1, <1>2, <1>3
  <2>2. ASSUME NEW i \in 1 .. n, i - 1 \in S PROVE i \in S
    <3>1. i \in 1 .. n + 1 /\ f[i - 1] = g[i - 1] /\ es[i] = b[i]
      BY <1>1, <2>2
    <3> QED
      BY <1>2, <1>3, <3>1
  <2> HIDE DEF S
  <2>3. \A i \in 1 .. n : i - 1 \in S => i \in S
    BY <2>2
  <2>4. \A i \in 0 .. n : i \in S
    BY <1>1, <2>1, <2>3, Upward
  <2> QED
    BY <2>4 DEF S
<1>6. f[n] = g[n] /\ g[n + 1] = Replay1(g[n], e)
  <2>1. n + 1 \in 1 .. n + 1 /\ n + 1 - 1 = n /\ n \in 0 .. n
    BY <1>1
  <2> QED
    BY <1>1, <1>3, <1>5, <2>1
<1> QED
  BY <1>2, <1>3, <1>6 DEF b

LEMMA VisitedEmpty == Visited(<<>>) = <<>>
<1>1. <<>> \in Seq(Entry) /\ Len(<<>>) = 0
  BY EmptySeq
<1> QED
  BY <1>1, VisitedIs

LEMMA VisitedType == ASSUME NEW es \in Seq(Entry) PROVE Visited(es) \in Seq(Point)
<1>1. PICK f \in [0 .. Len(es) -> Seq(Point)] : Visited(es) = f[Len(es)]
  BY VisitedIs
<1> QED
  BY <1>1

LEMMA VisitedAppend ==
  ASSUME NEW es \in Seq(Entry), NEW e \in Entry
  PROVE  Visited(Append(es, e)) = IF e[1] \in {"LINEXY", "MOVEXY"} THEN Append(Visited(es), e[2]) ELSE Visited(es)
<1> DEFINE n == Len(es)
           b == Append(es, e)
           Next1(s, x) == IF x[1] \in {"LINEXY", "MOVEXY"} THEN Append(s, x[2]) ELSE s
<1>1. b \in Seq(Entry) /\ Len(b) = n + 1 /\ n \in Nat /\ b[n + 1] = e /\ \A i \in 1 .. n : es[i] = b[i]
  BY AppendProperties
<1> HIDE DEF b
<1>2. PICK f \in [0 .. n -> Seq(Point)] :
        f[0] = <<>> /\ (\A i \in 1 .. n : f[i] = Next1(f[i - 1], es[i])) /\ Visited(es) = f[n]
  BY VisitedIs
<1>3. PICK g \in [0 .. n + 1 -> Seq(Point)] :
        g[0] = <<>> /\ (\A i \in 1 .. n + 1 : g[i] = Next1(g[i - 1], b[i])) /\ Visited(b) = g[n + 1]
  BY <1>1, VisitedIs
<1>4. Visited(Append(es, e)) = Visited(b)
  BY DEF b
<1> HIDE DEF n, Next1
<1>5. \A i \in 0 .. n : f[i] = g[i]
  <2> DEFINE S == {i \in 0 .. n : f[i] = g[i]}
  <2>1. 0 \in S
    BY <1>1, <1>2, <1>3
  <2>2. ASSUME NEW i \in 1 .. n, i - 1 \in S PROVE i \in S
    <3>1. i \in 1 .. n + 1 /\ f[i - 1] = g[i - 1] /\ es[i] = b[i]
      BY <1>1, <2>2
    <3> QED
      BY <1>2, <1>3, <3>1
  <2> HIDE DEF S
  <2>3. \A i \in 1 .. n : i - 1 \in S => i \in S
    BY <2>2
  <2>4. \A i \in 0 .. n : i \in S
    BY <1>1, <2>1, <2>3, Upward
  <2> QED
    BY <2>4 DEF S
<1>6. f[n] = g[n] /\ g[n + 1] = Next1(g[n], e)
  <2>1. n + 1 \in 1 .. n + 1 /\ n + 1 - 1 = n /\ n \in 0 .. n
    BY <1>1
  <2> QED
    BY <1>1, <1>3, <1>5, <2>1
<1> QED
  BY <1>2, <1>3, <1>4, <1>6 DEF Next1

\* The entries in the first k buffers of bufs.
UpTo(bufs, k) == Entries([bufs |-> bufs, cur |-> k, n |-> 0])
Lives(bufs, k) == \A i \in 1 .. k : Live(bufs[i]) \in Seq(Entry)

LEMMA EntriesUpTo == \A r : Entries(r) = UpTo(r.bufs, r.cur)
BY DEF Entries, UpTo

LEMMA UpToIs ==
  ASSUME NEW bufs, NEW k \in Nat, Lives(bufs, k)
  PROVE  \E f \in [0 .. k -> Seq(Entry)] :
            f[0] = <<>> /\ (\A i \in 1 .. k : f[i] = f[i - 1] \o Live(bufs[i])) /\ UpTo(bufs, k) = f[k]
<1> DEFINE r == [bufs |-> bufs, cur |-> k, n |-> 0]
<1>1. r.bufs = bufs /\ r.cur = k /\ UpTo(bufs, k) = Entries(r)
  BY DEF UpTo
<1> HIDE DEF r
<1>2. r.cur \in Nat /\ \A i \in 1 .. r.cur : Live(r.bufs[i]) \in Seq(Entry)
  BY <1>1 DEF Lives
<1>3. \E f \in [0 .. r.cur -> Seq(Entry)] :
         f[0] = <<>> /\ (\A i \in 1 .. r.cur : f[i] = f[i - 1] \o Live(r.bufs[i])) /\ Entries(r) = f[r.cur]
  BY <1>2, EntriesIs
<1> QED
  BY <1>1, <1>3

LEMMA UpToAgree ==
  ASSUME NEW a, NEW b, NEW k \in Nat, NEW j \in Nat, k <= j, Lives(a, k), Lives(b, j),
         \A i \in 1 .. k : Live(a[i]) = Live(b[i])
  PROVE  /\ UpTo(a, k) \in Seq(Entry) /\ UpTo(b, j) \in Seq(Entry)
         /\ j = k => UpTo(a, k) = UpTo(b, j)
         /\ j = k + 1 => UpTo(b, j) = UpTo(a, k) \o Live(b[j])
<1>1. PICK f \in [0 .. k -> Seq(Entry)] :
        f[0] = <<>> /\ (\A i \in 1 .. k : f[i] = f[i - 1] \o Live(a[i])) /\ UpTo(a, k) = f[k]
  BY UpToIs
<1>2. PICK g \in [0 .. j -> Seq(Entry)] :
        g[0] = <<>> /\ (\A i \in 1 .. j : g[i] = g[i - 1] \o Live(b[i])) /\ UpTo(b, j) = g[j]
  BY UpToIs
<1>3. \A i \in 0 .. k : f[i] = g[i]
  <2> DEFINE S == {i \in 0 .. k : f[i] = g[i]}
  <2>1. 0 \in S
    BY <1>1, <1>2
  <2>2. ASSUME NEW i \in 1 .. k, i - 1 \in S PROVE i \in S
    <3>1. i \in 1 .. j /\ f[i - 1] = g[i - 1] /\ Live(a[i]) = Live(b[i])
      BY <2>2
    <3>2. f[i] = f[i - 1] \o Live(a[i]) /\ g[i] = g[i - 1] \o Live(b[i])
      BY <1>1, <1>2, <3>1
    <3>3. f[i] = g[i]
      BY <3>1, <3>2
    <3> QED
      BY <3>3
  <2> HIDE DEF S
  <2>3. \A i \in 1 .. k : i - 1 \in S => i \in S
    BY <2>2
  <2>4. \A i \in 0 .. k : i \in S
    BY <2>1, <2>3, Upward
  <2> QED
    BY <2>4 DEF S
<1>4. f[k] = g[k] /\ f[k] \in Seq(Entry) /\ g[j] \in Seq(Entry)
  BY <1>3
<1>5. ASSUME j = k + 1 PROVE g[j] = g[k] \o Live(b[j])
  <2>1. j \in 1 .. j /\ j - 1 = k
    BY <1>5
  <2> QED
    BY <1>2, <2>1
<1> QED
  BY <1>1, <1>2, <1>4, <1>5

LEMMA UpToZero == ASSUME NEW b PROVE UpTo(b, 0) = <<>>
<1>1. Lives(b, 0)
  BY DEF Lives
<1>2. PICK f \in [0 .. 0 -> Seq(Entry)] : f[0] = <<>> /\ UpTo(b, 0) = f[0]
  BY <1>1, UpToIs
<1> QED
  BY <1>2

-----------------------------------------------------------------------------
(* Records, and what the writers make of them. *)

Record == [bufs : Seq(Seq(Stored)), cur : Nat, n : Nat]
Closed(b) == \E x \in Seq(Entry) : b = Append(x, Link)
Good(r) ==
    /\ r \in Record
    /\ r.cur \in 1 .. Len(r.bufs) /\ r.n = Len(r.bufs[r.cur]) /\ r.bufs[r.cur] \in Seq(Entry)
    /\ \A i \in 1 .. r.cur - 1 : Closed(r.bufs[i])

LEMMA LiveOpen == ASSUME NEW b \in Seq(Entry) PROVE Live(b) = b
<1>1. b # <<>> => b[Len(b)] \in Entry
  OBVIOUS
<1>2. b # <<>> => b[Len(b)][1] # "NEXTBUFFER"
  BY <1>1, EntryKinds
<1> QED
  BY <1>2 DEF Live

LEMMA ClosedType ==
  ASSUME NEW x \in Seq(Entry)
  PROVE  /\ Append(x, Link) \in Seq(Stored) /\ Len(Append(x, Link)) = Len(x) + 1
         /\ Append(x, Link)[Len(x) + 1] = Link /\ \A i \in 1 .. Len(x) : Append(x, Link)[i] = x[i]
<1>1. x \in Seq(Stored)
  BY SeqMonotonic DEF Stored
<1>2. Link \in Stored
  BY DEF Stored
<1> HIDE DEF Link
<1> QED
  BY <1>1, <1>2, AppendProperties

LEMMA LiveClosed == ASSUME NEW x \in Seq(Entry) PROVE Live(Append(x, Link)) = x
<1> DEFINE b == Append(x, Link)
<1>1. b \in Seq(Stored) /\ Len(b) = Len(x) + 1 /\ b[Len(b)] = Link /\ Len(x) \in Nat /\ \A i \in 1 .. Len(x) : b[i] = x[i]
  BY ClosedType
<1>2. Link[1] = "NEXTBUFFER"
  BY DEF Link
<1> HIDE DEF b
<1>3. b # <<>>
  BY <1>1, EmptySeq
<1>4. Live(b) = SubSeq(b, 1, Len(b) - 1)
  BY <1>1, <1>2, <1>3 DEF Live
<1>5. SubSeq(b, 1, Len(x)) \in Seq(Entry) /\ Len(SubSeq(b, 1, Len(x))) = Len(x)
      /\ \A i \in 1 .. Len(x) : SubSeq(b, 1, Len(x))[i] = x[i]
  <2>1. \A i \in 1 .. Len(x) : b[i] \in Entry
    BY <1>1
  <2>2. /\ SubSeq(b, 1, Len(x)) \in Seq(Entry)
        /\ Len(SubSeq(b, 1, Len(x))) = IF 1 <= Len(x) THEN Len(x) - 1 + 1 ELSE 0
        /\ \A i \in 1 .. Len(x) - 1 + 1 : SubSeq(b, 1, Len(x))[i] = b[1 + i - 1]
    BY <1>1, <2>1, SubSeqProperties
  <2> QED
    BY <1>1, <2>2
<1>6. SubSeq(b, 1, Len(x)) = x
  BY <1>5, SeqEqual
<1> QED
  BY <1>1, <1>4, <1>6 DEF b

LEMMA GoodLives ==
  ASSUME NEW r, Good(r)
  PROVE  /\ Lives(r.bufs, r.cur) /\ Live(r.bufs[r.cur]) = r.bufs[r.cur]
         /\ r.cur \in Nat \ {0} /\ r.n \in Nat /\ Len(r.bufs) \in Nat
         /\ \A i \in 1 .. r.cur - 1 : \E x \in Seq(Entry) : r.bufs[i] = Append(x, Link) /\ Live(r.bufs[i]) = x
<1>1. r.cur \in 1 .. Len(r.bufs) /\ r.bufs \in Seq(Seq(Stored)) /\ r.bufs[r.cur] \in Seq(Entry)
  BY DEF Good, Record
<1>2. Live(r.bufs[r.cur]) = r.bufs[r.cur]
  BY <1>1, LiveOpen
<1>3. ASSUME NEW i \in 1 .. r.cur - 1
      PROVE \E x \in Seq(Entry) : r.bufs[i] = Append(x, Link) /\ Live(r.bufs[i]) = x
  BY LiveClosed, ZenonT(30) DEF Good, Closed
<1>4. Lives(r.bufs, r.cur)
  <2> SUFFICES ASSUME NEW i \in 1 .. r.cur PROVE Live(r.bufs[i]) \in Seq(Entry)
    BY DEF Lives
  <2>1. i \in 1 .. r.cur - 1 \/ i = r.cur
    BY <1>1
  <2> QED
    BY <1>1, <1>2, <1>3, <2>1
<1> QED
  BY <1>1, <1>2, <1>3, <1>4 DEF Good, Record

LEMMA EntriesType ==
  ASSUME NEW r, Good(r)
  PROVE  /\ Entries(r) \in Seq(Entry) /\ UpTo(r.bufs, r.cur - 1) \in Seq(Entry)
         /\ Entries(r) = UpTo(r.bufs, r.cur - 1) \o r.bufs[r.cur]
<1> DEFINE j == r.cur
           k == r.cur - 1
           b == r.bufs
<1>1. k \in Nat /\ j \in Nat /\ k <= j /\ j = k + 1 /\ Lives(b, j) /\ Lives(b, k)
  BY GoodLives DEF Lives
<1>2. UpTo(b, j) \in Seq(Entry) /\ UpTo(b, k) \in Seq(Entry) /\ UpTo(b, j) = UpTo(b, k) \o Live(b[j])
  <2> HIDE DEF j, k, b
  <2>1. \A i \in 1 .. k : Live(b[i]) = Live(b[i])
    OBVIOUS
  <2> QED
    BY <1>1, <2>1, UpToAgree
<1> QED
  BY <1>2, EntriesUpTo, GoodLives

LEMMA IndexIs ==
  ASSUME NEW r, Good(r)
  PROVE  Index(r) = Words(1) + Bytes(r.bufs[r.cur])
<1>1. SubSeq(r.bufs[r.cur], 1, r.n) = r.bufs[r.cur]
  BY SubSeqFull DEF Good
<1> QED
  BY <1>1 DEF Index

LEMMA SaveIs == \A r, e : Save(r, e) = Put(SafeToSave(r), e)
<1>1. ASSUME NEW r, NEW e PROVE Save(r, e) = Put(SafeToSave(r), e)
  <2>1. {SafeToSave(t) : t \in {r}} = {SafeToSave(r)}
    OBVIOUS
  <2>2. {Put(s, e) : s \in {SafeToSave(r)}} = {Put(SafeToSave(r), e)}
    OBVIOUS
  <2> QED
    BY <2>1, <2>2, TheOnly DEF Save
<1> QED
  BY <1>1

LEMMA PutIs ==
  ASSUME NEW r, NEW bufs, NEW cur, NEW n, NEW e, r = [bufs |-> bufs, cur |-> cur, n |-> n]
  PROVE  Put(r, e) = [bufs |-> [bufs EXCEPT ![cur] = Append(SubSeq(bufs[cur], 1, n), e)], cur |-> cur, n |-> n + 1]
<1> DEFINE x == [bufs EXCEPT ![cur] = Append(SubSeq(bufs[cur], 1, n), e)]
<1>1. Put(r, e) = [r EXCEPT !.bufs = x, !.n = n + 1]
  BY DEF Put
<1> HIDE DEF x
<1> QED
  BY <1>1 DEF x

LEMMA PutOf ==
  ASSUME NEW r \in Record, NEW e
  PROVE  Put(r, e) = [bufs |-> [r.bufs EXCEPT ![r.cur] = Append(SubSeq(r.bufs[r.cur], 1, r.n), e)],
                      cur |-> r.cur, n |-> r.n + 1]
<1> DEFINE x == [r.bufs EXCEPT ![r.cur] = Append(SubSeq(r.bufs[r.cur], 1, r.n), e)]
<1>1. Put(r, e) = [r EXCEPT !.bufs = x, !.n = r.n + 1]
  BY DEF Put
<1> HIDE DEF x
<1>2. Put(r, e) = [bufs |-> x, cur |-> r.cur, n |-> r.n + 1]
  BY <1>1 DEF Record
<1> QED
  BY <1>2 DEF x

\* A new entry goes to the end of the buffer, or to the front of the next one.
InPlace(r, q, e) ==
    /\ Index(r) < GrSize - 300
    /\ q = [bufs |-> [r.bufs EXCEPT ![r.cur] = Append(r.bufs[r.cur], e)], cur |-> r.cur, n |-> r.n + 1]
Chained(r, q, e) ==
    /\ q.cur = r.cur + 1 /\ q.n = 1 /\ q \in Record /\ Len(q.bufs) >= q.cur /\ Len(q.bufs) >= Len(r.bufs)
    /\ q.bufs[r.cur] = Append(r.bufs[r.cur], Link) /\ q.bufs[q.cur] = <<e>>
    /\ \A i \in 1 .. Len(q.bufs) : i # r.cur /\ i # q.cur => i <= Len(r.bufs) /\ q.bufs[i] = r.bufs[i]

LEMMA SaveCases ==
  ASSUME NEW r, Good(r), NEW e \in Entry
  PROVE  InPlace(r, Save(r, e), e) \/ (~(Index(r) < GrSize - 300) /\ Chained(r, Save(r, e), e))
<1> DEFINE b == r.bufs[r.cur]
           s == SafeToSave(r)
<1>1. r \in Record /\ r.bufs \in Seq(Seq(Stored)) /\ r.cur \in 1 .. Len(r.bufs) /\ b \in Seq(Entry) /\ r.n = Len(b)
      /\ SubSeq(b, 1, r.n) = b /\ b \in Seq(Stored)
  BY SubSeqFull, SeqMonotonic DEF Good, Record, Stored
<1>3. CASE Index(r) < GrSize - 300
  <2>1. Save(r, e) = Put(r, e)
    BY <1>3, SaveIs DEF SafeToSave
  <2>2. Put(r, e) = [bufs |-> [r.bufs EXCEPT ![r.cur] = Append(SubSeq(r.bufs[r.cur], 1, r.n), e)], cur |-> r.cur, n |-> r.n + 1]
    BY <1>1, PutOf
  <2> QED
    BY <1>1, <1>3, <2>1, <2>2 DEF InPlace
<1>4. CASE ~(Index(r) < GrSize - 300)
  <2> DEFINE closed == [r.bufs EXCEPT ![r.cur] = Append(SubSeq(r.bufs[r.cur], 1, r.n), Link)]
             more == IF r.cur < Len(r.bufs) THEN closed ELSE Append(closed, <<<<"garbage">>>>)
  <2>1. s = [bufs |-> more, cur |-> r.cur + 1, n |-> 0]
    BY <1>4 DEF SafeToSave, Link
  <2>2. closed = [r.bufs EXCEPT ![r.cur] = Append(b, Link)]
    BY <1>1
  <2>3. Append(b, Link) \in Seq(Stored)
    BY <1>1, ClosedType
  <2>4. /\ closed \in Seq(Seq(Stored)) /\ Len(closed) = Len(r.bufs)
        /\ \A i \in 1 .. Len(r.bufs) : closed[i] = IF i = r.cur THEN Append(b, Link) ELSE r.bufs[i]
    <3> HIDE DEF b, closed
    <3> QED
      BY <1>1, <2>2, <2>3, ExceptSeq
  <2> DEFINE k == r.cur + 1
  <2>5. Put(s, e) = [bufs |-> [more EXCEPT ![k] = Append(SubSeq(more[k], 1, 0), e)], cur |-> k, n |-> 1]
    <3> HIDE DEF more, s
    <3>1. s = [bufs |-> more, cur |-> k, n |-> 0]
      BY <2>1
    <3> HIDE DEF k
    <3>2. Put(s, e) = [bufs |-> [more EXCEPT ![k] = Append(SubSeq(more[k], 1, 0), e)], cur |-> k, n |-> 0 + 1]
      BY <3>1, PutIs
    <3> QED
      BY <3>2
  <2>6. SubSeq(more[k], 1, 0) = <<>> /\ Append(<<>>, e) = <<e>>
    <3> HIDE DEF more, k
    <3> QED
      BY SubSeqEmpty
  <2>7. <<e>> \in Seq(Stored)
    BY DEF Stored
  <2> DEFINE last == [more EXCEPT ![k] = <<e>>]
             q == [bufs |-> last, cur |-> k, n |-> 1]
  <2>8. Put(s, e) = q
    <3> HIDE DEF more, k, s
    <3> QED
      BY <2>5, <2>6
  <2>9. /\ last \in Seq(Seq(Stored)) /\ Len(last) >= k /\ Len(last) >= Len(r.bufs)
        /\ last[r.cur] = Append(b, Link) /\ last[k] = <<e>>
        /\ \A i \in 1 .. Len(last) : i # r.cur /\ i # k => i <= Len(r.bufs) /\ last[i] = r.bufs[i]
    <3> HIDE DEF closed, b
    <3>1. CASE r.cur < Len(r.bufs)
      <4>1. last = [closed EXCEPT ![k] = <<e>>] /\ k \in 1 .. Len(closed)
        BY <1>1, <2>4, <3>1
      <4> HIDE DEF last, k
      <4>2. last \in Seq(Seq(Stored)) /\ Len(last) = Len(closed)
            /\ \A j \in 1 .. Len(closed) : last[j] = IF j = k THEN <<e>> ELSE closed[j]
        BY <2>4, <2>7, <4>1, ExceptSeq
      <4>3. k = r.cur + 1 /\ r.cur \in Nat /\ Len(closed) \in Nat /\ k \in 1 .. Len(closed) /\ r.cur \in 1 .. Len(closed) /\ r.cur # k
        BY <1>1, <2>4, <3>1, <4>1 DEF k
      <4>4. last[r.cur] = Append(b, Link) /\ last[k] = <<e>>
        BY <2>4, <4>2, <4>3
      <4>5. ASSUME NEW i \in 1 .. Len(last), i # r.cur, i # k PROVE i <= Len(r.bufs) /\ last[i] = r.bufs[i]
        BY <2>4, <4>2, <4>5
      <4> QED
        BY <2>4, <4>2, <4>3, <4>4, <4>5
    <3>2. CASE ~(r.cur < Len(r.bufs))
      <4> DEFINE g == <<<<"garbage">>>>
      <4>1. r.cur = Len(r.bufs) /\ k = Len(closed) + 1 /\ Len(closed) \in Nat
        BY <1>1, <2>4, <3>2
      <4>2. last = [Append(closed, g) EXCEPT ![k] = <<e>>]
        BY <3>2
      <4>3. last = Append(closed, <<e>>)
        <5> HIDE DEF last, k, g
        <5>1. closed \in Seq(Seq(Stored) \cup {g}) /\ g \in Seq(Stored) \cup {g} /\ <<e>> \in Seq(Stored) \cup {g}
          BY <2>4, <2>7, SeqMonotonic
        <5>2. /\ Append(closed, g) \in Seq(Seq(Stored) \cup {g}) /\ Len(Append(closed, g)) = Len(closed) + 1
              /\ \A i \in 1 .. Len(closed) : Append(closed, g)[i] = closed[i]
          BY <5>1, AppendProperties
        <5>6. k \in 1 .. Len(Append(closed, g)) /\ Append(closed, g) \in Seq(Seq(Stored) \cup {g})
          BY <4>1, <5>2
        <5>3. /\ last \in Seq(Seq(Stored) \cup {g}) /\ Len(last) = Len(closed) + 1
              /\ \A i \in 1 .. Len(closed) + 1 : last[i] = IF i = k THEN <<e>> ELSE Append(closed, g)[i]
          <6> DEFINE t == Append(closed, g)
          <6>1. [t EXCEPT ![k] = <<e>>] \in Seq(Seq(Stored) \cup {g}) /\ Len([t EXCEPT ![k] = <<e>>]) = Len(t)
                /\ \A i \in 1 .. Len(t) : [t EXCEPT ![k] = <<e>>][i] = IF i = k THEN <<e>> ELSE t[i]
            <7> DEFINE SS == Seq(Stored) \cup {g}
                       x == <<e>>
            <7>1. t \in Seq(SS) /\ k \in 1 .. Len(t) /\ x \in SS
              BY <5>1, <5>6
            <7> HIDE DEF t, SS, x
            <7>2. [t EXCEPT ![k] = x] \in Seq(SS) /\ Len([t EXCEPT ![k] = x]) = Len(t)
                  /\ \A i \in 1 .. Len(t) : [t EXCEPT ![k] = x][i] = IF i = k THEN x ELSE t[i]
              BY <7>1, ExceptSeq
            <7> QED
              BY <7>2 DEF SS, x
          <6> QED
            BY <4>2, <5>2, <6>1
        <5>4. /\ Append(closed, <<e>>) \in Seq(Seq(Stored) \cup {g}) /\ Len(Append(closed, <<e>>)) = Len(closed) + 1
              /\ (\A i \in 1 .. Len(closed) : Append(closed, <<e>>)[i] = closed[i])
              /\ Append(closed, <<e>>)[Len(closed) + 1] = <<e>>
          BY <5>1, AppendProperties
        <5>5. \A i \in 1 .. Len(last) : last[i] = Append(closed, <<e>>)[i]
          BY <4>1, <5>2, <5>3, <5>4
        <5> QED
          BY <5>3, <5>4, <5>5, SeqEqual
      <4>4. /\ Append(closed, <<e>>) \in Seq(Seq(Stored)) /\ Len(Append(closed, <<e>>)) = Len(closed) + 1
            /\ (\A i \in 1 .. Len(closed) : Append(closed, <<e>>)[i] = closed[i])
            /\ Append(closed, <<e>>)[Len(closed) + 1] = <<e>>
        BY <2>4, <2>7, AppendProperties
      <4> HIDE DEF last, k
      <4>5. k = r.cur + 1 /\ r.cur \in Nat /\ r.cur \in 1 .. Len(closed) /\ Len(closed) = Len(r.bufs)
        BY <1>1, <2>4, <4>1 DEF k
      <4>6. last[r.cur] = Append(b, Link) /\ last[k] = <<e>>
        BY <2>4, <4>1, <4>3, <4>4, <4>5
      <4>7. ASSUME NEW i \in 1 .. Len(last), i # r.cur, i # k PROVE i <= Len(r.bufs) /\ last[i] = r.bufs[i]
        <5>1. i \in 1 .. Len(closed)
          BY <4>1, <4>3, <4>4, <4>7
        <5> QED
          BY <2>4, <4>3, <4>4, <4>7, <5>1
      <4> QED
        BY <4>1, <4>3, <4>4, <4>5, <4>6, <4>7
    <3> QED
      BY <3>1, <3>2
  <2>10. Save(r, e) = q
    BY <2>8, SaveIs
  <2>11. q.bufs = last /\ q.cur = k /\ q.n = 1 /\ k = r.cur + 1 /\ k \in Nat
    BY <1>1
  <2> HIDE DEF q, last, k
  <2>12. q \in Record
    BY <2>9, <2>11 DEF Record, q
  <2>13. Chained(r, q, e)
    BY <2>9, <2>11, <2>12 DEF Chained
  <2> QED
    BY <1>4, <2>10, <2>13
<1> QED
  BY <1>3, <1>4

\* q has what r has.
Keeps(r, q) ==
    /\ r.cur <= q.cur /\ \A i \in 1 .. r.cur - 1 : q.bufs[i] = r.bufs[i]
    /\ r.n <= Len(Live(q.bufs[r.cur])) /\ \A j \in 1 .. r.n : q.bufs[r.cur][j] = r.bufs[r.cur][j]

Wrote(r, q, e) ==
    /\ Good(q) /\ Entries(q) = Append(Entries(r), e) /\ q.n # 0 /\ q.bufs[q.cur][q.n] = e /\ Keeps(r, q)

\* e has taken the place of the last entry.
Overwrote(r, q, e) ==
    LET old == Entries(r)
    IN /\ Good(q) /\ old # <<>> /\ Entries(q) = Append(SubSeq(old, 1, Len(old) - 1), e)
       /\ q.n # 0 /\ q.bufs[q.cur][q.n] = e

LEMMA ConcatAppend ==
  ASSUME NEW S, NEW a \in Seq(S), NEW b \in Seq(S), NEW e \in S
  PROVE  a \o Append(b, e) = Append(a \o b, e)
<1>1. Append(b, e) = b \o <<e>> /\ <<e>> \in Seq(S) /\ a \o b \in Seq(S)
  BY AppendIsConcat, ConcatProperties
<1>2. a \o (b \o <<e>>) = (a \o b) \o <<e>>
  BY <1>1, ConcatAssociative
<1>3. Append(a \o b, e) = (a \o b) \o <<e>>
  BY <1>1, AppendIsConcat
<1> QED
  BY <1>1, <1>2, <1>3

\* The current buffer of a record with another content.
Replaced(r, b) == [bufs |-> [r.bufs EXCEPT ![r.cur] = b], cur |-> r.cur, n |-> Len(b)]

LEMMA ReplacedIs ==
  ASSUME NEW r, Good(r), NEW b \in Seq(Entry)
  PROVE  /\ Good(Replaced(r, b)) /\ Entries(Replaced(r, b)) = UpTo(r.bufs, r.cur - 1) \o b
         /\ Replaced(r, b).cur = r.cur /\ Replaced(r, b).n = Len(b)
         /\ Replaced(r, b).bufs[r.cur] = b /\ Len(Replaced(r, b).bufs) = Len(r.bufs)
         /\ \A i \in 1 .. Len(r.bufs) : i # r.cur => Replaced(r, b).bufs[i] = r.bufs[i]
<1> DEFINE q == Replaced(r, b)
           bufs == [r.bufs EXCEPT ![r.cur] = b]
           k == r.cur - 1
<1>1. r.bufs \in Seq(Seq(Stored)) /\ r.cur \in 1 .. Len(r.bufs) /\ b \in Seq(Stored) /\ Len(b) \in Nat
  BY SeqMonotonic DEF Good, Record, Stored
<1>2. /\ bufs \in Seq(Seq(Stored)) /\ Len(bufs) = Len(r.bufs)
      /\ \A i \in 1 .. Len(r.bufs) : bufs[i] = IF i = r.cur THEN b ELSE r.bufs[i]
  BY <1>1, ExceptSeq
<1>3. q.bufs = bufs /\ q.cur = r.cur /\ q.n = Len(b) /\ q = [bufs |-> bufs, cur |-> r.cur, n |-> Len(b)]
  BY DEF Replaced
<1> HIDE DEF q, bufs
<1>4. q \in Record
  BY <1>1, <1>2, <1>3 DEF Record
<1>5. bufs[r.cur] = b /\ \A i \in 1 .. r.cur - 1 : bufs[i] = r.bufs[i]
  <2>1. bufs[r.cur] = b
    BY <1>1, <1>2
  <2>2. ASSUME NEW i \in 1 .. r.cur - 1 PROVE bufs[i] = r.bufs[i]
    <3>1. r.cur \in Nat /\ Len(r.bufs) \in Nat /\ r.cur <= Len(r.bufs)
      BY <1>1
    <3>2. i \in 1 .. Len(r.bufs) /\ i # r.cur
      BY <3>1
    <3> QED
      BY <1>2, <3>2
  <2> QED
    BY <2>1, <2>2
<1>6. Good(q)
  BY <1>1, <1>2, <1>3, <1>4, <1>5 DEF Good
<1>7. k \in Nat /\ Lives(r.bufs, k) /\ Lives(bufs, k) /\ \A i \in 1 .. k : Live(bufs[i]) = Live(r.bufs[i])
  BY <1>1, <1>5, GoodLives DEF Lives
<1>8. UpTo(bufs, k) = UpTo(r.bufs, k)
  <2> DEFINE o == r.bufs
  <2>1. k <= k
    BY <1>7
  <2>2. Lives(o, k) /\ \A i \in 1 .. k : Live(bufs[i]) = Live(o[i])
    BY <1>7
  <2> HIDE DEF k, o
  <2>3. UpTo(bufs, k) = UpTo(o, k)
    BY <1>7, <2>1, <2>2, UpToAgree
  <2> QED
    BY <2>3 DEF o
<1>9. Entries(q) = UpTo(r.bufs, r.cur - 1) \o b
  BY <1>3, <1>5, <1>6, <1>8, EntriesType
<1> QED
  BY <1>2, <1>3, <1>5, <1>6, <1>9 DEF q

LEMMA InPlaceWrites ==
  ASSUME NEW r, Good(r), NEW e \in Entry, NEW q, InPlace(r, q, e)
  PROVE  Wrote(r, q, e)
<1> DEFINE b == r.bufs[r.cur]
           c == Append(b, e)
<1>1. b \in Seq(Entry) /\ r.n = Len(b) /\ r.cur \in 1 .. Len(r.bufs) /\ Len(r.bufs) \in Nat
  BY GoodLives DEF Good
<1> HIDE DEF b
<1>2. c \in Seq(Entry) /\ Len(c) = r.n + 1 /\ c[r.n + 1] = e /\ r.n \in Nat /\ \A j \in 1 .. r.n : c[j] = b[j]
  BY <1>1, AppendProperties
<1>3. q = Replaced(r, c)
  BY <1>2 DEF InPlace, Replaced, b
<1>4. UpTo(r.bufs, r.cur - 1) \o c = Append(Entries(r), e)
  <2> DEFINE u == UpTo(r.bufs, r.cur - 1)
  <2>1. u \in Seq(Entry) /\ Entries(r) = u \o b
    BY EntriesType DEF b
  <2> HIDE DEF u
  <2>2. u \o Append(b, e) = Append(u \o b, e)
    BY <1>1, <2>1, ConcatAppend
  <2> QED
    BY <2>1, <2>2 DEF u
<1> HIDE DEF c
<1>5. /\ Good(q) /\ Entries(q) = Append(Entries(r), e) /\ q.cur = r.cur /\ q.n = r.n + 1 /\ q.bufs[r.cur] = c
      /\ \A i \in 1 .. Len(r.bufs) : i # r.cur => q.bufs[i] = r.bufs[i]
  BY <1>2, <1>3, <1>4, ReplacedIs
<1>6. Live(q.bufs[r.cur]) = c
  BY <1>2, <1>5, LiveOpen
<1>7. Keeps(r, q)
  BY <1>1, <1>2, <1>5, <1>6, SMTT(30) DEF Keeps, b
<1> QED
  BY <1>2, <1>5, <1>7 DEF Wrote

LEMMA ChainedWrites ==
  ASSUME NEW r, Good(r), NEW e \in Entry, NEW q, Chained(r, q, e)
  PROVE  Wrote(r, q, e)
<1> DEFINE b == r.bufs[r.cur]
           k == r.cur
<1>1. b \in Seq(Entry) /\ r.n = Len(b) /\ k \in 1 .. Len(r.bufs) /\ Len(r.bufs) \in Nat /\ k \in Nat
  BY GoodLives DEF Good
<1>2. /\ q.cur = k + 1 /\ q.n = 1 /\ q \in Record /\ Len(q.bufs) >= k + 1 /\ Len(q.bufs) \in Nat
      /\ q.bufs[k] = Append(b, Link) /\ q.bufs[k + 1] = <<e>>
      /\ \A i \in 1 .. k - 1 : q.bufs[i] = r.bufs[i]
  <2>1. q \in Record /\ Len(q.bufs) \in Nat
    BY DEF Chained, Record
  <2>2. /\ q.cur = k + 1 /\ q.n = 1 /\ Len(q.bufs) >= k + 1 /\ Len(q.bufs) >= Len(r.bufs)
        /\ q.bufs[k] = Append(b, Link) /\ q.bufs[q.cur] = <<e>>
        /\ \A i \in 1 .. Len(q.bufs) : i # k /\ i # q.cur => q.bufs[i] = r.bufs[i]
    BY DEF Chained
  <2> HIDE DEF b, k
  <2>3. ASSUME NEW i \in 1 .. k - 1 PROVE q.bufs[i] = r.bufs[i]
    <3>1. i \in 1 .. Len(q.bufs) /\ i # k /\ i # k + 1
      BY <1>1, <2>1, <2>2
    <3> QED
      BY <2>2, <3>1
  <2> QED
    BY <2>1, <2>2, <2>3
<1>3. <<e>> \in Seq(Entry) /\ Len(<<e>>) = 1 /\ <<e>>[1] = e
  BY One
<1> DEFINE f == <<e>>
<1> HIDE DEF b, k, f
<1>4. \A i \in 1 .. k : Closed(q.bufs[i])
  <2> TAKE i \in 1 .. k
  <2>1. i = k \/ i \in 1 .. k - 1
    BY <1>1
  <2>2. CASE i = k
    BY <1>1, <1>2, <2>2 DEF Closed
  <2>3. CASE i \in 1 .. k - 1
    BY <1>2, <2>3 DEF Good, k
  <2> QED
    BY <2>1, <2>2, <2>3
<1>5. Good(q)
  BY <1>1, <1>2, <1>3, <1>4 DEF Good
<1>6. Live(q.bufs[k]) = b
  BY <1>1, <1>2, LiveClosed
<1>7. UpTo(q.bufs, k) = UpTo(r.bufs, k)
  <2>1. Lives(q.bufs, k)
    BY <1>1, <1>2, <1>5, GoodLives DEF Lives
  <2>2. Lives(r.bufs, k)
    BY GoodLives DEF k
  <2>3. \A i \in 1 .. k : Live(q.bufs[i]) = Live(r.bufs[i])
    <3> TAKE i \in 1 .. k
    <3>1. i = k \/ i \in 1 .. k - 1
      BY <1>1
    <3>2. Live(r.bufs[k]) = b
      BY GoodLives DEF k, b
    <3> QED
      BY <1>2, <1>6, <3>1, <3>2
  <2> QED
    BY <1>1, <2>1, <2>2, <2>3, UpToAgree
<1>8. Entries(q) = UpTo(q.bufs, k) \o <<e>> /\ Entries(r) = UpTo(r.bufs, k) /\ Entries(r) \in Seq(Entry)
  <2>1. q.cur - 1 = k
    BY <1>1, <1>2
  <2> QED
    BY <1>2, <1>5, <2>1, EntriesType, EntriesUpTo DEF k
<1>9. Entries(q) = Append(Entries(r), e)
  BY <1>7, <1>8, AppendIsConcat
<1>10. Keeps(r, q)
  <2>1. \A j \in 1 .. Len(b) : q.bufs[k][j] = b[j]
    BY <1>1, <1>2, ClosedType
  <2> QED
    BY <1>1, <1>2, <1>6, <2>1 DEF Keeps, k, b
<1> QED
  BY <1>2, <1>3, <1>5, <1>9, <1>10 DEF Wrote

LEMMA SaveWrites == ASSUME NEW r, Good(r), NEW e \in Entry PROVE Wrote(r, Save(r, e), e)
BY SaveCases, InPlaceWrites, ChainedWrites

LEMMA LastIs ==
  ASSUME NEW r, Good(r), r.n # 0
  PROVE  /\ Entries(r) # <<>> /\ Entries(r)[Len(Entries(r))] = r.bufs[r.cur][r.n]
<1> DEFINE u == UpTo(r.bufs, r.cur - 1)
           b == r.bufs[r.cur]
<1>1. u \in Seq(Entry) /\ b \in Seq(Entry) /\ Entries(r) = u \o b /\ r.n = Len(b) /\ Len(b) # 0
  BY EntriesType DEF Good
<1> HIDE DEF u, b
<1>2. /\ u \o b \in Seq(Entry) /\ Len(u \o b) = Len(u) + Len(b) /\ Len(u) \in Nat /\ Len(b) \in Nat
      /\ \A i \in 1 .. Len(u) + Len(b) : (u \o b)[i] = IF i <= Len(u) THEN u[i] ELSE b[i - Len(u)]
  BY <1>1, ConcatProperties
<1>3. (u \o b)[Len(u) + Len(b)] = b[Len(b)]
  <2>1. Len(u) + Len(b) \in 1 .. Len(u) + Len(b) /\ ~(Len(u) + Len(b) <= Len(u)) /\ Len(u) + Len(b) - Len(u) = Len(b)
    BY <1>1, <1>2
  <2> QED
    BY <1>2, <2>1
<1>4. u \o b # <<>>
  BY <1>1, <1>2, EmptySeq
<1> QED
  BY <1>1, <1>2, <1>3, <1>4 DEF b

LEMMA LiveStored ==
  ASSUME NEW b \in Seq(Stored), ShortLabels
  PROVE  /\ Live(b) \in Seq(Stored) /\ Len(Live(b)) <= Len(b)
         /\ \A i \in 1 .. Len(Live(b)) : Live(b)[i] = b[i]
         /\ Bytes(Live(b)) \in Nat /\ Bytes(b) \in Nat /\ Bytes(b) <= Bytes(Live(b)) + Words(1)
<1> DEFINE n == Len(b)
           a == SubSeq(b, 1, n - 1)
<1>1. n \in Nat /\ \A i \in 1 .. n : b[i] \in Stored
  OBVIOUS
<1>2. CASE b # <<>> /\ b[n][1] = "NEXTBUFFER"
  <2>1. n # 0
    BY <1>2, EmptySeq
  <2> HIDE DEF n
  <2>2. a \in Seq(Stored) /\ Len(a) = n - 1 /\ \A i \in 1 .. n - 1 : a[i] = b[i]
    <3>1. \A i \in 1 .. n - 1 : b[i] \in Stored
      BY <1>1
    <3>2. /\ a \in Seq(Stored) /\ Len(a) = IF 1 <= n - 1 THEN n - 1 - 1 + 1 ELSE 0
          /\ \A i \in 1 .. n - 1 - 1 + 1 : a[i] = b[1 + i - 1]
      BY <1>1, <3>1, SubSeqProperties
    <3> HIDE DEF a
    <3> QED
      BY <1>1, <2>1, <3>2
  <2>3. Live(b) = a
    BY <1>2 DEF Live, n
  <2> HIDE DEF a
  <2>4. Size(b[n]) = Words(1)
    BY <1>2 DEF Size
  <2>5. Bytes(a) \in Nat /\ Bytes(b) \in Nat /\ Bytes(b) = Bytes(a) + Size(b[n])
    <3>1. Len(a) <= Len(b) /\ Len(b) = Len(a) + 1 /\ \A i \in 1 .. Len(a) : Size(a[i]) = Size(b[i])
      BY <1>1, <2>1, <2>2 DEF n
    <3> QED
      BY <2>2, <3>1, BytesAgree DEF n
  <2>6. Len(a) <= Len(b)
    BY <1>1, <2>2 DEF n
  <2> QED
    BY <2>2, <2>3, <2>4, <2>5, <2>6 DEF Words
<1>3. CASE ~(b # <<>> /\ b[n][1] = "NEXTBUFFER")
  <2>1. Live(b) = b
    BY <1>3 DEF Live
  <2>2. Bytes(b) \in Nat
    BY BytesIs
  <2> QED
    BY <1>1, <2>1, <2>2 DEF Words
<1> QED
  BY <1>2, <1>3

\* A buffer is large enough for the room that safe_to_save keeps.
BigBuffers == GrSize >= 308

\* Every buffer, also one that is chained and not in use, ends before the room that is kept.
Fits(r) == \A i \in 1 .. Len(r.bufs) : Words(1) + Bytes(Live(r.bufs[i])) <= GrSize - 156

LEMMA FitsReplaced ==
  ASSUME NEW r, Good(r), Fits(r), NEW b \in Seq(Entry), Words(1) + Bytes(b) <= GrSize - 156
  PROVE  Fits(Replaced(r, b))
<1> DEFINE q == Replaced(r, b)
<1>1. q.bufs[r.cur] = b /\ Len(q.bufs) = Len(r.bufs) /\ \A i \in 1 .. Len(r.bufs) : i # r.cur => q.bufs[i] = r.bufs[i]
  BY ReplacedIs
<1>2. Live(b) = b
  BY LiveOpen
<1> HIDE DEF q
<1>3. Fits(q)
  <2> SUFFICES ASSUME NEW i \in 1 .. Len(r.bufs) PROVE Words(1) + Bytes(Live(q.bufs[i])) <= GrSize - 156
    BY <1>1 DEF Fits
  <2>1. CASE i = r.cur
    BY <1>1, <1>2, <2>1
  <2>2. CASE i # r.cur
    BY <1>1, <2>2 DEF Fits
  <2> QED
    BY <2>1, <2>2
<1> QED
  BY <1>3 DEF q

LEMMA BytesAppend ==
  ASSUME NEW b \in Seq(Entry), NEW e \in Entry, ShortLabels
  PROVE  /\ Bytes(b) \in Nat /\ Bytes(Append(b, e)) \in Nat
         /\ Bytes(Append(b, e)) <= Bytes(b) + 144 /\ Bytes(b) <= Bytes(Append(b, e))
<1> DEFINE c == Append(b, e)
<1>1. b \in Seq(Stored) /\ e \in Stored
  BY SeqMonotonic DEF Stored
<1>2. c \in Seq(Stored) /\ Len(c) = Len(b) + 1 /\ c[Len(b) + 1] = e /\ Len(b) \in Nat /\ \A i \in 1 .. Len(b) : c[i] = b[i]
  BY <1>1, AppendProperties
<1> HIDE DEF c
<1>3. Len(b) <= Len(c) /\ \A i \in 1 .. Len(b) : Size(b[i]) = Size(c[i])
  BY <1>2
<1>4. Bytes(b) \in Nat /\ Bytes(c) \in Nat /\ Bytes(b) <= Bytes(c) /\ Bytes(c) = Bytes(b) + Size(c[Len(c)])
  BY <1>1, <1>2, <1>3, BytesAgree
<1>5. Size(e) \in 8 .. 144
  BY <1>1, SizeBound
<1>6. Bytes(c) <= Bytes(b) + 144
  <2>1. c[Len(c)] = e
    BY <1>2
  <2>2. Bytes(c) = Bytes(b) + Size(e)
    BY <1>4, <2>1
  <2> DEFINE k == Size(e)
             n == Bytes(b)
  <2>3. k \in 8 .. 144
    BY <1>5
  <2>5. n \in Nat
    BY <1>4
  <2>6. Bytes(c) = n + k
    BY <2>2
  <2> HIDE DEF k, n
  <2>4. n + k <= n + 144
    BY <2>3, <2>5
  <2> QED
    BY <2>6, <2>4 DEF n
<1> QED
  BY <1>4, <1>6 DEF c

LEMMA SaveFits ==
  ASSUME NEW r, Good(r), Fits(r), NEW e \in Entry, ShortLabels, BigBuffers
  PROVE  Fits(Save(r, e))
<1> DEFINE q == Save(r, e)
           b == r.bufs[r.cur]
<1>0. GrSize \in Nat
  BY TurtleAssumption
<1>1. b \in Seq(Entry) /\ r.n = Len(b) /\ r.cur \in 1 .. Len(r.bufs) /\ Index(r) = Words(1) + Bytes(b) /\ r.cur \in Nat
  BY IndexIs, GoodLives DEF Good
<1>2. CASE InPlace(r, q, e)
  <2> DEFINE c == Append(b, e)
  <2>1. q = Replaced(r, c) /\ c \in Seq(Entry)
    <3>1. c \in Seq(Entry) /\ Len(c) = r.n + 1
      BY <1>1, AppendProperties
    <3> QED
      BY <1>2, <3>1 DEF InPlace, Replaced
  <2>2. Index(r) < GrSize - 300
    BY <1>2 DEF InPlace
  <2>3. Bytes(b) \in Nat /\ Bytes(c) \in Nat /\ Bytes(c) <= Bytes(b) + 144
    BY <1>1, BytesAppend
  <2> HIDE DEF c, q, b
  <2>4. Words(1) + Bytes(c) <= GrSize - 156
    BY <1>0, <1>1, <2>2, <2>3 DEF Words
  <2> QED
    BY <2>1, <2>4, FitsReplaced DEF q
<1>3. CASE Chained(r, q, e)
  <2>1. /\ q.cur = r.cur + 1 /\ q.bufs[r.cur] = Append(b, Link) /\ q.bufs[q.cur] = <<e>>
        /\ \A i \in 1 .. Len(q.bufs) : i # r.cur /\ i # q.cur => i <= Len(r.bufs) /\ q.bufs[i] = r.bufs[i]
        /\ Len(r.bufs) \in Nat
    BY <1>3, GoodLives DEF Chained
  <2>2. Live(Append(b, Link)) = b /\ Live(b) = b
    BY <1>1, LiveClosed, LiveOpen
  <2> HIDE DEF q, b
  <2>3. Live(<<e>>) = <<e>> /\ Bytes(<<e>>) <= 144 /\ Bytes(<<e>>) \in Nat
    <3>1. <<e>> \in Seq(Entry) /\ <<>> \in Seq(Entry) /\ Append(<<>>, e) = <<e>>
      BY One, EmptySeq
    <3>2. Live(<<e>>) = <<e>>
      BY <3>1, LiveOpen
    <3>3. Bytes(Append(<<>>, e)) \in Nat /\ Bytes(Append(<<>>, e)) <= Bytes(<<>>) + 144
      BY <3>1, BytesAppend
    <3>4. Bytes(<<e>>) \in Nat /\ Bytes(<<e>>) <= 0 + 144
      BY <3>1, <3>3, BytesEmpty
    <3> QED
      BY <3>2, <3>4
  <2>4. Words(1) + Bytes(b) <= GrSize - 156
    BY <1>1, <2>2 DEF Fits, b
  <2>5. ASSUME NEW i \in 1 .. Len(q.bufs) PROVE Words(1) + Bytes(Live(q.bufs[i])) <= GrSize - 156
    <3>1. CASE i = r.cur
      BY <2>1, <2>2, <2>4, <3>1
    <3>2. CASE i = q.cur
      <4>1. Live(q.bufs[i]) = <<e>>
        BY <2>1, <2>3, <3>2
      <4>2. Words(1) + Bytes(<<e>>) <= GrSize - 156
        BY <1>0, <2>3 DEF Words, BigBuffers
      <4> QED
        BY <4>1, <4>2
    <3>3. CASE i # r.cur /\ i # q.cur
      BY <2>1, <3>3 DEF Fits
    <3> QED
      BY <3>1, <3>2, <3>3
  <2> QED
    BY <2>5 DEF Fits, q
<1> QED
  BY <1>2, <1>3, SaveCases

-----------------------------------------------------------------------------
(* The place of a FILLED in the record, and the entries before it. *)

Start(c) == <<"STARTFILL", c>>
FilledAt(r, f, c) ==
    /\ f.cur \in 1 .. r.cur /\ f.n \in Nat /\ f.n < Len(Live(r.bufs[f.cur]))
    /\ r.bufs[f.cur][f.n + 1] = Start(c)
Before(r, f) == UpTo(r.bufs, f.cur - 1) \o SubSeq(r.bufs[f.cur], 1, f.n)

LEMMA UpToNext ==
  ASSUME NEW a, NEW k \in Nat, Lives(a, k + 1)
  PROVE  UpTo(a, k) \in Seq(Entry) /\ UpTo(a, k + 1) \in Seq(Entry) /\ UpTo(a, k + 1) = UpTo(a, k) \o Live(a[k + 1])
<1> DEFINE j == k + 1
<1>1. j \in Nat /\ k <= j /\ j = k + 1 /\ Lives(a, k) /\ Lives(a, j)
  BY DEF Lives
<1>2. \A i \in 1 .. k : Live(a[i]) = Live(a[i])
  OBVIOUS
<1> HIDE DEF j
<1> QED
  BY <1>1, <1>2, UpToAgree

\* a and b go on with the same entries after buffer k.
SameRest(a, b, k, j) == \E z \in Seq(Entry) : UpTo(a, j) = UpTo(a, k) \o z /\ UpTo(b, j) = UpTo(b, k) \o z

LEMMA UpToFrom ==
  ASSUME NEW a, NEW b, NEW k \in Nat, NEW j \in Nat, k <= j, Lives(a, j), Lives(b, j),
         \A i \in k + 1 .. j : Live(a[i]) = Live(b[i])
  PROVE  SameRest(a, b, k, j)
<1> DEFINE Rest(i) == \E z \in Seq(Entry) : UpTo(a, k + i) = UpTo(a, k) \o z /\ UpTo(b, k + i) = UpTo(b, k) \o z
           m == j - k
           S == {i \in 0 .. m : Rest(i)}
<1>1. m \in Nat /\ k + m = j
  OBVIOUS
<1>2. UpTo(a, k) \in Seq(Entry) /\ UpTo(b, k) \in Seq(Entry)
  <2>1. Lives(a, k) /\ Lives(b, k) /\ k <= k
    BY DEF Lives
  <2>2. \A i \in 1 .. k : Live(a[i]) = Live(a[i]) /\ Live(b[i]) = Live(b[i])
    OBVIOUS
  <2> QED
    BY <2>1, <2>2, UpToAgree
<1>3. 0 \in S
  <2>1. k + 0 = k
    OBVIOUS
  <2>2. UpTo(a, k) = UpTo(a, k) \o <<>> /\ UpTo(b, k) = UpTo(b, k) \o <<>> /\ <<>> \in Seq(Entry)
    BY <1>2, ConcatEmptySeq, EmptySeq
  <2>3. Rest(0)
    BY <2>1, <2>2
  <2> HIDE DEF Rest, m
  <2> QED
    BY <1>1, <2>3
<1>4. ASSUME NEW i \in 1 .. m, i - 1 \in S PROVE i \in S
  <2> DEFINE h == k + (i - 1)
  <2>9. Rest(i - 1)
    <3> HIDE DEF Rest
    <3> QED
      BY <1>4
  <2>1. h \in Nat /\ h + 1 = k + i /\ h + 1 \in k + 1 .. j /\ i \in 0 .. m
    BY <1>1
  <2>2. PICK z \in Seq(Entry) : UpTo(a, h) = UpTo(a, k) \o z /\ UpTo(b, h) = UpTo(b, k) \o z
    BY <2>9
  <2>3. Lives(a, h + 1) /\ Lives(b, h + 1) /\ Live(a[h + 1]) = Live(b[h + 1]) /\ Live(a[h + 1]) \in Seq(Entry)
    <3> HIDE DEF h
    <3>1. h + 1 <= j /\ h + 1 \in 1 .. j
      BY <2>1
    <3>2. Live(a[h + 1]) = Live(b[h + 1])
      BY <2>1
    <3>3. Lives(a, h + 1) /\ Lives(b, h + 1)
      <4>1. 1 .. h + 1 \subseteq 1 .. j
        BY <2>1, <3>1
      <4> QED
        BY <4>1 DEF Lives
    <3>4. Live(a[h + 1]) \in Seq(Entry)
      BY <3>1 DEF Lives
    <3> QED
      BY <3>2, <3>3, <3>4
  <2> HIDE DEF h
  <2> DEFINE l == Live(a[h + 1])
             y == z \o l
  <2>4. UpTo(a, h + 1) = UpTo(a, h) \o l /\ UpTo(b, h + 1) = UpTo(b, h) \o l
    BY <2>1, <2>3, UpToNext
  <2>5. l \in Seq(Entry)
    BY <2>3
  <2> HIDE DEF l
  <2>6. y \in Seq(Entry) /\ (UpTo(a, k) \o z) \o l = UpTo(a, k) \o y /\ (UpTo(b, k) \o z) \o l = UpTo(b, k) \o y
    <3> DEFINE c == UpTo(a, k)
               d == UpTo(b, k)
    <3>1. c \in Seq(Entry) /\ d \in Seq(Entry)
      BY <1>2
    <3> HIDE DEF c, d
    <3>2. y \in Seq(Entry)
      BY <2>5, ConcatProperties
    <3>3. (c \o z) \o l = c \o y /\ (d \o z) \o l = d \o y
      <4>1. (c \o z) \o l = c \o (z \o l)
        BY <2>5, <3>1, ConcatAssociative, SMTT(30)
      <4>2. (d \o z) \o l = d \o (z \o l)
        BY <2>5, <3>1, ConcatAssociative, SMTT(30)
      <4> QED
        BY <4>1, <4>2
    <3> QED
      BY <3>2, <3>3 DEF c, d
  <2> HIDE DEF y
  <2>7. UpTo(a, k + i) = UpTo(a, k) \o y /\ UpTo(b, k + i) = UpTo(b, k) \o y
    BY <2>1, <2>2, <2>4, <2>6
  <2>8. Rest(i)
    BY <2>6, <2>7
  <2> HIDE DEF Rest, m
  <2> QED
    BY <2>1, <2>8
<1>5. Rest(m)
  <2> HIDE DEF Rest, m
  <2>1. \A i \in 1 .. m : i - 1 \in S => i \in S
    BY <1>4
  <2> HIDE DEF S
  <2>2. \A i \in 0 .. m : i \in S
    BY <1>1, <1>3, <2>1, Upward
  <2> QED
    BY <1>1, <2>2 DEF S
<1> QED
  BY <1>1, <1>5 DEF SameRest

LEMMA SplitAt ==
  ASSUME NEW x \in Seq(Entry), NEW n \in Nat, n < Len(x), NEW v \in Entry
  PROVE  /\ SubSeq(x, 1, n) \in Seq(Entry) /\ [x EXCEPT ![n + 1] = v] \in Seq(Entry)
         /\ \E t \in Seq(Entry) : /\ x = Append(SubSeq(x, 1, n), x[n + 1]) \o t
                                  /\ [x EXCEPT ![n + 1] = v] = Append(SubSeq(x, 1, n), v) \o t
<1> DEFINE h == SubSeq(x, 1, n)
           t == SubSeq(x, n + 2, Len(x))
           y == [x EXCEPT ![n + 1] = v]
<1>1. Len(x) \in Nat /\ n + 1 \in 1 .. Len(x) /\ \A i \in 1 .. Len(x) : x[i] \in Entry
  OBVIOUS
<1>2. h \in Seq(Entry) /\ Len(h) = n /\ \A i \in 1 .. n : h[i] = x[i]
  <2>1. \A i \in 1 .. n : x[i] \in Entry
    BY <1>1
  <2>2. /\ h \in Seq(Entry) /\ Len(h) = IF 1 <= n THEN n - 1 + 1 ELSE 0
        /\ \A i \in 1 .. n - 1 + 1 : h[i] = x[1 + i - 1]
    BY <2>1, SubSeqProperties
  <2> HIDE DEF h
  <2> QED
    BY <2>2
<1>3. t \in Seq(Entry) /\ Len(t) = Len(x) - (n + 1) /\ \A i \in 1 .. Len(t) : t[i] = x[n + 1 + i]
  <2> DEFINE m == n + 2
             l == Len(x)
  <2>1. m \in Int /\ l \in Int /\ \A i \in m .. l : x[i] \in Entry
    BY <1>1
  <2>2. /\ SubSeq(x, m, l) \in Seq(Entry) /\ Len(SubSeq(x, m, l)) = IF m <= l THEN l - m + 1 ELSE 0
        /\ \A i \in 1 .. l - m + 1 : SubSeq(x, m, l)[i] = x[m + i - 1]
    <3> HIDE DEF m, l
    <3> QED
      BY <2>1, SubSeqProperties
  <2>3. t = SubSeq(x, m, l)
    OBVIOUS
  <2> HIDE DEF t
  <2> QED
    BY <1>1, <2>2, <2>3
<1>4. y \in Seq(Entry) /\ Len(y) = Len(x) /\ \A i \in 1 .. Len(x) : y[i] = IF i = n + 1 THEN v ELSE x[i]
  <2> DEFINE j == n + 1
  <2> HIDE DEF j
  <2>1. [x EXCEPT ![j] = v] \in Seq(Entry) /\ Len([x EXCEPT ![j] = v]) = Len(x)
        /\ \A i \in 1 .. Len(x) : [x EXCEPT ![j] = v][i] = IF i = j THEN v ELSE x[i]
    BY <1>1, ExceptSeq DEF j
  <2> QED
    BY <2>1 DEF j
<1> HIDE DEF h, t, y
<1>5. ASSUME NEW w \in Entry, NEW z \in Seq(Entry), Len(z) = Len(x), \A i \in 1 .. Len(x) : z[i] = IF i = n + 1 THEN w ELSE x[i]
      PROVE  z = Append(h, w) \o t
  <2> DEFINE g == Append(h, w)
  <2>1. g \in Seq(Entry) /\ Len(g) = n + 1 /\ g[n + 1] = w /\ \A i \in 1 .. n : g[i] = h[i]
    BY <1>2, AppendProperties
  <2> HIDE DEF g
  <2>2. /\ g \o t \in Seq(Entry) /\ Len(g \o t) = Len(g) + Len(t)
        /\ \A i \in 1 .. Len(g) + Len(t) : (g \o t)[i] = IF i <= Len(g) THEN g[i] ELSE t[i - Len(g)]
    BY <1>3, <2>1, ConcatProperties
  <2>3. Len(g) + Len(t) = Len(x)
    BY <1>1, <1>3, <2>1
  <2>4. ASSUME NEW i \in 1 .. Len(z) PROVE z[i] = (g \o t)[i]
    <3>1. CASE i <= n
      BY <1>2, <1>5, <2>1, <2>2, <2>3, <3>1
    <3>2. CASE i = n + 1
      BY <1>5, <2>1, <2>2, <2>3, <3>2
    <3>3. CASE i > n + 1
      <4>1. (g \o t)[i] = t[i - (n + 1)] /\ i - (n + 1) \in 1 .. Len(t) /\ i \in 1 .. Len(x) /\ i # n + 1
        BY <1>1, <1>3, <1>5, <2>1, <2>2, <2>3, <3>3
      <4>2. t[i - (n + 1)] = x[i]
        <5>1. n + 1 + (i - (n + 1)) = i
          OBVIOUS
        <5> QED
          BY <1>3, <4>1, <5>1
      <4> QED
        BY <1>5, <4>1, <4>2
    <3>4. i \in Int /\ n \in Int
      OBVIOUS
    <3>5. i <= n \/ i = n + 1 \/ i > n + 1
      BY <3>4
    <3> QED
      BY <3>1, <3>2, <3>3, <3>5
  <2>5. z = g \o t
    BY <1>5, <2>2, <2>3, <2>4, SeqEqual
  <2> QED
    BY <2>5 DEF g
<1>6. x = Append(h, x[n + 1]) \o t
  BY <1>1, <1>5
<1>7. y = Append(h, v) \o t
  BY <1>4, <1>5
<1> QED
  BY <1>2, <1>3, <1>4, <1>6, <1>7 DEF h, y

\* The buffer with the STARTFILL, and its entries x.
Parts(r, f, c, x) ==
    LET b == r.bufs[f.cur]
    IN /\ x = Live(b) /\ x \in Seq(Entry) /\ b \in Seq(Stored) /\ f.n \in Nat /\ f.n < Len(x) /\ Len(x) \in Nat
       /\ x[f.n + 1] = Start(c) /\ \A i \in 1 .. Len(x) : b[i] = x[i]
       /\ SubSeq(b, 1, f.n) = SubSeq(x, 1, f.n) /\ SubSeq(x, 1, f.n) \in Seq(Entry)
       /\ f.cur \in 1 .. r.cur /\ f.cur \in 1 .. Len(r.bufs)
       /\ (f.cur = r.cur /\ b = x) \/ (f.cur \in 1 .. r.cur - 1 /\ b = Append(x, Link))

LEMMA FilledParts ==
  ASSUME NEW r, Good(r), NEW f, NEW c, FilledAt(r, f, c)
  PROVE  \E x \in Seq(Entry) : Parts(r, f, c, x)
<1> DEFINE b == r.bufs[f.cur]
           x == Live(b)
           n == f.n
<1>1. f.cur \in 1 .. r.cur /\ n \in Nat /\ n < Len(x) /\ b[n + 1] = Start(c)
  BY DEF FilledAt
<1>2. f.cur \in 1 .. Len(r.bufs) /\ b \in Seq(Stored) /\ r.cur \in Nat
  <2>1. r.bufs \in Seq(Seq(Stored)) /\ r.cur \in 1 .. Len(r.bufs) /\ Len(r.bufs) \in Nat
    BY DEF Good, Record
  <2> QED
    BY <1>1, <2>1
<1>3. x \in Seq(Entry) /\ ((f.cur = r.cur /\ b = x) \/ (f.cur \in 1 .. r.cur - 1 /\ b = Append(x, Link)))
  <2>1. CASE f.cur = r.cur
    BY <2>1, GoodLives DEF Good
  <2>2. CASE f.cur # r.cur
    <3>1. f.cur \in 1 .. r.cur - 1
      BY <1>1, <1>2, <2>2
    <3>2. PICK y \in Seq(Entry) : b = Append(y, Link) /\ x = y
      BY <3>1, GoodLives
    <3> QED
      BY <3>1, <3>2
  <2> QED
    BY <2>1, <2>2
<1>4. Len(x) \in Nat /\ \A i \in 1 .. Len(x) : b[i] = x[i]
  <2>1. Len(x) \in Nat
    BY <1>3
  <2>2. CASE b = x
    BY <2>1, <2>2
  <2>3. CASE b = Append(x, Link)
    <3> HIDE DEF x
    <3> QED
      BY <1>3, <2>1, <2>3, ClosedType
  <2> QED
    BY <1>3, <2>1, <2>2, <2>3
<1> HIDE DEF x, b, n
<1>5. SubSeq(b, 1, n) = SubSeq(x, 1, n) /\ SubSeq(x, 1, n) \in Seq(Entry)
  <2>1. \A i \in 1 .. n : b[i] = x[i] /\ x[i] \in Entry
    BY <1>1, <1>3, <1>4
  <2>2. /\ SubSeq(x, 1, n) \in Seq(Entry) /\ Len(SubSeq(x, 1, n)) = IF 1 <= n THEN n - 1 + 1 ELSE 0
        /\ \A i \in 1 .. n - 1 + 1 : SubSeq(x, 1, n)[i] = x[1 + i - 1]
    BY <1>1, <2>1, SubSeqProperties
  <2>3. /\ SubSeq(b, 1, n) \in Seq(Entry) /\ Len(SubSeq(b, 1, n)) = IF 1 <= n THEN n - 1 + 1 ELSE 0
        /\ \A i \in 1 .. n - 1 + 1 : SubSeq(b, 1, n)[i] = b[1 + i - 1]
    BY <1>1, <2>1, SubSeqProperties
  <2> DEFINE p == SubSeq(x, 1, n)
             q == SubSeq(b, 1, n)
  <2>4. p \in Seq(Entry) /\ q \in Seq(Entry) /\ Len(p) = n /\ Len(q) = n /\ \A i \in 1 .. n : p[i] = x[i] /\ q[i] = b[i]
    <3> HIDE DEF p, q
    <3> QED
      BY <1>1, <2>2, <2>3 DEF p, q
  <2> HIDE DEF p, q
  <2>5. p = q
    BY <2>1, <2>4, SeqEqual
  <2> QED
    BY <2>4, <2>5 DEF p, q
<1>6. x[n + 1] = Start(c)
  <2>1. n + 1 \in 1 .. Len(x)
    BY <1>1, <1>4
  <2> QED
    BY <1>1, <1>4, <2>1
<1>7. Parts(r, f, c, x)
  BY <1>1, <1>2, <1>3, <1>4, <1>5, <1>6 DEF Parts, x, b, n
<1> QED
  BY <1>3, <1>7

LEMMA BeforeType ==
  ASSUME NEW r, Good(r), NEW f, NEW c, FilledAt(r, f, c)
  PROVE  Before(r, f) \in Seq(Entry) /\ UpTo(r.bufs, f.cur - 1) \in Seq(Entry)
<1> DEFINE k == f.cur - 1
           o == r.bufs
           u == UpTo(o, k)
<1>1. PICK x \in Seq(Entry) : Parts(r, f, c, x)
  BY FilledParts
<1>2. k \in Nat /\ Lives(o, k + 1)
  <2>1. f.cur \in 1 .. r.cur /\ Lives(r.bufs, r.cur) /\ r.cur \in Nat
    BY <1>1, GoodLives DEF Parts
  <2>2. k \in Nat /\ 1 .. k + 1 \subseteq 1 .. r.cur
    BY <2>1
  <2> QED
    BY <2>1, <2>2 DEF Lives
<1>3. u \in Seq(Entry)
  <2> HIDE DEF k, o
  <2> QED
    BY <1>2, UpToNext
<1> DEFINE v == SubSeq(r.bufs[f.cur], 1, f.n)
<1>4. v \in Seq(Entry)
  BY <1>1 DEF Parts
<1> HIDE DEF u, v
<1>5. u \o v \in Seq(Entry)
  BY <1>3, <1>4, ConcatProperties
<1> QED
  BY <1>3, <1>5 DEF Before, u, v

LEMMA KeepsFilled ==
  ASSUME NEW r, NEW q, Good(r), Good(q), Keeps(r, q), NEW f, NEW c, FilledAt(r, f, c)
  PROVE  FilledAt(q, f, c) /\ Before(q, f) = Before(r, f)
<1> DEFINE k == f.cur
           b == r.bufs[k]
           d == q.bufs[k]
<1>1. PICK x \in Seq(Entry) : Parts(r, f, c, x)
  BY FilledParts
<1>2. k \in 1 .. r.cur /\ r.cur <= q.cur /\ r.cur \in Nat /\ q.cur \in Nat /\ f.n \in Nat /\ f.n < Len(x) /\ Len(x) \in Nat
      /\ x = Live(b)
  BY <1>1, GoodLives DEF Parts, Keeps
<1>3. \A i \in 1 .. k - 1 : q.bufs[i] = r.bufs[i]
  BY <1>2 DEF Keeps
<1>4. f.n < Len(Live(d)) /\ \A j \in 1 .. f.n + 1 : d[j] = b[j]
  <2>1. CASE k = r.cur
    <3>1. r.n = Len(x) /\ r.n <= Len(Live(d)) /\ \A j \in 1 .. r.n : d[j] = b[j]
      <4>1. b \in Seq(Entry) /\ r.n = Len(b) /\ Live(b) = b
        BY <2>1, GoodLives DEF Good
      <4> QED
        BY <1>2, <2>1, <4>1 DEF Keeps
    <3>2. Len(Live(d)) \in Nat
      <4>1. Lives(q.bufs, q.cur) /\ k \in 1 .. q.cur
        BY <1>2, GoodLives
      <4> QED
        BY <4>1 DEF Lives
    <3> QED
      BY <1>2, <3>1, <3>2
  <2>2. CASE k # r.cur
    <3>1. k \in 1 .. r.cur - 1
      BY <1>2, <2>2
    <3>2. d = b
      BY <3>1 DEF Keeps
    <3> QED
      BY <1>2, <3>2
  <2> QED
    BY <2>1, <2>2
<1>5. FilledAt(q, f, c)
  <2>1. f.n + 1 \in 1 .. f.n + 1 /\ k \in 1 .. q.cur
    BY <1>2
  <2> QED
    BY <1>2, <1>4, <2>1 DEF FilledAt
<1>6. UpTo(q.bufs, k - 1) = UpTo(r.bufs, k - 1)
  <2> DEFINE j == k - 1
             o == r.bufs
             p == q.bufs
  <2>1. j \in Nat /\ j <= j /\ 1 .. j \subseteq 1 .. r.cur /\ 1 .. j \subseteq 1 .. q.cur
    BY <1>2
  <2>2. Lives(o, j) /\ Lives(p, j)
    BY <2>1, GoodLives DEF Lives
  <2>3. \A i \in 1 .. j : Live(p[i]) = Live(o[i])
    BY <1>3
  <2> HIDE DEF j, o, p
  <2>4. UpTo(p, j) = UpTo(o, j)
    BY <2>1, <2>2, <2>3, UpToAgree
  <2> QED
    BY <2>4 DEF j, o, p
<1>7. SubSeq(d, 1, f.n) = SubSeq(b, 1, f.n)
  <2>1. PICK y \in Seq(Entry) : Parts(q, f, c, y)
    BY <1>5, FilledParts
  <2> DEFINE n == f.n
  <2>2. SubSeq(d, 1, n) = SubSeq(y, 1, n) /\ SubSeq(b, 1, n) = SubSeq(x, 1, n)
        /\ (\A i \in 1 .. n : x[i] = y[i]) /\ n \in Nat
    <3>1. /\ SubSeq(d, 1, n) = SubSeq(y, 1, n) /\ SubSeq(b, 1, n) = SubSeq(x, 1, n)
          /\ Len(x) \in Nat /\ Len(y) \in Nat /\ n < Len(x) /\ n < Len(y)
          /\ (\A i \in 1 .. Len(x) : b[i] = x[i]) /\ (\A i \in 1 .. Len(y) : d[i] = y[i])
      BY <1>1, <2>1 DEF Parts
    <3> HIDE DEF b, d
    <3>2. \A i \in 1 .. n : x[i] = y[i]
      BY <1>2, <1>4, <3>1
    <3> QED
      BY <1>2, <3>1, <3>2
  <2> HIDE DEF n, b, d
  <2>3. (\A i \in 1 .. n : x[i] \in Entry) /\ (\A i \in 1 .. n : y[i] \in Entry)
    <3>1. n < Len(x) /\ n < Len(y) /\ Len(x) \in Nat /\ Len(y) \in Nat
      BY <1>1, <2>1 DEF Parts, n
    <3> QED
      BY <2>2, <3>1
  <2>4. /\ SubSeq(x, 1, n) \in Seq(Entry) /\ Len(SubSeq(x, 1, n)) = IF 1 <= n THEN n - 1 + 1 ELSE 0
        /\ \A i \in 1 .. n - 1 + 1 : SubSeq(x, 1, n)[i] = x[1 + i - 1]
    BY <2>2, <2>3, SubSeqProperties
  <2>5. /\ SubSeq(y, 1, n) \in Seq(Entry) /\ Len(SubSeq(y, 1, n)) = IF 1 <= n THEN n - 1 + 1 ELSE 0
        /\ \A i \in 1 .. n - 1 + 1 : SubSeq(y, 1, n)[i] = y[1 + i - 1]
    BY <2>2, <2>3, SubSeqProperties
  <2> DEFINE p == SubSeq(x, 1, n)
             w == SubSeq(y, 1, n)
  <2>6. p \in Seq(Entry) /\ w \in Seq(Entry) /\ Len(p) = n /\ Len(w) = n /\ \A i \in 1 .. n : p[i] = x[i] /\ w[i] = y[i]
    <3> HIDE DEF p, w
    <3> QED
      BY <2>2, <2>4, <2>5 DEF p, w
  <2> HIDE DEF p, w
  <2>7. p = w
    BY <2>2, <2>6, SeqEqual
  <2> QED
    BY <2>2, <2>7 DEF p, w, n
<1>8. Before(q, f) = Before(r, f)
  BY <1>6, <1>7 DEF Before
<1> QED
  BY <1>5, <1>8

\* A record with another buffer k in it.
Changed(r, k, b, cur, n) == [bufs |-> [r.bufs EXCEPT ![k] = b], cur |-> cur, n |-> n]

IsChanged(q, r, k, b, cur, n) ==
    /\ q \in Record /\ Len(q.bufs) = Len(r.bufs) /\ q.cur = cur /\ q.n = n /\ q.bufs[k] = b
    /\ \A i \in 1 .. Len(r.bufs) : i # k => q.bufs[i] = r.bufs[i]

LEMMA ChangedIs ==
  ASSUME NEW r \in Record, NEW k \in 1 .. Len(r.bufs), NEW b \in Seq(Stored), NEW cur \in Nat, NEW n \in Nat
  PROVE  IsChanged(Changed(r, k, b, cur, n), r, k, b, cur, n)
<1> DEFINE o == r.bufs
           p == [o EXCEPT ![k] = b]
           q == Changed(r, k, b, cur, n)
<1>1. o \in Seq(Seq(Stored)) /\ q.bufs = p /\ q.cur = cur /\ q.n = n /\ q = [bufs |-> p, cur |-> cur, n |-> n]
  BY DEF Changed, Record
<1>2. p \in Seq(Seq(Stored)) /\ Len(p) = Len(o) /\ \A i \in 1 .. Len(o) : p[i] = IF i = k THEN b ELSE o[i]
  <2> HIDE DEF o
  <2> QED
    BY <1>1, ExceptSeq DEF o
<1> HIDE DEF p, q
<1>3. q \in Record
  BY <1>1, <1>2 DEF Record
<1> QED
  BY <1>1, <1>2, <1>3 DEF q, IsChanged

LEMMA ChangedFits ==
  ASSUME NEW r \in Record, Fits(r), NEW k \in 1 .. Len(r.bufs), NEW b \in Seq(Stored), NEW cur \in Nat, NEW n \in Nat,
         Words(1) + Bytes(Live(b)) <= GrSize - 156
  PROVE  Fits(Changed(r, k, b, cur, n))
<1> DEFINE q == Changed(r, k, b, cur, n)
<1>1. Len(q.bufs) = Len(r.bufs) /\ q.bufs[k] = b /\ \A i \in 1 .. Len(r.bufs) : i # k => q.bufs[i] = r.bufs[i]
  <2>1. IsChanged(q, r, k, b, cur, n)
    BY ChangedIs
  <2> QED
    BY <2>1 DEF IsChanged
<1> HIDE DEF q
<1>2. ASSUME NEW i \in 1 .. Len(r.bufs) PROVE Words(1) + Bytes(Live(q.bufs[i])) <= GrSize - 156
  BY <1>1 DEF Fits
<1> QED
  BY <1>1, <1>2 DEF Fits, q

LEMMA CutIs ==
  ASSUME NEW r, Good(r), Fits(r), NEW f, NEW c, FilledAt(r, f, c), ShortLabels,
         NEW q, q = Changed(r, f.cur, SubSeq(r.bufs[f.cur], 1, f.n), f.cur, f.n)
  PROVE  Good(q) /\ Fits(q) /\ Entries(q) = Before(r, f)
<1> DEFINE k == f.cur
           n == f.n
           b == SubSeq(r.bufs[k], 1, n)
<1>1. PICK x \in Seq(Entry) : Parts(r, f, c, x)
  BY FilledParts
<1>2. /\ b = SubSeq(x, 1, n) /\ b \in Seq(Entry) /\ n \in Nat /\ n < Len(x) /\ Len(x) \in Nat
      /\ k \in 1 .. r.cur /\ k \in 1 .. Len(r.bufs) /\ r.cur \in Nat /\ r \in Record /\ k \in Nat
  <2>1. /\ b = SubSeq(x, 1, n) /\ SubSeq(x, 1, n) \in Seq(Entry) /\ n \in Nat /\ n < Len(x) /\ Len(x) \in Nat
        /\ k \in 1 .. r.cur /\ k \in 1 .. Len(r.bufs)
    BY <1>1 DEF Parts
  <2>2. r.cur \in Nat /\ r \in Record
    BY GoodLives DEF Good
  <2> HIDE DEF b, n, k
  <2> QED
    BY <2>1, <2>2
<1>3. Len(b) = n /\ \A i \in 1 .. n : b[i] = x[i]
  <2> DEFINE p == SubSeq(x, 1, n)
  <2>1. \A i \in 1 .. n : x[i] \in Entry
    BY <1>2
  <2>2. Len(p) = (IF 1 <= n THEN n - 1 + 1 ELSE 0) /\ \A i \in 1 .. n - 1 + 1 : p[i] = x[1 + i - 1]
    <3> HIDE DEF n
    <3> QED
      BY <1>2, <2>1, SubSeqProperties
  <2>3. b = p
    BY <1>2
  <2> HIDE DEF b, p, n
  <2> QED
    BY <1>2, <2>2, <2>3
<1> HIDE DEF b, n, k
<1>4. b \in Seq(Stored)
  BY <1>2, SeqMonotonic DEF Stored
<1>5. q = Changed(r, k, b, k, n)
  BY DEF b, n, k
<1>6. /\ q \in Record /\ Len(q.bufs) = Len(r.bufs) /\ q.cur = k /\ q.n = n /\ q.bufs[k] = b
      /\ \A i \in 1 .. Len(r.bufs) : i # k => q.bufs[i] = r.bufs[i]
  <2>1. r \in Record /\ k \in 1 .. Len(r.bufs) /\ b \in Seq(Stored) /\ k \in Nat /\ n \in Nat
    BY <1>2, <1>4
  <2>2. IsChanged(q, r, k, b, k, n)
    BY <1>5, <2>1, ChangedIs
  <2> QED
    BY <2>2 DEF IsChanged
<1>7. \A i \in 1 .. k - 1 : q.bufs[i] = r.bufs[i] /\ i \in 1 .. r.cur - 1
  <2> TAKE i \in 1 .. k - 1
  <2>1. i \in 1 .. Len(r.bufs) /\ i # k /\ i \in 1 .. r.cur - 1
    BY <1>2
  <2> QED
    BY <1>6, <2>1
<1>8. Good(q)
  <2>1. \A i \in 1 .. q.cur - 1 : Closed(q.bufs[i])
    BY <1>6, <1>7 DEF Good
  <2> QED
    BY <1>2, <1>3, <1>6, <2>1 DEF Good
<1>9. Fits(q)
  <2>1. x \in Seq(Stored) /\ Live(b) = b /\ Live(r.bufs[k]) = x
    BY <1>1, <1>2, SeqMonotonic, LiveOpen DEF Stored, Parts, k
  <2>2. Len(b) <= Len(x) /\ \A i \in 1 .. Len(b) : Size(b[i]) = Size(x[i])
    BY <1>2, <1>3
  <2>3. Bytes(b) \in Nat /\ Bytes(x) \in Nat /\ Bytes(b) <= Bytes(x)
    BY <1>4, <2>1, <2>2, BytesAgree
  <2>4. Words(1) + Bytes(x) <= GrSize - 156
    BY <1>2, <2>1 DEF Fits
  <2>5. Words(1) + Bytes(Live(b)) <= GrSize - 156
    BY <2>1, <2>3, <2>4, TurtleAssumption DEF Words
  <2> QED
    BY <1>2, <1>4, <1>5, <2>5, ChangedFits
<1>10. Entries(q) = UpTo(q.bufs, k - 1) \o b
  BY <1>6, <1>8, EntriesType
<1>11. UpTo(q.bufs, k - 1) = UpTo(r.bufs, k - 1)
  <2> DEFINE j == k - 1
             o == r.bufs
             p == q.bufs
  <2>1. j \in Nat /\ j <= j /\ 1 .. j \subseteq 1 .. r.cur /\ 1 .. j \subseteq 1 .. k
    BY <1>2
  <2>2. Lives(o, j) /\ Lives(p, j)
    BY <1>6, <1>8, <2>1, GoodLives DEF Lives
  <2>3. \A i \in 1 .. j : Live(p[i]) = Live(o[i])
    BY <1>7
  <2> HIDE DEF j, o, p
  <2>4. UpTo(p, j) = UpTo(o, j)
    BY <2>1, <2>2, <2>3, UpToAgree
  <2> QED
    BY <2>4 DEF j, o, p
<1> QED
  BY <1>8, <1>9, <1>10, <1>11 DEF Before, k, b, n

\* STARTFILL gets its colour when the FILLED ends.
MarkOf(r, f) == Changed(r, f.cur, [r.bufs[f.cur] EXCEPT ![f.n + 1] = Start(3)], r.cur, r.n)

MarkedBuffer(r, f, b, x, y) ==
    /\ b \in Seq(Stored) /\ y \in Seq(Entry) /\ Live(b) = y /\ Bytes(y) = Bytes(x) /\ Bytes(x) \in Nat
    /\ Len(b) = Len(r.bufs[f.cur]) /\ Len(y) = Len(x)
    /\ (f.cur = r.cur /\ b = y) \/ (f.cur \in 1 .. r.cur - 1 /\ b = Append(y, Link))

LEMMA MarkBuffer ==
  ASSUME NEW r, Good(r), NEW f, FilledAt(r, f, 0), NEW x \in Seq(Entry), Parts(r, f, 0, x), ShortLabels,
         NEW b, b = [r.bufs[f.cur] EXCEPT ![f.n + 1] = Start(3)],
         NEW y, y = [x EXCEPT ![f.n + 1] = Start(3)]
  PROVE  MarkedBuffer(r, f, b, x, y)
<1> DEFINE a == r.bufs[f.cur]
           n == f.n + 1
           v == Start(3)
<1>1. /\ x \in Seq(Entry) /\ n \in Nat /\ n \in 1 .. Len(x) /\ x[n] = Start(0) /\ Len(x) \in Nat
      /\ (f.cur = r.cur /\ a = x) \/ (f.cur \in 1 .. r.cur - 1 /\ a = Append(x, Link))
  BY DEF Parts
<1>2. v \in Entry /\ Size(Start(3)) = Size(Start(0)) /\ Start(0) \in Entry
  <2>1. Start(3) \in Entry /\ Start(0) \in Entry
    <3>1. \A c \in Int : Start(c) \in Entry
      BY EntryMade DEF Start
    <3> QED
      BY <3>1
  <2>2. Size(Start(3)) = Words(3) /\ Size(Start(0)) = Words(3)
    BY DEF Start, Size
  <2> QED
    BY <2>1, <2>2
<1>3. y = [x EXCEPT ![n] = v] /\ b = [a EXCEPT ![n] = v]
  OBVIOUS
<1> HIDE DEF a, n, v
<1>4. y \in Seq(Entry) /\ Len(y) = Len(x) /\ \A i \in 1 .. Len(x) : y[i] = IF i = n THEN v ELSE x[i]
  <2> DEFINE w == [x EXCEPT ![n] = v]
  <2>1. w \in Seq(Entry) /\ Len(w) = Len(x) /\ \A i \in 1 .. Len(x) : w[i] = IF i = n THEN v ELSE x[i]
    BY <1>1, <1>2, ExceptSeq
  <2> HIDE DEF w
  <2>2. y = w
    BY <1>3 DEF w
  <2> QED
    BY <2>1, <2>2
<1>5. Bytes(y) = Bytes(x) /\ Bytes(x) \in Nat
  <2>1. x \in Seq(Stored) /\ y \in Seq(Stored)
    BY <1>4, SeqMonotonic DEF Stored
  <2>2. \A i \in 1 .. Len(x) : Size(x[i]) = Size(y[i])
    BY <1>1, <1>2, <1>4 DEF v
  <2>3. Len(x) <= Len(y)
    BY <1>1, <1>4
  <2> QED
    BY <1>4, <2>1, <2>2, <2>3, BytesAgree
<1>6. CASE f.cur = r.cur /\ a = x
  <2>1. b = y
    BY <1>3, <1>6
  <2>2. y \in Seq(Stored) /\ Live(y) = y
    BY <1>4, SeqMonotonic, LiveOpen DEF Stored
  <2> QED
    BY <1>4, <1>5, <1>6, <2>1, <2>2 DEF a, MarkedBuffer
<1>7. CASE f.cur \in 1 .. r.cur - 1 /\ a = Append(x, Link)
  <2> DEFINE z == Append(y, Link)
  <2>1. a \in Seq(Stored) /\ Len(a) = Len(x) + 1 /\ a[Len(x) + 1] = Link /\ \A i \in 1 .. Len(x) : a[i] = x[i]
    BY <1>7, ClosedType
  <2>2. z \in Seq(Stored) /\ Len(z) = Len(x) + 1 /\ z[Len(x) + 1] = Link /\ \A i \in 1 .. Len(x) : z[i] = y[i]
    BY <1>4, ClosedType
  <2>3. b \in Seq(Stored) /\ Len(b) = Len(a) /\ \A i \in 1 .. Len(a) : b[i] = IF i = n THEN v ELSE a[i]
    <3>1. v \in Stored /\ n \in 1 .. Len(a)
      BY <1>1, <1>2, <2>1 DEF Stored
    <3> DEFINE w == [a EXCEPT ![n] = v]
    <3>2. w \in Seq(Stored) /\ Len(w) = Len(a) /\ \A i \in 1 .. Len(a) : w[i] = IF i = n THEN v ELSE a[i]
      BY <2>1, <3>1, ExceptSeq
    <3> HIDE DEF w
    <3>3. b = w
      BY <1>3 DEF w
    <3> QED
      BY <3>2, <3>3
  <2> HIDE DEF z
  <2>4. ASSUME NEW i \in 1 .. Len(b) PROVE b[i] = z[i]
    <3>1. CASE i \in 1 .. Len(x)
      BY <1>1, <1>4, <2>1, <2>2, <2>3, <3>1
    <3>2. CASE i = Len(x) + 1
      <4>1. i # n /\ i \in 1 .. Len(a)
        BY <1>1, <2>3, <3>2
      <4> QED
        BY <2>1, <2>2, <2>3, <3>2, <4>1
    <3>3. i \in 1 .. Len(x) \/ i = Len(x) + 1
      BY <1>1, <2>1, <2>3
    <3> QED
      BY <3>1, <3>2, <3>3
  <2>7. b \in Seq(Stored) /\ z \in Seq(Stored) /\ Len(b) = Len(z)
    BY <2>1, <2>2, <2>3
  <2>5. b = z
    BY <2>4, <2>7, SeqEqual
  <2>6. Live(z) = y
    BY <1>4, LiveClosed DEF z
  <2> QED
    BY <1>4, <1>5, <1>7, <2>3, <2>5, <2>6 DEF z, a, MarkedBuffer
<1> QED
  BY <1>1, <1>6, <1>7

Regrouped(u, h, s, t, z) ==
    /\ t \o z \in Seq(Entry) /\ Append(u \o h, s) \in Seq(Entry)
    /\ (u \o (Append(h, s) \o t)) \o z = Append(u \o h, s) \o (t \o z)

LEMMA Regroup ==
  ASSUME NEW u \in Seq(Entry), NEW h \in Seq(Entry), NEW s \in Entry, NEW t \in Seq(Entry), NEW z \in Seq(Entry)
  PROVE  Regrouped(u, h, s, t, z)
<1> DEFINE a == Append(h, s)
           b == Append(u \o h, s)
<1>1. a \in Seq(Entry) /\ u \o h \in Seq(Entry)
  BY AppendProperties, ConcatProperties
<1>2. b \in Seq(Entry)
  BY <1>1, AppendProperties
<1>3. u \o a = b
  BY ConcatAppend
<1> HIDE DEF a, b
<1>4. u \o (a \o t) = b \o t
  <2>1. (u \o a) \o t = u \o (a \o t)
    BY <1>1, ConcatAssociative
  <2> QED
    BY <1>3, <2>1
<1>5. (b \o t) \o z = b \o (t \o z)
  BY <1>2, ConcatAssociative, SMTT(30)
<1>6. t \o z \in Seq(Entry)
  BY ConcatProperties
<1> QED
  BY <1>2, <1>4, <1>5, <1>6 DEF a, b, Regrouped

LEMMA MarkIs ==
  ASSUME NEW r, Good(r), Fits(r), NEW f, FilledAt(r, f, 0), ShortLabels, NEW q, q = MarkOf(r, f)
  PROVE  /\ Good(q) /\ Fits(q) /\ FilledAt(q, f, 3) /\ Before(q, f) = Before(r, f)
         /\ \A t \in Seq(Entry) : Entries(r) = Append(Before(r, f), Start(0)) \o t
                                    => Entries(q) = Append(Before(r, f), Start(3)) \o t
<1> DEFINE k == f.cur
           n == f.n
<1>1. PICK x \in Seq(Entry) : Parts(r, f, 0, x)
  BY FilledParts
<1> DEFINE b == [r.bufs[k] EXCEPT ![n + 1] = Start(3)]
           y == [x EXCEPT ![n + 1] = Start(3)]
<1>2. /\ b \in Seq(Stored) /\ y \in Seq(Entry) /\ Live(b) = y /\ Bytes(y) = Bytes(x) /\ Bytes(x) \in Nat
      /\ Len(b) = Len(r.bufs[k]) /\ Len(y) = Len(x)
      /\ (k = r.cur /\ b = y) \/ (k \in 1 .. r.cur - 1 /\ b = Append(y, Link))
  <2>1. b = [r.bufs[f.cur] EXCEPT ![f.n + 1] = Start(3)] /\ y = [x EXCEPT ![f.n + 1] = Start(3)]
    OBVIOUS
  <2> HIDE DEF b, y
  <2>2. MarkedBuffer(r, f, b, x, y)
    BY <1>1, <2>1, MarkBuffer
  <2> QED
    BY <2>2 DEF MarkedBuffer
<1>3. /\ x = Live(r.bufs[k]) /\ n \in Nat /\ n < Len(x) /\ Len(x) \in Nat /\ x[n + 1] = Start(0)
      /\ SubSeq(r.bufs[k], 1, n) = SubSeq(x, 1, n) /\ k \in 1 .. r.cur /\ k \in 1 .. Len(r.bufs)
  BY <1>1 DEF Parts
<1>4. r \in Record /\ r.cur \in Nat /\ r.n \in Nat /\ Len(r.bufs) \in Nat /\ r.cur \in 1 .. Len(r.bufs) /\ r.n = Len(r.bufs[r.cur])
  BY GoodLives DEF Good
<1>5. Start(3) \in Entry /\ Start(0) \in Entry
  <2>1. \A c \in Int : Start(c) \in Entry
    BY EntryMade DEF Start
  <2> QED
    BY <2>1
<1>6. PICK t1 \in Seq(Entry) : x = Append(SubSeq(x, 1, n), x[n + 1]) \o t1 /\ y = Append(SubSeq(x, 1, n), Start(3)) \o t1
  <2> DEFINE v == Start(3)
  <2>1. n \in Nat /\ n < Len(x) /\ v \in Entry
    BY <1>3, <1>5
  <2>2. y = [x EXCEPT ![n + 1] = v]
    OBVIOUS
  <2> HIDE DEF n, v, y, b
  <2>3. \E t \in Seq(Entry) : /\ x = Append(SubSeq(x, 1, n), x[n + 1]) \o t
                              /\ [x EXCEPT ![n + 1] = v] = Append(SubSeq(x, 1, n), v) \o t
    BY <2>1, SplitAt, ZenonT(30)
  <2> QED
    BY <2>2, <2>3 DEF v
<1>7. SubSeq(x, 1, n) \in Seq(Entry)
  BY <1>1 DEF Parts
<1>20. y[n + 1] = Start(3)
  BY <1>3, <1>5, ExceptSeq
<1>8. q = Changed(r, k, b, r.cur, r.n)
  BY DEF MarkOf
<1>21. n + 1 \in 1 .. Len(y) /\ \A i \in 1 .. Len(y) : b[i] = y[i]
  <2>1. n + 1 \in 1 .. Len(y) /\ Len(y) \in Nat
    BY <1>2, <1>3
  <2>2. CASE b = y
    BY <2>1, <2>2
  <2>3. CASE b = Append(y, Link)
    <3> HIDE DEF y
    <3> QED
      BY <1>2, <2>1, <2>3, ClosedType
  <2> QED
    BY <1>2, <2>1, <2>2, <2>3
<1> HIDE DEF b, y, k, n
<1> DEFINE h == SubSeq(x, 1, n)
           o == r.bufs
           p == q.bufs
<1>9. /\ q \in Record /\ Len(p) = Len(o) /\ q.cur = r.cur /\ q.n = r.n /\ p[k] = b
      /\ \A i \in 1 .. Len(o) : i # k => p[i] = o[i]
  <2>1. r \in Record /\ k \in 1 .. Len(r.bufs) /\ b \in Seq(Stored) /\ r.cur \in Nat /\ r.n \in Nat
    BY <1>2, <1>3, <1>4
  <2>2. IsChanged(q, r, k, b, r.cur, r.n)
    BY <1>8, <2>1, ChangedIs
  <2> QED
    BY <2>2 DEF IsChanged
<1>10. Good(q)
  <2>1. Len(p[r.cur]) = r.n /\ p[r.cur] \in Seq(Entry)
    <3>1. CASE k = r.cur
      <4>1. b = y
        BY <1>2, <1>4, <3>1
      <4> QED
        BY <1>2, <1>4, <1>9, <3>1, <4>1
    <3>2. CASE k # r.cur
      <4>1. p[r.cur] = o[r.cur]
        BY <1>4, <1>9, <3>2
      <4> QED
        BY <1>4, <4>1 DEF Good
    <3> QED
      BY <3>1, <3>2
  <2>2. ASSUME NEW i \in 1 .. r.cur - 1 PROVE Closed(p[i])
    <3>1. CASE k = i
      <4>1. b = Append(y, Link)
        BY <1>2, <1>4, <2>2, <3>1
      <4> QED
        BY <1>2, <1>9, <3>1, <4>1 DEF Closed
    <3>2. CASE k # i
      <4>1. i \in 1 .. Len(o)
        BY <1>4, <2>2
      <4>2. p[i] = o[i]
        BY <1>9, <3>2, <4>1
      <4> QED
        BY <4>2 DEF Good
    <3> QED
      BY <3>1, <3>2
  <2> QED
    BY <1>4, <1>9, <2>1, <2>2 DEF Good
<1>11. Fits(q)
  <2>1. Words(1) + Bytes(Live(b)) <= GrSize - 156
    BY <1>2, <1>3 DEF Fits
  <2>2. r \in Record /\ k \in 1 .. Len(r.bufs) /\ b \in Seq(Stored) /\ r.cur \in Nat /\ r.n \in Nat
    BY <1>2, <1>3, <1>4
  <2>3. Fits(Changed(r, k, b, r.cur, r.n))
    BY <2>1, <2>2, ChangedFits
  <2> QED
    BY <1>8, <2>3
<1>12. FilledAt(q, f, 3)
  <2>1. k \in 1 .. q.cur /\ n \in Nat /\ n < Len(Live(p[k])) /\ p[k][n + 1] = Start(3)
    BY <1>2, <1>3, <1>9, <1>20, <1>21
  <2> QED
    BY <2>1 DEF FilledAt, k, n
<1>13. UpTo(p, k - 1) = UpTo(o, k - 1) /\ UpTo(o, k - 1) \in Seq(Entry)
       /\ UpTo(o, k) = UpTo(o, k - 1) \o x /\ UpTo(p, k) = UpTo(o, k - 1) \o y
  <2> DEFINE j == k - 1
  <2>1. j \in Nat /\ j <= j /\ 1 .. j \subseteq 1 .. r.cur /\ j + 1 = k /\ 1 .. j + 1 \subseteq 1 .. r.cur
    BY <1>3, <1>4
  <2>2. Lives(o, r.cur) /\ Lives(p, r.cur)
    BY <1>9, <1>10, GoodLives
  <2>3. Lives(o, j) /\ Lives(p, j) /\ Lives(o, j + 1) /\ Lives(p, j + 1)
    BY <2>1, <2>2 DEF Lives
  <2>4. \A i \in 1 .. j : Live(p[i]) = Live(o[i])
    BY <1>3, <1>4, <1>9, SMTT(30)
  <2> HIDE DEF j, o, p
  <2>5. UpTo(p, j) = UpTo(o, j)
    BY <2>1, <2>3, <2>4, UpToAgree
  <2>6. UpTo(o, j) \in Seq(Entry) /\ UpTo(o, j + 1) = UpTo(o, j) \o Live(o[j + 1]) /\ UpTo(p, j + 1) = UpTo(p, j) \o Live(p[j + 1])
    BY <2>1, <2>3, UpToNext
  <2>7. Live(o[k]) = x /\ Live(p[k]) = y
    BY <1>2, <1>3, <1>9 DEF o, p
  <2> QED
    BY <2>1, <2>5, <2>6, <2>7 DEF j
<1>14. PICK z \in Seq(Entry) : UpTo(o, r.cur) = UpTo(o, k) \o z /\ UpTo(p, r.cur) = UpTo(p, k) \o z
  <2> DEFINE j == r.cur
  <2>1. k \in Nat /\ j \in Nat /\ k <= j
    BY <1>3, <1>4
  <2>2. Lives(o, j) /\ Lives(p, j)
    BY <1>9, <1>10, GoodLives
  <2>3. \A i \in k + 1 .. j : Live(o[i]) = Live(p[i])
    BY <1>3, <1>4, <1>9
  <2> HIDE DEF j, o, p
  <2>4. SameRest(o, p, k, j)
    BY <2>1, <2>2, <2>3, UpToFrom
  <2> QED
    BY <2>4 DEF j, SameRest
<1>15. Entries(r) = UpTo(o, r.cur) /\ Entries(q) = UpTo(p, r.cur)
  BY <1>9, EntriesUpTo
<1> DEFINE u == UpTo(o, k - 1)
           B == u \o h
<1>16. Before(r, f) = B
  BY <1>3 DEF Before, k, n
<1>17. Before(q, f) = B
  <2>1. SubSeq(p[k], 1, n) = h
    <3>1. PICK w \in Seq(Entry) : Parts(q, f, 3, w)
      BY <1>10, <1>12, FilledParts
    <3>2. w = y /\ SubSeq(p[k], 1, n) = SubSeq(w, 1, n)
      BY <1>2, <1>9, <3>1 DEF Parts, k, n
    <3>3. SubSeq(y, 1, n) = h
      <4>1. \A i \in 1 .. n : y[i] = x[i] /\ x[i] \in Entry /\ y[i] \in Entry
        <5> DEFINE m == n + 1
        <5>1. m \in 1 .. Len(x) /\ Start(3) \in Entry /\ y = [x EXCEPT ![m] = Start(3)]
          BY <1>3, <1>5 DEF y
        <5> HIDE DEF m
        <5>2. \A i \in 1 .. Len(x) : y[i] = IF i = m THEN Start(3) ELSE x[i]
          BY <5>1, ExceptSeq
        <5>3. \A i \in 1 .. n : i \in 1 .. Len(x) /\ i # m
          BY <1>3 DEF m
        <5> QED
          BY <1>5, <5>2, <5>3
      <4>2. /\ SubSeq(x, 1, n) \in Seq(Entry) /\ Len(SubSeq(x, 1, n)) = IF 1 <= n THEN n - 1 + 1 ELSE 0
            /\ \A i \in 1 .. n - 1 + 1 : SubSeq(x, 1, n)[i] = x[1 + i - 1]
        BY <1>3, <4>1, SubSeqProperties
      <4>3. /\ SubSeq(y, 1, n) \in Seq(Entry) /\ Len(SubSeq(y, 1, n)) = IF 1 <= n THEN n - 1 + 1 ELSE 0
            /\ \A i \in 1 .. n - 1 + 1 : SubSeq(y, 1, n)[i] = y[1 + i - 1]
        BY <1>3, <4>1, SubSeqProperties
      <4> DEFINE g == SubSeq(y, 1, n)
      <4>4. h \in Seq(Entry) /\ g \in Seq(Entry) /\ Len(h) = n /\ Len(g) = n /\ \A i \in 1 .. n : h[i] = x[i] /\ g[i] = y[i]
        <5> HIDE DEF h, g
        <5> QED
          BY <1>3, <4>2, <4>3 DEF h, g
      <4> HIDE DEF h, g
      <4>5. g = h
        BY <4>1, <4>4, SeqEqual
      <4> QED
        BY <4>5 DEF g
    <3> QED
      BY <3>2, <3>3
  <2> QED
    BY <1>13, <2>1 DEF Before, k, n
<1>18. \E t \in Seq(Entry) : Entries(r) = Append(B, Start(0)) \o t /\ Entries(q) = Append(B, Start(3)) \o t
       /\ Append(B, Start(0)) \in Seq(Entry)
  <2> DEFINE s0 == Start(0)
             s3 == Start(3)
             t == t1 \o z
  <2>1. s0 \in Entry /\ s3 \in Entry /\ u \in Seq(Entry) /\ h \in Seq(Entry)
    BY <1>5, <1>7, <1>13
  <2>2. Entries(r) = (u \o (Append(h, s0) \o t1)) \o z /\ Entries(q) = (u \o (Append(h, s3) \o t1)) \o z
    <3>1. Entries(r) = (u \o x) \o z /\ Entries(q) = (u \o y) \o z
      BY <1>13, <1>14, <1>15
    <3> HIDE DEF u
    <3> QED
      BY <1>3, <1>6, <3>1
  <2> HIDE DEF u, h, s0, s3, o, p
  <2> HIDE DEF B
  <2>5. ASSUME NEW s \in Entry
        PROVE  /\ t1 \o z \in Seq(Entry) /\ Append(u \o h, s) \in Seq(Entry)
               /\ (u \o (Append(h, s) \o t1)) \o z = Append(u \o h, s) \o (t1 \o z)
    <3>1. u \in Seq(Entry) /\ h \in Seq(Entry) /\ s \in Entry /\ t1 \in Seq(Entry) /\ z \in Seq(Entry)
      BY <2>1
    <3>2. Regrouped(u, h, s, t1, z)
      BY <3>1, Regroup
    <3> QED
      BY <3>2 DEF Regrouped
  <2>3. /\ t \in Seq(Entry) /\ Append(u \o h, s0) \in Seq(Entry)
        /\ (u \o (Append(h, s0) \o t1)) \o z = Append(u \o h, s0) \o t
    BY <2>1, <2>5
  <2>4. (u \o (Append(h, s3) \o t1)) \o z = Append(u \o h, s3) \o t
    BY <2>1, <2>5
  <2> HIDE DEF t
  <2> QED
    BY <2>2, <2>3, <2>4 DEF s0, s3, B
<1>19. ASSUME NEW t \in Seq(Entry), Entries(r) = Append(B, Start(0)) \o t PROVE Entries(q) = Append(B, Start(3)) \o t
  <2> DEFINE a == Append(B, Start(0))
  <2>1. PICK t2 \in Seq(Entry) : Entries(r) = a \o t2 /\ Entries(q) = Append(B, Start(3)) \o t2 /\ a \in Seq(Entry)
    BY <1>18
  <2>2. a \o t = a \o t2 /\ a \in Seq(Entry)
    BY <1>19, <2>1
  <2> HIDE DEF a
  <2>3. t = t2
    BY <2>2, ConcatSimplifications
  <2> QED
    BY <2>1, <2>3
<1> HIDE DEF B
<1> QED
  BY <1>10, <1>11, <1>12, <1>16, <1>17, <1>19

-----------------------------------------------------------------------------
(* save_move, and what each writer keeps. *)

\* A move has taken the place of the last entry.
Retold(r, q, e) ==
    /\ last_recorded = "MOVEXY" /\ ~filled.on /\ r.n # 0 /\ Index(r) < GrSize - 300
    /\ q = Replaced(r, Append(SubSeq(r.bufs[r.cur], 1, r.n - 1), e))

LEMMA SaveMoveIs ==
  ASSUME NEW r, Good(r), NEW p, ShortLabels
  PROVE  SaveMove(r, p) = Save(r, <<"MOVEXY", p>>) \/ Retold(r, SaveMove(r, p), <<"MOVEXY", p>>)
<1> DEFINE m == <<"MOVEXY", p>>
           s == SafeToSave(r)
           b == r.bufs[r.cur]
           Over(t) == Index(t) >= Words(3) /\ last_recorded = "MOVEXY" /\ ~filled.on
           F(t) == IF Over(t) THEN Put([t EXCEPT !.n = @ - 1], m) ELSE Put(t, m)
<1>1. SaveMove(r, p) = F(s)
  <2>1. {SafeToSave(t) : t \in {r}} = {s}
    OBVIOUS
  <2>2. SaveMove(r, p) = The({F(t) : t \in {SafeToSave(t) : t \in {r}}})
    BY DEF SaveMove
  <2> HIDE DEF s, F
  <2>3. {F(t) : t \in {s}} = {F(s)}
    OBVIOUS
  <2>4. {F(t) : t \in {SafeToSave(t) : t \in {r}}} = {F(s)}
    BY <2>1, <2>3
  <2> QED
    BY <2>2, <2>4, TheOnly
<1>2. r \in Record /\ r.bufs \in Seq(Seq(Stored)) /\ r.cur \in 1 .. Len(r.bufs) /\ b \in Seq(Entry) /\ r.n = Len(b)
      /\ r.n \in Nat /\ Index(r) = Words(1) + Bytes(b)
  BY IndexIs DEF Good, Record
<1>3. CASE ~Over(s)
  <2>1. F(s) = Put(s, m)
    BY <1>3
  <2> HIDE DEF F, s, m
  <2> QED
    BY <1>1, <2>1, SaveIs DEF s, m
<1>4. CASE Over(s) /\ Index(r) < GrSize - 300
  <2>1. s = r
    BY <1>4 DEF SafeToSave
  <2>2. r.n # 0
    <3>1. Index(r) >= Words(3)
      BY <1>4, <2>1
    <3>2. Bytes(b) # 0
      BY <1>2, <3>1 DEF Words
    <3>3. b # <<>>
      BY <3>2, BytesEmpty
    <3> HIDE DEF b
    <3> QED
      BY <1>2, <3>3, EmptySeq
  <2> DEFINE k == r.n - 1
             r2 == [r EXCEPT !.n = k]
             c == Append(SubSeq(b, 1, k), m)
  <2>3. k \in Nat /\ k + 1 = r.n
    BY <1>2, <2>2
  <2>4. r2 \in Record /\ r2.bufs = r.bufs /\ r2.cur = r.cur /\ r2.n = k
    <3> HIDE DEF k
    <3> QED
      BY <1>2, <2>3 DEF Record
  <2>5. F(s) = Put(r2, m)
    BY <1>4, <2>1
  <2> HIDE DEF r2, m, k, F, s
  <2>6. Put(r2, m) = [bufs |-> [r2.bufs EXCEPT ![r2.cur] = Append(SubSeq(r2.bufs[r2.cur], 1, r2.n), m)],
                      cur |-> r2.cur, n |-> r2.n + 1]
    BY <2>4, PutOf
  <2>7. Put(r2, m) = [bufs |-> [r.bufs EXCEPT ![r.cur] = c], cur |-> r.cur, n |-> k + 1]
    BY <2>4, <2>6
  <2>8. Len(c) = k + 1
    <3>1. \A i \in 1 .. k : b[i] \in Entry \cup {m}
      BY <1>2, <2>3
    <3>2. SubSeq(b, 1, k) \in Seq(Entry \cup {m}) /\ Len(SubSeq(b, 1, k)) = IF 1 <= k THEN k - 1 + 1 ELSE 0
      BY <2>3, <3>1, SubSeqProperties
    <3> DEFINE d == SubSeq(b, 1, k)
               E == Entry \cup {m}
    <3>3. d \in Seq(E) /\ Len(d) = k /\ m \in E
      BY <2>3, <3>2
    <3> HIDE DEF d, E
    <3>4. Len(Append(d, m)) = k + 1
      BY <3>3, AppendProperties
    <3> QED
      BY <3>4 DEF d
  <2>9. Put(r2, m) = Replaced(r, c)
    BY <2>7, <2>8 DEF Replaced
  <2> QED
    BY <1>1, <1>4, <2>2, <2>5, <2>9 DEF Retold, k, m
<1>5. CASE Over(s) /\ ~(Index(r) < GrSize - 300)
  <2>1. s.n = 0
    BY <1>5 DEF SafeToSave
  <2> HIDE DEF s
  <2>2. Index(s) = Words(1) + Bytes(<<>>)
    <3>1. SubSeq(s.bufs[s.cur], 1, s.n) = <<>>
      BY <2>1, SubSeqEmpty
    <3> QED
      BY <3>1 DEF Index
  <2>3. Index(s) = Words(1)
    BY <2>2, BytesEmpty DEF Words
  <2> QED
    BY <1>5, <2>3 DEF Words
<1> HIDE DEF Over
<1> QED
  BY <1>3, <1>4, <1>5

LEMMA RetoldIs ==
  ASSUME NEW r, Good(r), Fits(r), NEW e \in Entry, NEW q, Retold(r, q, e), ShortLabels, BigBuffers
  PROVE  Overwrote(r, q, e) /\ Fits(q)
<1> DEFINE b == r.bufs[r.cur]
           n == r.n
           k == r.n - 1
           d == SubSeq(b, 1, k)
           c == Append(d, e)
           u == UpTo(r.bufs, r.cur - 1)
<1>1. b \in Seq(Entry) /\ n = Len(b) /\ n \in Nat \ {0} /\ k \in Nat /\ k + 1 = n /\ Index(r) = Words(1) + Bytes(b)
      /\ Index(r) < GrSize - 300 /\ q = Replaced(r, c) /\ \A i \in 1 .. n : b[i] \in Entry
  <2>1. b \in Seq(Entry) /\ n = Len(b) /\ n \in Nat \ {0} /\ Index(r) = Words(1) + Bytes(b)
        /\ Index(r) < GrSize - 300 /\ q = Replaced(r, c)
    BY IndexIs DEF Retold, Good
  <2> HIDE DEF b, c, n
  <2> QED
    BY <2>1 DEF n
<1>2. u \in Seq(Entry) /\ Entries(r) = u \o b
  BY EntriesType
<1> HIDE DEF b, u, k, n
<1>3. d \in Seq(Entry) /\ Len(d) = k /\ \A i \in 1 .. k : d[i] = b[i]
  <2>1. \A i \in 1 .. k : b[i] \in Entry
    BY <1>1
  <2>2. d \in Seq(Entry) /\ Len(d) = (IF 1 <= k THEN k - 1 + 1 ELSE 0) /\ \A i \in 1 .. k - 1 + 1 : d[i] = b[1 + i - 1]
    BY <1>1, <2>1, SubSeqProperties
  <2> HIDE DEF d
  <2> QED
    BY <1>1, <2>2
<1>4. b = Append(d, b[n])
  <2> DEFINE a == Append(d, b[n])
  <2>1. a \in Seq(Entry) /\ Len(a) = k + 1 /\ a[k + 1] = b[n] /\ \A i \in 1 .. k : a[i] = d[i]
    <3>1. b[n] \in Entry
      BY <1>1
    <3> HIDE DEF d
    <3> QED
      BY <1>3, <3>1, AppendProperties
  <2> HIDE DEF a, d
  <2>2. \A i \in 1 .. Len(b) : b[i] = a[i]
    <3> TAKE i \in 1 .. Len(b)
    <3>1. i \in 1 .. k \/ i = k + 1
      BY <1>1
    <3> QED
      BY <1>1, <1>3, <2>1, <3>1
  <2>3. b = a
    BY <1>1, <2>1, <2>2, SeqEqual
  <2> QED
    BY <2>3 DEF a
<1> HIDE DEF d
<1>5. c \in Seq(Entry) /\ Len(c) = n /\ c[n] = e
  BY <1>1, <1>3, AppendProperties
<1>6. Good(q) /\ Entries(q) = u \o c /\ q.cur = r.cur /\ q.n = n /\ q.bufs[r.cur] = c
  <2> HIDE DEF c
  <2>1. Good(Replaced(r, c)) /\ Entries(Replaced(r, c)) = UpTo(r.bufs, r.cur - 1) \o c
        /\ Replaced(r, c).cur = r.cur /\ Replaced(r, c).n = Len(c) /\ Replaced(r, c).bufs[r.cur] = c
    BY <1>5, ReplacedIs
  <2> QED
    BY <1>1, <1>5, <2>1 DEF u
<1>7. Entries(q) = Append(u \o d, e) /\ Entries(r) = Append(u \o d, b[n]) /\ b[n] \in Entry /\ u \o d \in Seq(Entry)
  <2>1. b[n] \in Entry
    BY <1>1
  <2>2. u \o Append(d, b[n]) = Append(u \o d, b[n]) /\ u \o Append(d, e) = Append(u \o d, e)
    BY <1>2, <1>3, <2>1, ConcatAppend
  <2>3. u \o d \in Seq(Entry)
    BY <1>2, <1>3, ConcatProperties
  <2> QED
    BY <1>2, <1>4, <1>6, <2>1, <2>2, <2>3
<1>8. ASSUME NEW w \in Seq(Entry), NEW x \in Entry, NEW o, o = Append(w, x)
      PROVE  o # <<>> /\ SubSeq(o, 1, Len(o) - 1) = w
  <2>1. o \in Seq(Entry) /\ o # <<>> /\ Len(o) = Len(w) + 1 /\ Len(w) \in Nat /\ \A i \in 1 .. Len(w) : o[i] = w[i]
    BY <1>8, AppendProperties
  <2> DEFINE l == Len(w)
             v == SubSeq(o, 1, l)
  <2>2. \A i \in 1 .. l : o[i] \in Entry
    BY <2>1
  <2>3. v \in Seq(Entry) /\ Len(v) = (IF 1 <= l THEN l - 1 + 1 ELSE 0) /\ \A i \in 1 .. l - 1 + 1 : v[i] = o[1 + i - 1]
    <3> HIDE DEF l
    <3> QED
      BY <2>1, <2>2, SubSeqProperties DEF l
  <2> HIDE DEF v
  <2>4. v \in Seq(Entry) /\ Len(v) = Len(w) /\ \A i \in 1 .. Len(v) : v[i] = w[i]
    BY <2>1, <2>3
  <2>5. v = w
    BY <2>4, SeqEqual
  <2>6. Len(o) - 1 = l
    BY <2>1
  <2> QED
    BY <2>1, <2>5, <2>6 DEF v
<1>9. Overwrote(r, q, e)
  <2> DEFINE old == Entries(r)
             w == u \o d
  <2>1. w \in Seq(Entry) /\ b[n] \in Entry /\ old = Append(w, b[n])
    BY <1>7
  <2> HIDE DEF old, w
  <2>2. old # <<>> /\ SubSeq(old, 1, Len(old) - 1) = w
    BY <1>8, <2>1
  <2>3. Entries(q) = Append(w, e)
    BY <1>7 DEF w
  <2>4. q.n # 0 /\ q.bufs[q.cur][q.n] = e
    BY <1>1, <1>5, <1>6
  <2> QED
    BY <1>6, <2>2, <2>3, <2>4 DEF Overwrote, old
<1>10. Fits(q)
  <2>1. Bytes(d) \in Nat /\ Bytes(c) \in Nat /\ Bytes(c) <= Bytes(d) + 144
    BY <1>3, BytesAppend
  <2>2. Bytes(d) <= Bytes(b) /\ Bytes(b) \in Nat
    <3>1. b[n] \in Entry
      BY <1>1
    <3>2. Bytes(Append(d, b[n])) \in Nat /\ Bytes(d) <= Bytes(Append(d, b[n]))
      BY <1>3, <3>1, BytesAppend
    <3> QED
      BY <1>4, <3>2
  <2> HIDE DEF c
  <2>3. GrSize \in Nat
    BY TurtleAssumption
  <2>4. Words(1) + Bytes(c) <= GrSize - 156
    BY <1>1, <2>1, <2>2, <2>3 DEF Words
  <2>5. Fits(Replaced(r, c))
    BY <1>5, <2>4, FitsReplaced
  <2> QED
    BY <1>1, <2>5
<1> QED
  BY <1>9, <1>10

\* What holds of the record whatever is drawn.
Solid(r, f) == Good(r) /\ Fits(r) /\ (f.on => FilledAt(r, f, 0))

LEMMA SaveSolid ==
  ASSUME NEW r, NEW f, Solid(r, f), NEW e \in Entry, ShortLabels, BigBuffers
  PROVE  Solid(Save(r, e), f)
<1> DEFINE q == Save(r, e)
<1>1. Good(r) /\ Fits(r)
  BY DEF Solid
<1>2. Wrote(r, q, e) /\ Fits(q)
  BY <1>1, SaveWrites, SaveFits
<1> HIDE DEF q
<1>3. Good(q) /\ Keeps(r, q)
  BY <1>2 DEF Wrote
<1>4. f.on => FilledAt(q, f, 0)
  BY <1>1, <1>3, KeepsFilled DEF Solid
<1> QED
  BY <1>2, <1>3, <1>4 DEF Solid, q

LEMMA SaveMoveSolid ==
  ASSUME NEW STATE r, Solid(r, filled), NEW STATE p, p \in Point, ShortLabels, BigBuffers
  PROVE  Solid(SaveMove(r, p), filled)
<1> DEFINE q == SaveMove(r, p)
           m == <<"MOVEXY", p>>
<1>1. Good(r) /\ Fits(r) /\ m \in Entry
  BY EntryMade DEF Solid
<1>2. q = Save(r, m) \/ Retold(r, q, m)
  BY <1>1, SaveMoveIs
<1> HIDE DEF q, m
<1>3. CASE q = Save(r, m)
  BY <1>1, <1>3, SaveSolid DEF q
<1>4. CASE Retold(r, q, m)
  <2>1. Overwrote(r, q, m) /\ Fits(q) /\ ~filled.on
    BY <1>1, <1>4, RetoldIs DEF Retold
  <2>2. Good(q)
    BY <2>1 DEF Overwrote
  <2> QED
    BY <2>1, <2>2 DEF Solid, q
<1> QED
  BY <1>2, <1>3, <1>4

-----------------------------------------------------------------------------
(* Places and directions. *)

Axis == {<<0, 1>>, <<1, 0>>, <<0, -1>>, <<-1, 0>>}
Goals == {None} \cup [kind : {"forward"}, dir : Axis] \cup [kind : {"setpos"}, to : Point, dir : Axis]

LEMMA CenterType == Center \in Point /\ Left \in Int /\ Right \in Int /\ Top \in Int /\ Bottom \in Int
BY TurtleAssumption DEF Center, Point, Left, Right, Top, Bottom

LEMMA PointIs == ASSUME NEW p \in Point PROVE p[1] \in Int /\ p[2] \in Int /\ p = <<p[1], p[2]>>
BY DEF Point

LEMMA GoalIs ==
  ASSUME NEW g \in Goals, g # None
  PROVE  /\ g.dir \in Axis /\ g.kind \in {"forward", "setpos"} /\ (g.kind # "forward" => g.to \in Point /\ g.kind = "setpos")
BY DEF Goals

LEMMA GoalMade ==
  ASSUME NEW d \in Axis, NEW p \in Point
  PROVE  [kind |-> "forward", dir |-> d] \in Goals /\ [kind |-> "setpos", to |-> p, dir |-> d] \in Goals /\ None \in Goals
BY DEF Goals

LEMMA PlusType == ASSUME NEW p \in Point, NEW k \in Int, NEW d \in Axis PROVE Plus(p, k, d) \in Point
<1>1. p[1] \in Int /\ p[2] \in Int /\ d[1] \in Int /\ d[2] \in Int
  BY PointIs DEF Axis
<1>2. p[1] + k * d[1] \in Int /\ p[2] + k * d[2] \in Int
  BY <1>1
<1> QED
  BY <1>2 DEF Plus, Point

LEMMA SignedType ==
  ASSUME NEW k \in Int, NEW d \in Axis
  PROVE  /\ <<Sign(k) * d[1], Sign(k) * d[2]>> \in Axis
         /\ <<-d[1], -d[2]>> \in Axis
<1> DEFINE Unit(a, b) == (a = 0 /\ b \in {1, -1}) \/ (b = 0 /\ a \in {1, -1})
<1>1. Sign(k) = 1 \/ Sign(k) = -1
  BY DEF Sign
<1>2. d[1] \in Int /\ d[2] \in Int /\ Unit(d[1], d[2])
  BY DEF Axis
<1>3. \A a, b \in Int : Unit(a, b) => <<a, b>> \in Axis
  BY DEF Axis
<1> DEFINE x == d[1]
           y == d[2]
           s == Sign(k)
<1>4. s \in Int /\ x \in Int /\ y \in Int /\ (s = 1 \/ s = -1) /\ Unit(x, y)
  BY <1>1, <1>2
<1> HIDE DEF x, y, s
<1>5. Unit(s * x, s * y) /\ Unit(-x, -y) /\ s * x \in Int /\ s * y \in Int /\ -x \in Int /\ -y \in Int
  BY <1>4
<1> HIDE DEF Unit
<1>6. <<s * x, s * y>> \in Axis /\ <<-x, -y>> \in Axis
  BY <1>3, <1>5
<1> QED
  BY <1>6 DEF s, x, y

LEMMA EdgeType == ASSUME NEW p \in Point, NEW d \in Axis PROVE Edge(p, d) \in Point /\ Opposite(p, d) \in Point
<1>1. ASSUME NEW e \in Axis PROVE Edge(p, e) \in Point
  BY PointIs, CenterType DEF Edge, Point
<1>2. <<-d[1], -d[2]>> \in Axis
  <2>1. 0 \in Int
    OBVIOUS
  <2> QED
    BY <2>1, SignedType
<1> QED
  BY <1>1, <1>2 DEF Opposite

LEMMA ApartType == ASSUME NEW p \in Point, NEW q \in Point PROVE Apart(p, q) \in Nat
BY PointIs DEF Apart, Abs

LEMMA DivBounds ==
  ASSUME NEW a \in Int, NEW w \in Nat \ {0}
  PROVE  a \div w \in Int /\ w * (a \div w) <= a /\ a < w * (a \div w) + w
BY Z3

LEMMA WithinType == ASSUME NEW p \in Point PROVE Within(p) \in Point
<1>1. ASSUME NEW x \in Int, NEW lo \in Int, NEW hi \in Int, NEW w \in Nat \ {0} PROVE Back(x, lo, hi, w) \in Int
  <2> DEFINE a == (x - hi + w - 1) \div w
             b == (lo - x + w - 1) \div w
  <2>1. a \in Int /\ b \in Int
    <3>1. x - hi + w - 1 \in Int /\ lo - x + w - 1 \in Int
      OBVIOUS
    <3> QED
      BY <3>1, DivBounds
  <2> HIDE DEF a, b
  <2>2. x - w * a \in Int /\ x + w * b \in Int
    BY <2>1
  <2> QED
    BY <2>2 DEF Back, a, b
<1>2. p[1] \in Int /\ p[2] \in Int /\ Width \in Nat \ {0} /\ Height \in Nat \ {0}
  BY PointIs, TurtleAssumption
<1>3. Back(p[1], Left, Right, Width) \in Int /\ Back(p[2], Bottom, Top, Height) \in Int
  BY <1>1, <1>2, CenterType
<1> QED
  BY <1>3 DEF Within, Point

LEMMA TowardType == \A a, b : Toward(a, b) \in Axis
BY DEF Toward, Axis

LEMMA DirType == \A h \in {0, 90, 180, 270} : Dir(h) \in Axis
BY DEF Dir, Axis

-----------------------------------------------------------------------------
(* The types of the state, and the shape of the two records. *)

Fillings == {Idle} \cup [on : {TRUE}, old : BOOLEAN, cur : Nat, n : Nat, at : Point, tag : {"", "stray"}]
Pictures ==
    {Idle} \cup [on : {TRUE}, bufs : Seq(Seq(Stored)), n : Nat, drawn : Seq(Items), whole : BOOLEAN, vis : Visibility]

\* The record that a picture file holds.
Picture(f) == [bufs |-> f.bufs, cur |-> Len(f.bufs), n |-> f.n]

PlaceTypes ==
    /\ pos \in Point /\ wanna \in Point /\ dev \in Point /\ spot \in Point /\ heading \in {0, 90, 180, 270}
    /\ mode \in {"wrap", "fence", "window"} /\ out_of_bounds \in BOOLEAN /\ left \in Int /\ goal \in Goals
PenTypes == pen \in PenRecord /\ penmode \in Mode /\ orig_vis \in Visibility /\ drawn \in Seq(Items)
FlagTypes == refresh_p \in BOOLEAN /\ whole \in BOOLEAN /\ sync \in BOOLEAN /\ ops \in 0 .. MaxOps
FillTypes == filled \in Fillings /\ Solid(rec, filled)
FileTypes == file \in Pictures /\ (file.on => Good(Picture(file)) /\ Fits(Picture(file)))
Base == PlaceTypes /\ PenTypes /\ FlagTypes /\ FillTypes /\ FileTypes

LEMMA FillingIs ==
  ASSUME NEW f \in Fillings
  PROVE  /\ f.on \in BOOLEAN
         /\ f.on => f.old \in BOOLEAN /\ f.cur \in Nat /\ f.n \in Nat /\ f.at \in Point /\ f.tag \in {"", "stray"}
         /\ ~f.on => f = Idle
         /\ Idle \in Fillings /\ ~Idle.on
<1>1. Idle \in Fillings /\ ~Idle.on
  BY DEF Fillings, Idle
<1>2. CASE f = Idle
  BY <1>1, <1>2 DEF Idle
<1>3. CASE f # Idle
  BY <1>1, <1>3 DEF Fillings
<1> QED
  BY <1>2, <1>3

LEMMA ReplayIs ==
  ASSUME NEW r, Good(r), NEW v \in Visibility, ShortLabels
  PROVE  Replay(r, v) = Run(Entries(r), v) /\ Replay(r, v) \in State
<1> DEFINE es == Entries(r)
<1>1. es \in Seq(Entry)
  BY EntriesType
<1>2. {Run(x, v) : x \in {es}} = {Run(es, v)}
  OBVIOUS
<1>3. Replay(r, v) = The({Run(x, v) : x \in {es}})
  BY DEF Replay
<1> HIDE DEF es
<1>4. Replay(r, v) = Run(es, v)
  BY <1>2, <1>3, TheOnly
<1> QED
  BY <1>1, <1>4, RunType DEF es

LEMMA EmptyGood ==
  ASSUME NEW r \in Record, Len(r.bufs) # 0, Fits(r), ShortLabels, BigBuffers, NEW q, q = Changed(r, 1, <<>>, 1, 0)
  PROVE  Good(q) /\ Fits(q) /\ Entries(q) = <<>> /\ q.n = 0
<1>1. <<>> \in Seq(Entry) /\ <<>> \in Seq(Stored) /\ Len(<<>>) = 0
  BY EmptySeq
<1>2. 1 \in 1 .. Len(r.bufs) /\ 1 \in Nat /\ 0 \in Nat /\ Len(r.bufs) \in Nat
  BY DEF Record
<1> DEFINE e == <<>>
           one == 1
           zero == 0
<1>3. Live(e) = e /\ Bytes(e) = 0
  BY <1>1, LiveOpen, BytesEmpty
<1>4. e \in Seq(Entry) /\ e \in Seq(Stored) /\ Len(e) = 0 /\ one \in 1 .. Len(r.bufs) /\ one \in Nat /\ zero \in Nat
      /\ q = Changed(r, one, e, one, zero)
  BY <1>1, <1>2
<1> HIDE DEF e, one, zero
<1>5. q \in Record /\ Len(q.bufs) = Len(r.bufs) /\ q.cur = one /\ q.n = zero /\ q.bufs[one] = e
  <2>1. IsChanged(q, r, one, e, one, zero)
    BY <1>4, ChangedIs
  <2> QED
    BY <2>1 DEF IsChanged
<1>6. Good(q)
  <2>1. q.cur - 1 = 0 /\ q.cur \in 1 .. Len(q.bufs)
    BY <1>2, <1>4, <1>5 DEF one
  <2>2. \A i \in 1 .. q.cur - 1 : Closed(q.bufs[i])
    BY <2>1
  <2>3. q.n = Len(q.bufs[q.cur]) /\ q.bufs[q.cur] \in Seq(Entry)
    BY <1>4, <1>5 DEF zero
  <2> QED
    BY <1>5, <2>1, <2>2, <2>3 DEF Good
<1>7. Fits(q)
  <2>1. Words(1) + Bytes(Live(e)) <= GrSize - 156
    BY <1>3, TurtleAssumption DEF Words, BigBuffers
  <2>2. Fits(Changed(r, one, e, one, zero))
    BY <1>4, <2>1, ChangedFits
  <2> QED
    BY <1>4, <2>2
<1>8. Entries(q) = <<>>
  <2>1. Entries(q) = UpTo(q.bufs, q.cur - 1) \o q.bufs[q.cur]
    BY <1>6, EntriesType
  <2>2. UpTo(q.bufs, q.cur - 1) = <<>> /\ q.bufs[q.cur] = <<>>
    BY <1>5, UpToZero DEF one, e
  <2>3. <<>> \o <<>> = <<>>
    BY <1>1, ConcatEmptySeq
  <2> QED
    BY <2>1, <2>2, <2>3
<1> QED
  BY <1>5, <1>6, <1>7, <1>8 DEF zero

LEMMA InitBase == ASSUME ShortLabels, BigBuffers, Init PROVE Base
<1>1. PlaceTypes
  <2>1. None \in Goals /\ 0 \in {0, 90, 180, 270} /\ "wrap" \in {"wrap", "fence", "window"} /\ 0 \in Int
    BY DEF Goals
  <2> QED
    BY <2>1, CenterType DEF Init, PlaceTypes
<1>2. PenTypes
  <2>1. Fresh(0) \in State
    <3>1. 0 \in Visibility
      BY DEF Visibility
    <3> QED
      BY <3>1, FreshType
  <2>2. Fresh(0).pen \in PenRecord
    BY <2>1 DEF State
  <2>3. <<>> \in Seq(Items)
    BY EmptySeq
  <2> QED
    BY <2>2, <2>3 DEF Init, PenTypes, Mode, Visibility
<1>3. FlagTypes
  BY TurtleAssumption DEF Init, FlagTypes
<1>4. FillTypes
  <2>1. rec = EmptyRec /\ filled = Idle
    BY DEF Init
  <2>2. <<>> \in Seq(Entry) /\ <<>> \in Seq(Stored) /\ Len(<<>>) = 0
    BY EmptySeq
  <2> DEFINE b == <<>>
             o == <<b>>
  <2>3. o \in Seq(Seq(Stored)) /\ Len(o) = 1 /\ o[1] = b
    <3>1. b \in Seq(Stored)
      BY <2>2
    <3> HIDE DEF b
    <3> QED
      BY <3>1
  <2>4. rec.bufs = o /\ rec.cur = 1 /\ rec.n = 0 /\ rec = [bufs |-> o, cur |-> 1, n |-> 0]
    BY <2>1 DEF EmptyRec
  <2>5. Live(b) = b /\ Bytes(b) = 0
    BY <2>2, LiveOpen, BytesEmpty
  <2>6. b \in Seq(Entry) /\ Len(b) = 0
    BY <2>2
  <2> HIDE DEF o, b
  <2>7. rec \in Record
    BY <2>3, <2>4 DEF Record
  <2>8. Good(rec)
    <3>0. rec.bufs[rec.cur] = b /\ Len(rec.bufs) = 1
      BY <2>3, <2>4
    <3>1. rec.cur \in 1 .. Len(rec.bufs) /\ rec.n = Len(rec.bufs[rec.cur]) /\ rec.bufs[rec.cur] \in Seq(Entry)
      <4>1. rec.cur \in 1 .. Len(rec.bufs)
        BY <2>4, <3>0
      <4>2. rec.n = Len(rec.bufs[rec.cur])
        BY <2>4, <2>6, <3>0
      <4>3. rec.bufs[rec.cur] \in Seq(Entry)
        BY <2>6, <3>0
      <4> QED
        BY <4>1, <4>2, <4>3
    <3>2. \A i \in 1 .. rec.cur - 1 : Closed(rec.bufs[i])
      BY <2>4
    <3> QED
      BY <2>7, <3>1, <3>2 DEF Good
  <2>9. Fits(rec)
    <3>1. Words(1) + 0 <= GrSize - 156
      BY TurtleAssumption DEF Words, BigBuffers
    <3>2. \A i \in 1 .. 1 : i = 1
      OBVIOUS
    <3>3. ASSUME NEW i \in 1 .. Len(rec.bufs) PROVE Words(1) + Bytes(Live(rec.bufs[i])) <= GrSize - 156
      <4>1. rec.bufs[i] = b
        BY <2>3, <2>4, <3>2
      <4> QED
        BY <2>5, <3>1, <4>1
    <3> QED
      BY <3>3 DEF Fits
  <2>10. filled \in Fillings /\ ~filled.on
    BY <2>1 DEF Fillings, Idle
  <2> QED
    BY <2>8, <2>9, <2>10 DEF FillTypes, Solid
<1>5. FileTypes
  BY DEF Init, FileTypes, Pictures, Idle
<1> QED
  BY <1>1, <1>2, <1>3, <1>4, <1>5 DEF Base

LEMMA LineSolid ==
  ASSUME NEW r, NEW f, Solid(r, f), NEW p \in Point, ShortLabels, BigBuffers PROVE Solid(SaveLine(r, p), f)
BY EntryMade, SaveSolid DEF SaveLine

LEMMA MoveSolid ==
  ASSUME NEW r, NEW f, Solid(r, f), NEW p \in Point, ShortLabels, BigBuffers PROVE Solid(Save(r, <<"MOVEXY", p>>), f)
BY EntryMade, SaveSolid

LEMMA VisSolid ==
  ASSUME NEW r, NEW f, Solid(r, f), NEW p \in PenRecord, ShortLabels, BigBuffers PROVE Solid(SaveVis(r, p), f)
BY EntryMade, PenType, SaveSolid DEF SaveVis

LEMMA ColorSolid ==
  ASSUME NEW r, NEW f, Solid(r, f), NEW p \in PenRecord, ShortLabels, BigBuffers PROVE Solid(SaveColor(r, p), f)
BY EntryMade, PenType, SaveSolid DEF SaveColor

LEMMA SizeSolid ==
  ASSUME NEW r, NEW f, Solid(r, f), NEW p \in PenRecord, ShortLabels, BigBuffers PROVE Solid(SaveSize(r, p), f)
BY EntryMade, PenType, SaveSolid DEF SaveSize

LEMMA ModeSolid ==
  ASSUME NEW r, NEW f, Solid(r, f), NEW p \in PenRecord, NEW m \in Mode, ShortLabels, BigBuffers
  PROVE  Solid(SaveMode(r, p, m), f)
<1>1. Solid(Save(r, <<"SETPENMODE", p.md, m>>), f)
  BY EntryMade, PenType, SaveSolid
<1> QED
  BY <1>1, ColorSolid DEF SaveMode

LEMMA HideSolid ==
  ASSUME NEW r, NEW f, Solid(r, f), ShortLabels, BigBuffers PROVE Solid(Save(r, <<"SETPENVIS", -1>>), f)
<1>1. <<"SETPENVIS", -1>> \in Entry
  BY EntryMade DEF Visibility
<1> QED
  BY <1>1, SaveSolid

LEMMA BegunSolid == ASSUME Base, ShortLabels, BigBuffers PROVE Solid(Begun, filled)
<1>1. Solid(SaveMove(rec, pos), filled) /\ pos \in Point
  BY SaveMoveSolid DEF Base, FillTypes, PlaceTypes
<1> QED
  BY <1>1, LineSolid DEF Begun

LEMMA TailSolid ==
  ASSUME NEW STATE r, Solid(r, filled), NEW STATE b, b \in Point, ShortLabels, BigBuffers
  PROVE  Solid(TailRec(r, b), filled)
BY LineSolid DEF TailRec

LEMMA RecordedSolid ==
  ASSUME Base, NEW ACTION r, NEW ACTION op, Solid(r, filled), Recorded(r, op), filled' = filled
  PROVE  FillTypes'
<1>1. Solid(rec, filled) /\ filled \in Fillings
  BY DEF Base, FillTypes
<1>2. rec' = r \/ rec' = rec
  BY DEF Recorded, record
<1>3. Solid(rec', filled)
  BY <1>1, <1>2
<1> QED
  BY <1>1, <1>3 DEF FillTypes

\* The commands that leave the picture file and the record alone.
LEMMA FileSame == ASSUME Base, UNCHANGED file PROVE FileTypes'
BY DEF Base, FileTypes

LEMMA FillSame == ASSUME Base, UNCHANGED <<rec, filled>> PROVE FillTypes'
BY DEF Base, FillTypes

\* Where a move that goes on, and one that ends, leaves the rest.
LEMMA ArriveTypes ==
  ASSUME Base, goal # None, NEW STATE p, p \in Point, Arrive(p)
  PROVE  goal' \in Goals /\ left' \in Int /\ wanna' \in Point /\ out_of_bounds' \in BOOLEAN
<1>1. goal.kind # "forward" => goal.to \in Point
  BY GoalIs DEF Base, PlaceTypes
<1>2. None \in Goals /\ 0 \in Int
  BY DEF Goals
<1> QED
  BY <1>1, <1>2 DEF Arrive

LEMMA WayTypes ==
  ASSUME Base, goal # None
  PROVE  Target \in Point /\ Way \in Axis /\ Edge(pos, Way) \in Point /\ Opposite(pos, Way) \in Point
<1>1. goal.dir \in Axis /\ pos \in Point /\ left \in Int
  BY GoalIs DEF Base, PlaceTypes
<1>2. Way \in Axis
  BY <1>1, SignedType DEF Way
<1>3. Target \in Point
  BY <1>1, PlusType DEF Target
<1> QED
  BY <1>1, <1>2, <1>3, EdgeType

\* What PENREVERSE draws before a move, the move and what it draws after it.
LEMMA DrawnTypes ==
  ASSUME Base, NEW ACTION a, a \in Seq(Items), NEW ACTION b, b \in Seq(Items), NEW ACTION c, c \in Seq(Items),
         drawn' = drawn \o (a \o b \o c) \/ drawn' = drawn \o (a \o b) \/ drawn' = drawn \o a
  PROVE  drawn' \in Seq(Items)
<1>1. drawn \in Seq(Items)
  BY DEF Base, PenTypes
<1>2. a \o b \in Seq(Items)
  BY ConcatProperties
<1>3. (a \o b) \o c \in Seq(Items)
  BY <1>2, ConcatProperties
<1> QED
  BY <1>1, <1>2, <1>3, ConcatProperties

LEMMA CornerType == ASSUME Base PROVE Corner \in Seq(Items)
<1>1. pos \in Point /\ pen \in PenRecord
  BY DEF Base, PlaceTypes, PenTypes
<1>2. Line(pos, pos, pen, "") \in Seq(Items) /\ <<>> \in Seq(Items)
  BY <1>1, LineType, EmptySeq
<1> QED
  BY <1>2 DEF Corner

LEMMA TailType ==
  ASSUME Base, NEW STATE a, a \in Point, NEW STATE b, b \in Point, NEW t \in {"", "stray"}
  PROVE  TailItem(a, b, t) \in Seq(Items)
<1>1. Line(a, b, pen, t) \in Seq(Items) /\ <<>> \in Seq(Items)
  BY LineType, EmptySeq DEF Base, PenTypes
<1> QED
  BY <1>1 DEF TailItem

LEMMA PenSame == ASSUME Base, UNCHANGED <<pen, penmode, orig_vis>>, drawn' \in Seq(Items) PROVE PenTypes'
BY DEF Base, PenTypes

LEMMA FlagSame == ASSUME Base, UNCHANGED <<refresh_p, whole>>, sync' \in BOOLEAN, ops' = ops \/ Command PROVE FlagTypes'
BY TurtleAssumption DEF Base, FlagTypes, Command

LEMMA DrawBase == ASSUME Base, Draw, ShortLabels, BigBuffers PROVE Base'
<1>1. goal # None /\ Target \in Point /\ pos \in Point /\ pen \in PenRecord /\ sync \in BOOLEAN
  BY WayTypes DEF Draw, Base, PlaceTypes, PenTypes, FlagTypes
<1>2. UNCHANGED <<heading, mode, pen, penmode, orig_vis, refresh_p, filled, file, whole, ops>>
  BY DEF Draw, RestOfMove, other
<1>3. PlaceTypes'
  <2>1. pos' = Target /\ dev' = Target /\ spot' = Target
    BY DEF Draw, Moved
  <2>2. goal' \in Goals /\ left' \in Int /\ wanna' \in Point /\ out_of_bounds' \in BOOLEAN
    BY <1>1, ArriveTypes DEF Draw
  <2> QED
    BY <1>1, <1>2, <2>1, <2>2 DEF PlaceTypes, Base
<1>4. PenTypes'
  <2>1. drawn' = drawn \o (Corner \o Line(pos, Target, pen, "") \o TailItem(Target, Target, ""))
    BY DEF Draw, Moved
  <2>2. Corner \in Seq(Items) /\ Line(pos, Target, pen, "") \in Seq(Items) /\ TailItem(Target, Target, "") \in Seq(Items)
    BY <1>1, CornerType, LineType, TailType
  <2>3. drawn' \in Seq(Items)
    BY <2>1, <2>2, DrawnTypes
  <2> QED
    BY <1>2, <2>3, PenSame
<1>5. FlagTypes'
  <2>1. sync' \in BOOLEAN
    BY <1>1 DEF Draw
  <2> QED
    BY <1>2, <2>1, FlagSame
<1>6. FillTypes'
  <2>1. Solid(Begun, filled)
    BY BegunSolid
  <2>2. Solid(SaveLine(Begun, Target), filled)
    BY <1>1, <2>1, LineSolid
  <2>3. Solid(TailRec(SaveLine(Begun, Target), Target), filled)
    BY <1>1, <2>2, TailSolid
  <2> QED
    BY <1>2, <2>3, RecordedSolid DEF Draw
<1> QED
  BY <1>2, <1>3, <1>4, <1>5, <1>6, FileSame DEF Base

LEMMA JumpBase == ASSUME Base, Jump, ShortLabels, BigBuffers PROVE Base'
<1>1. goal # None /\ Opposite(pos, Way) \in Point /\ pos \in Point /\ left \in Int /\ wanna \in Point
      /\ out_of_bounds \in BOOLEAN /\ goal \in Goals
  BY WayTypes DEF Jump, Base, PlaceTypes
<1>2. UNCHANGED <<heading, mode, pen, penmode, orig_vis, refresh_p, filled, file, whole, ops, goal, wanna, out_of_bounds>>
      /\ left' = left
  BY DEF Jump, RestOfMove, other, Onward
<1>3. PlaceTypes'
  <2>1. pos' = Opposite(pos, Way) /\ dev' = Opposite(pos, Way) /\ spot' = pos
    BY DEF Jump, Moved
  <2> QED
    BY <1>1, <1>2, <2>1 DEF PlaceTypes, Base
<1>4. PenTypes'
  <2>1. drawn' = drawn \o Corner /\ Corner \in Seq(Items) /\ drawn \in Seq(Items)
    BY CornerType DEF Jump, Moved, Base, PenTypes
  <2>2. drawn' \in Seq(Items)
    BY <2>1, ConcatProperties
  <2> QED
    BY <1>2, <2>2, PenSame
<1>5. FlagTypes'
  <2>1. sync' \in BOOLEAN
    BY DEF Jump
  <2> QED
    BY <1>2, <2>1, FlagSame
<1>6. FillTypes'
  <2>1. Solid(Begun, filled)
    BY BegunSolid
  <2> QED
    BY <1>2, <2>1, RecordedSolid DEF Jump
<1> QED
  BY <1>2, <1>3, <1>4, <1>5, <1>6, FileSame DEF Base

\* What Cross does, with the names that it gives.
Crossed(e, p, k, r) ==
    /\ Moved(p, IF k = 0 /\ Flips /\ left < 0 THEN p ELSE e,
             Corner \o Line(pos, e, pen, "stray") \o (IF k = 0 THEN TailItem(e, p, "stray") ELSE <<>>))
    /\ spot' = IF k = 0 /\ Flips /\ left < 0 THEN p ELSE e
    /\ Recorded(IF k = 0 THEN TailRec(r, p) ELSE r, "LINEXY")
    /\ IF k = 0 THEN Arrive(p) ELSE Onward(k)
    /\ sync' = IF k = 0 THEN (sync /\ mode = "wrap") \/ goal.kind = "forward" ELSE sync
CrossTo == IF mode = "wrap" THEN Opposite(pos, Way) ELSE Edge(pos, Way)
CrossLeft == IF mode = "wrap" THEN left - Sign(left) * (Apart(pos, Edge(pos, Way)) + 1) ELSE 0

LEMMA CrossIs == ASSUME Cross PROVE Crossed(Edge(pos, Way), CrossTo, CrossLeft, SaveLine(Begun, pos)) /\ RestOfMove
BY DEF Cross, Crossed, CrossTo, CrossLeft

LEMMA CrossBase == ASSUME Base, Cross, ShortLabels, BigBuffers PROVE Base'
<1> DEFINE e == Edge(pos, Way)
           p == CrossTo
           k == CrossLeft
           r == SaveLine(Begun, pos)
<1>1. goal # None /\ e \in Point /\ p \in Point /\ pos \in Point /\ left \in Int /\ wanna \in Point
      /\ out_of_bounds \in BOOLEAN /\ goal \in Goals /\ pen \in PenRecord /\ sync \in BOOLEAN
  BY WayTypes DEF Cross, CrossTo, Base, PlaceTypes, PenTypes, FlagTypes
<1>2. Crossed(e, p, k, r) /\ RestOfMove
  BY CrossIs
<1>3. UNCHANGED <<heading, mode, pen, penmode, orig_vis, refresh_p, filled, file, whole, ops>>
  BY <1>2 DEF RestOfMove, other
<1>4. k \in Int
  <2>1. Apart(pos, e) \in Nat
    BY <1>1, ApartType
  <2> HIDE DEF e
  <2>2. Sign(left) \in {-1, 1}
    BY DEF Sign
  <2> QED
    BY <1>1, <2>1, <2>2 DEF CrossLeft, e
<1>5. Solid(r, filled)
  BY <1>1, BegunSolid, LineSolid
<1> HIDE DEF e, p, k, r
<1>6. PlaceTypes'
  <2>1. pos' = p /\ dev' \in {p, e} /\ spot' \in {p, e}
    BY <1>2 DEF Crossed, Moved
  <2>2. goal' \in Goals /\ left' \in Int /\ wanna' \in Point /\ out_of_bounds' \in BOOLEAN
    <3>1. CASE k = 0
      <4>1. Arrive(p)
        BY <1>2, <3>1 DEF Crossed
      <4> QED
        BY <1>1, <4>1, ArriveTypes
    <3>2. CASE k # 0
      BY <1>1, <1>2, <1>4, <3>2 DEF Crossed, Onward
    <3> QED
      BY <3>1, <3>2
  <2> QED
    BY <1>1, <1>3, <2>1, <2>2 DEF PlaceTypes, Base
<1>7. PenTypes'
  <2> DEFINE t == IF k = 0 THEN TailItem(e, p, "stray") ELSE <<>>
             l == Line(pos, e, pen, "stray")
  <2>1. drawn' = drawn \o (Corner \o l \o t)
    BY <1>2 DEF Crossed, Moved
  <2>2. Corner \in Seq(Items) /\ l \in Seq(Items) /\ TailItem(e, p, "stray") \in Seq(Items) /\ <<>> \in Seq(Items)
    BY <1>1, CornerType, LineType, TailType, EmptySeq
  <2>3. t \in Seq(Items)
    BY <2>2
  <2> HIDE DEF t, l
  <2>4. drawn' \in Seq(Items)
    BY <2>1, <2>2, <2>3, DrawnTypes
  <2> QED
    BY <1>3, <2>4, PenSame
<1>8. FlagTypes'
  <2>1. sync' \in BOOLEAN
    BY <1>1, <1>2 DEF Crossed
  <2> QED
    BY <1>3, <2>1, FlagSame
<1>9. FillTypes'
  <2> DEFINE q == IF k = 0 THEN TailRec(r, p) ELSE r
  <2>1. Solid(TailRec(r, p), filled)
    BY <1>1, <1>5, TailSolid
  <2>2. Solid(q, filled) /\ Recorded(q, "LINEXY")
    BY <1>2, <1>5, <2>1 DEF Crossed
  <2> HIDE DEF q
  <2> QED
    BY <1>3, <2>2, RecordedSolid
<1> QED
  BY <1>3, <1>6, <1>7, <1>8, <1>9, FileSame DEF Base

LEMMA InterruptedBase == ASSUME Base, Interrupted, ShortLabels, BigBuffers PROVE Base'
<1>1. goal # None /\ pos \in Point /\ drawn \in Seq(Items) /\ filled \in Fillings
  BY DEF Interrupted, Base, PlaceTypes, PenTypes, FillTypes
<1>2. UNCHANGED <<pos, drawn, heading, mode, pen, penmode, orig_vis, refresh_p, filled, file, whole, ops>>
  BY DEF Interrupted, RestOfMove, other
<1>3. PlaceTypes'
  <2>1. dev' = pos /\ spot' = pos
    BY DEF Interrupted
  <2>2. goal' \in Goals /\ left' \in Int /\ wanna' \in Point /\ out_of_bounds' \in BOOLEAN
    BY <1>1, ArriveTypes DEF Interrupted
  <2> QED
    BY <1>1, <1>2, <2>1, <2>2 DEF PlaceTypes, Base
<1>4. PenTypes'
  BY <1>1, <1>2, PenSame
<1>5. FlagTypes'
  <2>1. sync' \in BOOLEAN
    BY DEF Interrupted
  <2> QED
    BY <1>2, <2>1, FlagSame
<1>6. FillTypes'
  <2>1. Solid(SaveMove(rec, pos), filled)
    BY <1>1, SaveMoveSolid DEF Base, FillTypes
  <2> QED
    BY <1>2, <2>1, RecordedSolid DEF Interrupted
<1> QED
  BY <1>2, <1>3, <1>4, <1>5, <1>6, FileSame DEF Base

LEMMA TurnBase == ASSUME Base, RightTurn \/ Forward \/ Window PROVE Base'
<1>1. UNCHANGED <<pos, wanna, out_of_bounds, device, record, other, whole, sync>> /\ Command
  BY DEF RightTurn, Forward, Window, place
<1>2. PlaceTypes'
  <2>1. heading \in {0, 90, 180, 270} => (heading + 90) % 360 \in {0, 90, 180, 270}
    OBVIOUS
  <2>2. CASE RightTurn
    BY <2>1, <2>2 DEF RightTurn, Base, PlaceTypes, going, device
  <2>3. CASE Window
    BY <2>3 DEF Window, Base, PlaceTypes, going, device
  <2>4. CASE Forward
    <3>1. Dir(heading) \in Axis
      BY DirType DEF Base, PlaceTypes
    <3>2. goal' \in Goals
      BY <2>4, <3>1, GoalMade, CenterType DEF Forward
    <3>3. left' \in Int
      BY <2>4, TurtleAssumption DEF Forward
    <3> QED
      BY <2>4, <3>2, <3>3 DEF Forward, Base, PlaceTypes, place, device
  <2> QED
    BY <2>2, <2>3, <2>4
<1>3. PenTypes'
  BY <1>1 DEF Base, PenTypes, device
<1>4. FlagTypes'
  <2>1. sync' \in BOOLEAN
    BY <1>1 DEF Base, FlagTypes
  <2> QED
    BY <1>1, <2>1, FlagSame DEF other
<1> QED
  BY <1>1, <1>2, <1>3, <1>4, FillSame, FileSame DEF Base, other, record

LEMMA ItemMore ==
  ASSUME Base, NEW STATE w, w \in What, NEW STATE t, t \in {"", "stray"}, drawn' = drawn \o Item(w, t)
  PROVE  drawn' \in Seq(Items)
<1>1. Item(w, t) \in Seq(Items) /\ drawn \in Seq(Items)
  BY ItemType DEF Base, PenTypes
<1> QED
  BY <1>1, ConcatProperties

LEMMA TagType == \A b \in BOOLEAN : Tag(b) \in {"", "stray"}
BY DEF Tag

\* One round of setpos_helper, whichever of the three it is.
LEMMA SetPosBase ==
  ASSUME Base, NEW to \in Point, Command, SetPos(to), UNCHANGED <<pen, penmode, orig_vis, other, whole>>, ShortLabels, BigBuffers
  PROVE  Base'
<1>1. /\ pos \in Point /\ drawn \in Seq(Items) /\ sync \in BOOLEAN /\ wanna \in Point /\ heading \in {0, 90, 180, 270}
      /\ mode \in {"wrap", "fence", "window"} /\ out_of_bounds \in BOOLEAN /\ left \in Int /\ goal \in Goals
      /\ Solid(rec, filled)
  BY DEF Base, PlaceTypes, PenTypes, FlagTypes, FillTypes
<1>2. UNCHANGED <<pen, penmode, orig_vis, refresh_p, filled, file, whole>>
  BY DEF other
<1>3. CASE mode = "fence" /\ ~Inside(to)
  <2>1. dev' = pos /\ spot' = pos /\ UNCHANGED <<place, going, record, drawn, sync>>
    BY <1>3 DEF SetPos
  <2>2. PlaceTypes'
    BY <1>1, <2>1 DEF PlaceTypes, place, going
  <2>3. PenTypes' /\ FlagTypes'
    BY <1>1, <1>2, <2>1, PenSame, FlagSame
  <2> QED
    BY <1>2, <2>1, <2>2, <2>3, FillSame, FileSame DEF Base, record
<1>4. CASE ~(mode = "fence" /\ ~Inside(to)) /\ mode = "wrap" /\ (~Inside(to) \/ out_of_bounds)
  <2>1. /\ goal' = [kind |-> "setpos", to |-> to, dir |-> Toward(wanna, to)]
        /\ left' = Apart(wanna, to) /\ dev' = pos /\ spot' = pos
        /\ UNCHANGED <<place, record, drawn, sync>>
    BY <1>4 DEF SetPos
  <2>2. goal' \in Goals
    BY <2>1, GoalMade, TowardType
  <2>3. left' \in Int
    BY <1>1, <2>1, ApartType
  <2>4. PlaceTypes'
    BY <1>1, <2>1, <2>2, <2>3 DEF PlaceTypes, place
  <2>5. PenTypes' /\ FlagTypes'
    BY <1>1, <1>2, <2>1, PenSame, FlagSame
  <2> QED
    BY <1>2, <2>1, <2>4, <2>5, FillSame, FileSame DEF Base, record
<1>5. CASE ~(mode = "fence" /\ ~Inside(to)) /\ ~(mode = "wrap" /\ (~Inside(to) \/ out_of_bounds))
  <2>1. /\ out_of_bounds' = FALSE /\ wanna' = to /\ pos' = to /\ dev' = to /\ spot' = to
        /\ drawn' = drawn \o Line(pos, to, pen, Tag(RecDev = pos))
        /\ Recorded(SaveLine(rec, to), "LINEXY")
        /\ sync' = TRUE
        /\ UNCHANGED <<heading, mode, going>>
    BY <1>5 DEF SetPos
  <2>2. PlaceTypes'
    BY <1>1, <2>1 DEF PlaceTypes, going
  <2>3. drawn' \in Seq(Items)
    <3>1. Tag(RecDev = pos) \in {"", "stray"}
      BY TagType
    <3>2. Line(pos, to, pen, Tag(RecDev = pos)) \in Seq(Items)
      BY <1>1, <3>1, LineType DEF Base, PenTypes
    <3> QED
      BY <1>1, <2>1, <3>2, ConcatProperties
  <2>4. PenTypes' /\ FlagTypes'
    BY <1>1, <1>2, <2>1, <2>3, PenSame, FlagSame
  <2>5. FillTypes'
    BY <1>1, <1>2, <2>1, LineSolid, RecordedSolid
  <2> QED
    BY <1>2, <2>2, <2>4, <2>5, FileSame DEF Base
<1> QED
  BY <1>3, <1>4, <1>5

LEMMA SetXYBase == ASSUME Base, SetXY, ShortLabels, BigBuffers PROVE Base'
<1>1. Command /\ UNCHANGED <<pen, penmode, orig_vis, other, whole>>
  BY DEF SetXY
<1>2. \A k \in Int : <<k, pos[2]>> \in Point /\ <<pos[1], k>> \in Point
  <2>1. pos[1] \in Int /\ pos[2] \in Int
    BY PointIs DEF Base, PlaceTypes
  <2> QED
    BY <2>1 DEF Point
<1>3. PICK to \in Point : SetPos(to)
  <2>1. CASE \E x \in Xs : SetPos(<<x, pos[2]>>)
    BY <1>2, <2>1, TurtleAssumption
  <2>2. CASE \E y \in Ys : SetPos(<<pos[1], y>>)
    BY <1>2, <2>2, TurtleAssumption
  <2> QED
    BY <2>1, <2>2 DEF SetXY
<1> QED
  BY <1>1, <1>3, SetPosBase

LEMMA HomeBase == ASSUME Base, Home, ShortLabels, BigBuffers PROVE Base'
<1>1. /\ pos \in Point /\ Center \in Point /\ drawn \in Seq(Items) /\ Solid(rec, filled)
      /\ mode \in {"wrap", "fence", "window"} /\ left \in Int /\ goal \in Goals /\ pen \in PenRecord
  BY CenterType DEF Base, PlaceTypes, PenTypes, FillTypes
<1>2. UNCHANGED <<mode, goal, left, pen, penmode, orig_vis, refresh_p, filled, file, whole>>
  BY DEF Home, other, going
<1>3. PlaceTypes'
  BY <1>1, <1>2 DEF Home, PlaceTypes
<1>4. PenTypes'
  <2>1. Line(pos, Center, pen, Tag(RecDev = pos)) \in Seq(Items)
    BY <1>1, TagType, LineType
  <2>2. drawn' \in Seq(Items)
    BY <1>1, <2>1, ConcatProperties DEF Home
  <2> QED
    BY <1>2, <2>2, PenSame
<1>5. FlagTypes'
  BY <1>2, FlagSame DEF Home
<1>6. FillTypes'
  BY <1>1, <1>2, LineSolid, RecordedSolid DEF Home
<1> QED
  BY <1>2, <1>3, <1>4, <1>5, <1>6, FileSame DEF Base

LEMMA EncloseBase == ASSUME Base, Enclose PROVE Base'
<1>1. UNCHANGED <<heading, wanna, out_of_bounds, going, pen, penmode, orig_vis, drawn, record, other, whole>> /\ Command
  BY DEF Enclose
<1>2. PlaceTypes'
  <2>1. Within(pos) \in Point
    BY WithinType DEF Base, PlaceTypes
  <2> QED
    BY <1>1, <2>1 DEF Enclose, Base, PlaceTypes, going
<1>3. PenTypes'
  BY <1>1 DEF Base, PenTypes
<1>4. FlagTypes'
  <2>1. sync' \in BOOLEAN
    BY DEF Base, FlagTypes, Enclose
  <2> QED
    BY <1>1, <2>1, FlagSame DEF other
<1> QED
  BY <1>1, <1>2, <1>3, <1>4, FillSame, FileSame DEF Base, other, record

\* The record that ARC leaves.
Hide(r) == Save(r, <<"SETPENVIS", -1>>)
Show(r) == SaveVis(r, pen)
ArcStart == Show(SaveLine(Hide(rec), Up(pos)))
ArcMiddle == Show(SaveLine(Hide(SaveArc(ArcStart, pos)), pos))
ArcRecord == Show(SaveLine(Save(Hide(ArcMiddle), <<"MOVEXY", pos>>), pos))

LEMMA ArcIs == ASSUME Arc PROVE Recorded(ArcRecord, "SETPENVIS")
BY DEF Arc, ArcRecord, ArcMiddle, ArcStart, Hide, Show

LEMMA ArcSolid == ASSUME Base, ShortLabels, BigBuffers PROVE Solid(ArcRecord, filled)
<1>1. Solid(rec, filled) /\ pos \in Point /\ Up(pos) \in Point /\ pen \in PenRecord
  BY AroundType DEF Base, FillTypes, PlaceTypes, PenTypes
<1>2. Solid(SaveLine(Hide(rec), Up(pos)), filled)
  BY <1>1, HideSolid, LineSolid DEF Hide
<1>3. Solid(ArcStart, filled)
  BY <1>1, <1>2, VisSolid DEF ArcStart, Show
<1>4. Solid(SaveArc(ArcStart, pos), filled)
  BY <1>1, <1>3, EntryMade, SaveSolid DEF SaveArc
<1>5. Solid(SaveLine(Hide(SaveArc(ArcStart, pos)), pos), filled)
  BY <1>1, <1>4, HideSolid, LineSolid DEF Hide
<1>6. Solid(ArcMiddle, filled)
  BY <1>1, <1>5, VisSolid DEF ArcMiddle, Show
<1>7. Solid(Save(Hide(ArcMiddle), <<"MOVEXY", pos>>), filled)
  BY <1>1, <1>6, HideSolid, MoveSolid DEF Hide
<1> QED
  BY <1>1, <1>7, LineSolid, VisSolid DEF ArcRecord, Show

LEMMA ArcBase == ASSUME Base, Arc, ShortLabels, BigBuffers PROVE Base'
<1>1. UNCHANGED <<heading, mode, out_of_bounds, pos, going, pen, penmode, orig_vis, other, whole>> /\ Command
  BY DEF Arc
<1>2. PlaceTypes'
  BY <1>1 DEF Arc, Base, PlaceTypes, going
<1>3. PenTypes'
  <2>1. DoArc(pos, pen, FALSE) \in Seq(Items) /\ drawn \in Seq(Items)
    BY DoArcType DEF Base, PlaceTypes, PenTypes
  <2>2. drawn' \in Seq(Items)
    BY <2>1, ConcatProperties DEF Arc
  <2> QED
    BY <1>1, <2>2, PenSame
<1>4. FlagTypes'
  BY <1>1, FlagSame DEF Arc, other
<1>5. FillTypes'
  BY <1>1, ArcIs, ArcSolid, RecordedSolid DEF other
<1> QED
  BY <1>1, <1>2, <1>3, <1>4, <1>5, FileSame DEF Base, other

LEMMA PlacementBase ==
  ASSUME Base, Command, Placement, pen' \in PenRecord, penmode' \in Mode, drawn' \in Seq(Items),
         NEW ACTION r, NEW ACTION op, Solid(r, filled), Recorded(r, op)
  PROVE  Base'
<1>1. UNCHANGED <<place, going, dev, spot, orig_vis, refresh_p, filled, file, whole, sync>>
  BY DEF Placement, other
<1>2. PlaceTypes'
  BY <1>1 DEF Base, PlaceTypes, place, going
<1>3. PenTypes'
  BY <1>1 DEF Base, PenTypes
<1>4. FlagTypes'
  <2>1. sync' \in BOOLEAN
    BY <1>1 DEF Base, FlagTypes
  <2> QED
    BY <1>1, <2>1, FlagSame
<1>5. FillTypes'
  BY <1>1, RecordedSolid
<1> QED
  BY <1>1, <1>2, <1>3, <1>4, <1>5, FileSame DEF Base

LEMMA PenChange ==
  ASSUME NEW p \in PenRecord
  PROVE  /\ \A v \in Visibility : [p EXCEPT !.vis = v] \in PenRecord
         /\ \A m \in Mode : [p EXCEPT !.md = m] \in PenRecord
         /\ \A m \in Mode : \A v \in Visibility : [p EXCEPT !.md = m, !.vis = v] \in PenRecord
         /\ [p EXCEPT !.color = IF @ = 7 THEN 4 ELSE 7] \in PenRecord
         /\ [p EXCEPT !.size = 3 - @] \in PenRecord
<1>1. p.color \in Int /\ p.size \in Int /\ 4 \in Int /\ 7 \in Int /\ 3 - p.size \in Int
  BY DEF PenRecord
<1>2. \A c \in Int : [p EXCEPT !.color = c] \in PenRecord /\ [p EXCEPT !.size = c] \in PenRecord
  BY DEF PenRecord
<1>3. [p EXCEPT !.color = IF @ = 7 THEN 4 ELSE 7] \in PenRecord
  BY <1>1, <1>2
<1>4. [p EXCEPT !.size = 3 - @] \in PenRecord
  BY <1>1, <1>2
<1>5. \A v \in Visibility : [p EXCEPT !.vis = v] \in PenRecord
  BY DEF PenRecord
<1>6. \A m \in Mode : [p EXCEPT !.md = m] \in PenRecord
  BY DEF PenRecord
<1>7. \A m \in Mode : \A v \in Visibility : [p EXCEPT !.md = m, !.vis = v] \in PenRecord
  BY DEF PenRecord
<1> QED
  BY <1>3, <1>4, <1>5, <1>6, <1>7

LEMMA PenUpDownBase == ASSUME Base, PenUpDown, ShortLabels, BigBuffers PROVE Base'
<1>1. pen \in PenRecord /\ penmode \in Mode /\ drawn \in Seq(Items) /\ Solid(rec, filled)
  BY DEF Base, PenTypes, FillTypes
<1>2. pen' \in PenRecord /\ Recorded(SaveVis(rec, pen'), "SETPENVIS") /\ Command /\ Placement
      /\ penmode' = penmode /\ drawn' = drawn
  BY <1>1, PenChange DEF PenUpDown, Visibility
<1>3. Solid(SaveVis(rec, pen'), filled)
  BY <1>1, <1>2, VisSolid
<1> QED
  BY <1>1, <1>2, <1>3, PlacementBase

LEMMA PenModeBase == ASSUME Base, PenMode, ShortLabels, BigBuffers PROVE Base'
<1>1. pen \in PenRecord /\ penmode \in Mode /\ drawn \in Seq(Items) /\ Solid(rec, filled) /\ 0 \in Visibility
  BY DEF Base, PenTypes, FillTypes, Visibility
<1>2. PICK m \in Mode : /\ penmode' = m /\ pen' = [pen EXCEPT !.md = m, !.vis = 0]
                        /\ Recorded(SaveVis(SaveMode(rec, [pen EXCEPT !.md = m], m), pen'), "SETPENVIS")
  BY DEF PenMode, Mode
<1>3. Command /\ Placement /\ drawn' = drawn
  BY DEF PenMode
<1>4. pen' \in PenRecord /\ [pen EXCEPT !.md = m] \in PenRecord
  BY <1>1, <1>2, PenChange
<1>5. Solid(SaveMode(rec, [pen EXCEPT !.md = m], m), filled)
  BY <1>1, <1>4, ModeSolid
<1>6. Solid(SaveVis(SaveMode(rec, [pen EXCEPT !.md = m], m), pen'), filled)
  BY <1>4, <1>5, VisSolid
<1> QED
  BY <1>1, <1>2, <1>3, <1>4, <1>6, PlacementBase

LEMMA PenLookBase == ASSUME Base, SetPenColor \/ SetPenSize, ShortLabels, BigBuffers PROVE Base'
<1>1. pen \in PenRecord /\ penmode \in Mode /\ drawn \in Seq(Items) /\ Solid(rec, filled)
  BY DEF Base, PenTypes, FillTypes
<1>2. pen' \in PenRecord /\ Command /\ Placement /\ penmode' = penmode /\ drawn' = drawn
  BY <1>1, PenChange DEF SetPenColor, SetPenSize
<1>3. Solid(SaveColor(rec, pen'), filled) /\ Solid(SaveSize(rec, pen'), filled)
  BY <1>1, <1>2, ColorSolid, SizeSolid
<1>4. Recorded(SaveColor(rec, pen'), "SETPENCOLOR") \/ Recorded(SaveSize(rec, pen'), "SETPENSIZE")
  BY DEF SetPenColor, SetPenSize
<1> QED
  BY <1>1, <1>2, <1>3, <1>4, PlacementBase

LEMMA LabelBase == ASSUME Base, Label, ShortLabels, BigBuffers PROVE Base'
<1>1. pen \in PenRecord /\ penmode \in Mode /\ drawn \in Seq(Items) /\ Solid(rec, filled) /\ dev \in Point
  BY DEF Base, PenTypes, FillTypes, PlaceTypes
<1>2. Command /\ Placement /\ pen' = pen /\ penmode' = penmode
  BY DEF Label
<1>3. PICK len \in LabelLens : Recorded(SaveString(rec, len), "LABEL")
  BY DEF Label
<1>4. Solid(SaveString(rec, len), filled)
  BY <1>1, EntryMade, SaveSolid DEF SaveString
<1>5. drawn' \in Seq(Items)
  <2>1. <<"label", dev, Ink(pen)>> \in What
    BY <1>1, PenType, WhatMade
  <2>2. Tag(RecDev = dev) \in {"", "stray"}
    BY TagType
  <2> QED
    BY <2>1, <2>2, ItemMore DEF Label
<1> QED
  BY <1>1, <1>2, <1>3, <1>4, <1>5, PlacementBase

LEMMA FillBase == ASSUME Base, Fill, ShortLabels, BigBuffers PROVE Base'
<1>1. pen \in PenRecord /\ penmode \in Mode /\ Solid(rec, filled) /\ spot \in Point /\ pos \in Point
  BY DEF Base, PenTypes, FillTypes, PlaceTypes
<1>2. Command /\ Placement /\ pen' = pen /\ penmode' = penmode
  BY DEF Fill
<1>3. Recorded(Save(SaveMove(rec, pos), <<"FILLERUP">>), "FILLERUP")
  BY DEF Fill
<1>4. Solid(Save(SaveMove(rec, pos), <<"FILLERUP">>), filled)
  <2>1. Solid(SaveMove(rec, pos), filled)
    BY <1>1, SaveMoveSolid
  <2> QED
    BY <2>1, EntryMade, SaveSolid
<1>5. drawn' \in Seq(Items)
  <2>1. <<"fill", spot, pen.color>> \in What
    BY <1>1, PenType, WhatMade
  <2>2. Tag(RecDev = pos /\ spot = pos /\ last_recorded # "MOVEXY") \in {"", "stray"}
    BY TagType
  <2> QED
    BY <2>1, <2>2, ItemMore DEF Fill
<1> QED
  BY <1>1, <1>2, <1>3, <1>4, <1>5, PlacementBase

\* STARTFILL is the entry after the ones that were there.
LEMMA StartedIs ==
  ASSUME NEW r, Good(r), Fits(r), NEW f, f.on = TRUE, f.cur = SafeToSave(r).cur, f.n = SafeToSave(r).n, ShortLabels, BigBuffers
  PROVE  Solid(Save(r, Start(0)), f) /\ f.cur \in Nat /\ f.n \in Nat
<1> DEFINE q == Save(r, Start(0))
           s == SafeToSave(r)
<1>1. Start(0) \in Entry
  <2>1. 0 \in Int
    OBVIOUS
  <2> QED
    BY <2>1, EntryMade, Zenon DEF Start
<1>2. Wrote(r, q, Start(0)) /\ Fits(q)
  BY <1>1, SaveWrites, SaveFits
<1>3. q = Put(s, Start(0))
  BY SaveIs
<1>4. q.cur = s.cur /\ q.n = s.n + 1 /\ s.n \in Nat
  <2>2. s = r \/ (s.cur = r.cur + 1 /\ s.n = 0 /\ \E b : s = [bufs |-> b, cur |-> r.cur + 1, n |-> 0])
    BY DEF SafeToSave
  <2>3. r = [bufs |-> r.bufs, cur |-> r.cur, n |-> r.n] /\ r.n \in Nat
    BY DEF Good, Record
  <2>4. \E b, c, n : s = [bufs |-> b, cur |-> c, n |-> n] /\ n \in Nat
    BY <2>2, <2>3
  <2>5. PICK b, c, n : s = [bufs |-> b, cur |-> c, n |-> n] /\ n \in Nat
    BY <2>4
  <2> HIDE DEF q, s
  <2> QED
    BY <1>3, <2>5, PutIs
<1> HIDE DEF q, s
<1>5. Good(q) /\ q.bufs[q.cur][q.n] = Start(0)
  BY <1>2 DEF Wrote
<1>6. FilledAt(q, f, 0)
  <2>1. q.cur \in Nat \ {0} /\ Live(q.bufs[q.cur]) = q.bufs[q.cur] /\ q.n = Len(q.bufs[q.cur])
    BY <1>5, GoodLives DEF Good
  <2> QED
    BY <1>4, <1>5, <2>1 DEF FilledAt, s
<1> QED
  BY <1>2, <1>4, <1>5, <1>6 DEF Solid, Good, Record, s, q

LEMMA MarkedIs ==
  ASSUME NEW r, Good(r), NEW f, FilledAt(r, f, 0)
  PROVE  [r EXCEPT !.bufs[f.cur][f.n + 1][2] = 3] = MarkOf(r, f)
<1> DEFINE k == f.cur
           i == f.n + 1
           o == r.bufs
<1>1. r = [bufs |-> o, cur |-> r.cur, n |-> r.n] /\ o[k][i] = Start(0)
  BY DEF Good, Record, FilledAt
<1>2. [Start(0) EXCEPT ![2] = 3] = Start(3)
  BY DEF Start
<1>3. [r EXCEPT !.bufs[k][i][2] = 3] = [r EXCEPT !.bufs[k][i] = [o[k][i] EXCEPT ![2] = 3]]
  OBVIOUS
<1>4. [r EXCEPT !.bufs[k][i] = Start(3)] = [bufs |-> [o EXCEPT ![k] = [o[k] EXCEPT ![i] = Start(3)]], cur |-> r.cur, n |-> r.n]
  <2> HIDE DEF o
  <2> QED
    BY <1>1
<1> QED
  BY <1>1, <1>2, <1>3, <1>4 DEF MarkOf, Changed

CutOf(r, f) == Changed(r, f.cur, SubSeq(r.bufs[f.cur], 1, f.n), f.cur, f.n)

LEMMA CutBackIs == ASSUME NEW r \in Record PROVE CutBack(r) = CutOf(r, filled)
<1> DEFINE x == [r.bufs EXCEPT ![filled.cur] = SubSeq(r.bufs[filled.cur], 1, filled.n)]
<1>1. CutBack(r) = [r EXCEPT !.bufs = x, !.cur = filled.cur, !.n = filled.n]
  BY DEF CutBack
<1> HIDE DEF x
<1>2. CutBack(r) = [bufs |-> x, cur |-> filled.cur, n |-> filled.n]
  BY <1>1 DEF Record
<1> QED
  BY <1>2 DEF x, CutOf, Changed

Done == Save(MarkOf(rec, filled), <<"ENDFILL">>)
DoneRight ==
    /\ Good(Done) /\ Fits(Done) /\ Wrote(MarkOf(rec, filled), Done, <<"ENDFILL">>)
    /\ FilledAt(Done, filled, 3) /\ Before(Done, filled) = Before(rec, filled)
    /\ Save([rec EXCEPT !.bufs[filled.cur][filled.n + 1][2] = 3], <<"ENDFILL">>) = Done

LEMMA DoneIs == ASSUME Base, filled.on, ShortLabels, BigBuffers PROVE DoneRight
<1> DEFINE m == MarkOf(rec, filled)
<1>1. Good(rec) /\ Fits(rec) /\ FilledAt(rec, filled, 0)
  BY DEF Base, FillTypes, Solid
<1>2. Good(m) /\ Fits(m) /\ FilledAt(m, filled, 3) /\ Before(m, filled) = Before(rec, filled)
  BY <1>1, MarkIs
<1>3. <<"ENDFILL">> \in Entry
  BY EntryMade
<1>4. Save([rec EXCEPT !.bufs[filled.cur][filled.n + 1][2] = 3], <<"ENDFILL">>) = Done
  BY <1>1, MarkedIs DEF Done
<1> HIDE DEF m
<1>5. Wrote(m, Done, <<"ENDFILL">>) /\ Fits(Done)
  BY <1>2, <1>3, SaveWrites, SaveFits DEF Done, m
<1>6. Good(Done) /\ Keeps(m, Done)
  BY <1>5 DEF Wrote
<1>7. FilledAt(Done, filled, 3) /\ Before(Done, filled) = Before(m, filled)
  BY <1>2, <1>6, KeepsFilled
<1> QED
  BY <1>2, <1>4, <1>5, <1>6, <1>7 DEF DoneRight, m

CutRight(r, q, f) == Good(q) /\ Fits(q) /\ Entries(q) = Before(r, f)

LEMMA CutBackRight ==
  ASSUME NEW STATE r, Good(r), Fits(r), NEW c, FilledAt(r, filled, c), ShortLabels
  PROVE  CutRight(r, CutBack(r), filled)
<1>1. CutBack(r) = CutOf(r, filled)
  BY CutBackIs DEF Good
<1>2. Good(CutOf(r, filled)) /\ Fits(CutOf(r, filled)) /\ Entries(CutOf(r, filled)) = Before(r, filled)
  BY CutIs DEF CutOf
<1> QED
  BY <1>1, <1>2 DEF CutRight

LEMMA PointsType == ASSUME Base, filled.on, ShortLabels, BigBuffers PROVE Points(Done) = <<filled.at>> \o Visited(Since(Done)) /\ Points(Done) \in Seq(Point)
<1>1. DoneRight
  BY DoneIs
<1>2. CutRight(Done, CutBack(Done), filled)
  BY <1>1, CutBackRight DEF DoneRight
<1>3. Entries(CutBack(Done)) \in Seq(Entry) /\ Entries(Done) \in Seq(Entry)
  BY <1>1, <1>2, EntriesType DEF CutRight, DoneRight
<1>4. Since(Done) \in Seq(Entry)
  <2> DEFINE es == Entries(Done)
             k == Len(Entries(CutBack(Done)))
  <2>1. es \in Seq(Entry) /\ k \in Nat
    BY <1>3
  <2> HIDE DEF es, k
  <2>2. SubSeq(es, k + 1, Len(es)) \in Seq(Entry)
    BY <2>1
  <2> QED
    BY <2>2 DEF Since, es, k
<1>5. Visited(Since(Done)) \in Seq(Point) /\ filled.at \in Point
  BY <1>4, VisitedType, FillingIs DEF Base, FillTypes
<1>6. {Visited(es) : es \in {Since(Done)}} = {Visited(Since(Done))}
  OBVIOUS
<1>7. Points(Done) = <<filled.at>> \o Visited(Since(Done))
  BY <1>6, TheOnly DEF Points
<1>8. <<filled.at>> \in Seq(Point)
  BY <1>5, One
<1> QED
  BY <1>5, <1>7, <1>8, ConcatProperties

LEMMA StartFilledBase == ASSUME Base, StartFilled, ShortLabels, BigBuffers PROVE Base'
<1> DEFINE f == filled'
<1>1. Good(rec) /\ Fits(rec) /\ refresh_p \in BOOLEAN /\ pos \in Point
  BY DEF Base, FillTypes, Solid, FlagTypes, PlaceTypes
<1>2. /\ rec' = Put(SafeToSave(rec), <<"STARTFILL", 0>>)
      /\ f = [on |-> TRUE, old |-> refresh_p, cur |-> SafeToSave(rec).cur, n |-> SafeToSave(rec).n,
              at |-> pos, tag |-> Tag(RecDev = pos /\ RecDev = Replay(rec, 0).last)]
      /\ UNCHANGED <<place, going, device, file, whole, sync>> /\ refresh_p' = TRUE /\ Command
  BY DEF StartFilled
<1>3. f.on = TRUE /\ f.cur = SafeToSave(rec).cur /\ f.n = SafeToSave(rec).n
  BY <1>2
<1>4. rec' = Save(rec, Start(0))
  BY <1>2, SaveIs DEF Start
<1> HIDE DEF f
<1>5. Solid(rec', f) /\ f.cur \in Nat /\ f.n \in Nat
  BY <1>1, <1>3, <1>4, StartedIs
<1>6. f \in Fillings
  <2>1. Tag(RecDev = pos /\ RecDev = Replay(rec, 0).last) \in {"", "stray"}
    BY TagType
  <2> QED
    BY <1>1, <1>2, <1>3, <1>5, <2>1 DEF Fillings
<1>7. PlaceTypes' /\ PenTypes'
  BY <1>2 DEF Base, PlaceTypes, PenTypes, place, going, device
<1>8. FlagTypes'
  BY <1>2, TurtleAssumption DEF Base, FlagTypes, Command
<1> QED
  BY <1>2, <1>5, <1>6, <1>7, <1>8, FileSame DEF Base, FillTypes, f

LEMMA EndFilledBase == ASSUME Base, EndFilled, ShortLabels, BigBuffers PROVE Base'
<1>1. filled.on /\ filled.old \in BOOLEAN /\ filled.tag \in {"", "stray"}
  BY FillingIs DEF EndFilled, Base, FillTypes
<1>2. DoneRight
  BY <1>1, DoneIs
<1>3. /\ rec' = IF filled.old THEN Done ELSE CutBack(Done)
      /\ drawn' = drawn \o Item(<<"polygon", Points(Done), 3, Ink(pen)>>, filled.tag)
      /\ refresh_p' = filled.old /\ filled' = Idle /\ Command
      /\ UNCHANGED <<place, going, pen, penmode, dev, spot, orig_vis, file, whole, sync>>
  <2>1. Save([rec EXCEPT !.bufs[filled.cur][filled.n + 1][2] = 3], <<"ENDFILL">>) = Done
    BY <1>2 DEF DoneRight
  <2> QED
    BY <2>1 DEF EndFilled
<1>4. CutRight(Done, CutBack(Done), filled)
  BY <1>2, CutBackRight DEF DoneRight
<1>5. Solid(rec', filled') /\ filled' \in Fillings
  BY <1>2, <1>3, <1>4, FillingIs DEF DoneRight, CutRight, Solid, Fillings
<1>6. drawn' \in Seq(Items)
  <2>1. <<"polygon", Points(Done), 3, Ink(pen)>> \in What
    <3>1. Points(Done) \in Seq(Point) /\ Ink(pen) \in InkRecord
      BY <1>1, PointsType, PenType DEF Base, PenTypes
    <3> QED
      BY <3>1, WhatMade
  <2> QED
    BY <1>1, <1>3, <2>1, ItemMore
<1>7. PlaceTypes' /\ PenTypes'
  BY <1>3, <1>6 DEF Base, PlaceTypes, PenTypes, place, going
<1>8. FlagTypes'
  <2>1. refresh_p' \in BOOLEAN
    BY <1>1, <1>3, Zenon
  <2> QED
    BY <1>3, <2>1, TurtleAssumption DEF Base, FlagTypes, Command
<1> QED
  BY <1>3, <1>5, <1>7, <1>8, FileSame DEF Base, FillTypes

LEMMA BreakFilledBase == ASSUME Base, BreakFilled, ShortLabels, BigBuffers PROVE Base'
<1>1. filled.on /\ filled.old \in BOOLEAN /\ Good(rec) /\ Fits(rec) /\ FilledAt(rec, filled, 0)
  BY FillingIs DEF BreakFilled, Base, FillTypes, Solid
<1>2. CutRight(rec, CutBack(rec), filled)
  BY <1>1, CutBackRight
<1>3. /\ rec' = rec \/ rec' = CutBack(rec)
      /\ refresh_p' = filled.old /\ filled' = Idle /\ whole' = FALSE /\ Command
      /\ UNCHANGED <<place, going, device, last_recorded, file, sync>>
  BY DEF BreakFilled
<1>4. Solid(rec', filled') /\ filled' \in Fillings
  BY <1>1, <1>2, <1>3, FillingIs DEF CutRight, Solid, Fillings
<1>5. PlaceTypes' /\ PenTypes'
  BY <1>3 DEF Base, PlaceTypes, PenTypes, place, going, device
<1>6. FlagTypes'
  <2>1. refresh_p' \in BOOLEAN
    BY <1>1, <1>3, Zenon
  <2> QED
    <3>1. whole' \in BOOLEAN /\ sync' \in BOOLEAN
      BY <1>3, Zenon DEF Base, FlagTypes
    <3>2. ops' \in 0 .. MaxOps
      BY <1>3, TurtleAssumption DEF Base, FlagTypes, Command
    <3> QED
      BY <2>1, <3>1, <3>2 DEF FlagTypes
<1> QED
  BY <1>3, <1>4, <1>5, <1>6, FileSame DEF Base, FillTypes

\* A record with the entries of another one.
SameEntries(q, r) == Good(q) /\ Fits(q) /\ Entries(q) = Entries(r)

LEMMA SameBuffers ==
  ASSUME NEW r, Good(r), NEW q \in Record, q.cur = r.cur, q.n = r.n, Len(q.bufs) >= r.cur, Fits(q),
         \A i \in 1 .. r.cur : q.bufs[i] = r.bufs[i]
  PROVE  SameEntries(q, r)
<1> DEFINE k == r.cur
<1>1. k \in Nat /\ k \in 1 .. k /\ Lives(r.bufs, k) /\ Len(q.bufs) \in Nat
  BY GoodLives DEF Record
<1>2. q.bufs[k] = r.bufs[k] /\ k \in 1 .. Len(q.bufs) /\ q.cur = k
  BY <1>1
<1>3. \A i \in 1 .. k - 1 : Closed(q.bufs[i])
  BY <1>1 DEF Good
<1> HIDE DEF k
<1>4. Good(q)
  BY <1>2, <1>3 DEF Good, k
<1>5. Entries(q) = Entries(r)
  <2>1. Lives(q.bufs, k)
    BY <1>2, <1>4, GoodLives
  <2>2. \A i \in 1 .. k : Live(r.bufs[i]) = Live(q.bufs[i])
    BY DEF k
  <2>3. k <= k
    BY <1>1
  <2>4. UpTo(r.bufs, k) = UpTo(q.bufs, k)
    BY <1>1, <2>1, <2>2, <2>3, UpToAgree
  <2> QED
    BY <1>2, <2>4, EntriesUpTo DEF k
<1> QED
  BY <1>4, <1>5 DEF SameEntries

LEMMA SavedIs ==
  ASSUME NEW r, Good(r), Fits(r), NEW q, q = [bufs |-> SubSeq(r.bufs, 1, r.cur), cur |-> r.cur, n |-> r.n]
  PROVE  SameEntries(q, r) /\ Len(q.bufs) = r.cur
<1> DEFINE o == r.bufs
           k == r.cur
           b == SubSeq(o, 1, k)
<1>1. o \in Seq(Seq(Stored)) /\ k \in 1 .. Len(o) /\ k \in Nat /\ r.n \in Nat
  BY GoodLives DEF Good, Record
<1>2. b \in Seq(Seq(Stored)) /\ Len(b) = k /\ \A i \in 1 .. k : b[i] = o[i]
  <2> HIDE DEF o, k
  <2> QED
    BY <1>1
<1>3. q.bufs = b /\ q.cur = k /\ q.n = r.n /\ q = [bufs |-> b, cur |-> k, n |-> r.n]
  OBVIOUS
<1> HIDE DEF b
<1>4. q \in Record
  BY <1>1, <1>2, <1>3 DEF Record
<1>5. Fits(q)
  <2>1. ASSUME NEW i \in 1 .. Len(q.bufs) PROVE Words(1) + Bytes(Live(q.bufs[i])) <= GrSize - 156
    <3>1. i \in 1 .. k /\ i \in 1 .. Len(o) /\ q.bufs[i] = o[i]
      BY <1>1, <1>2, <1>3
    <3> QED
      BY <3>1 DEF Fits
  <2> QED
    BY <2>1 DEF Fits
<1>6. \A i \in 1 .. r.cur : q.bufs[i] = r.bufs[i]
  BY <1>2, <1>3
<1>7. Len(q.bufs) >= r.cur /\ Len(q.bufs) = r.cur
  BY <1>1, <1>2, <1>3
<1> QED
  BY <1>3, <1>4, <1>5, <1>6, <1>7, SameBuffers

LEMMA LoadedIs ==
  ASSUME NEW r, Good(r), Fits(r), NEW p, Good(p), Fits(p), p.cur = Len(p.bufs),
         NEW q, q = [bufs |-> p.bufs \o SubSeq(r.bufs, p.cur + 1, Len(r.bufs)), cur |-> p.cur, n |-> p.n]
  PROVE  SameEntries(q, p)
<1> DEFINE o == r.bufs
           a == p.bufs
           k == p.cur
           c == SubSeq(o, k + 1, Len(o))
           b == a \o c
<1>1. o \in Seq(Seq(Stored)) /\ a \in Seq(Seq(Stored)) /\ k = Len(a) /\ k \in Nat /\ p.n \in Nat /\ Len(o) \in Nat
  BY GoodLives DEF Good, Record
<1>2. c \in Seq(Seq(Stored)) /\ \A i \in 1 .. Len(c) : k + i \in 1 .. Len(o) /\ c[i] = o[k + i]
  <2> HIDE DEF o, k
  <2> QED
    BY <1>1
<1> HIDE DEF o, c, k, a
<1>3. b \in Seq(Seq(Stored)) /\ Len(b) = k + Len(c) /\ Len(c) \in Nat
      /\ \A i \in 1 .. Len(b) : b[i] = IF i <= k THEN a[i] ELSE c[i - k]
  BY <1>1, <1>2, ConcatProperties
<1> HIDE DEF b
<1>4. q.bufs = b /\ q.cur = k /\ q.n = p.n /\ q = [bufs |-> b, cur |-> k, n |-> p.n]
  BY DEF b, a, c, o, k
<1>5. q \in Record
  BY <1>1, <1>3, <1>4 DEF Record
<1>6. Fits(q)
  <2>1. ASSUME NEW i \in 1 .. Len(b) PROVE Words(1) + Bytes(Live(b[i])) <= GrSize - 156
    <3>1. i \in Int /\ i >= 1 /\ i <= k + Len(c) /\ b[i] = IF i <= k THEN a[i] ELSE c[i - k]
      BY <1>1, <1>3
    <3>2. CASE i <= k
      <4>1. b[i] = a[i] /\ i \in 1 .. Len(a)
        BY <1>1, <3>1, <3>2
      <4> QED
        BY <4>1 DEF Fits, a
    <3>3. CASE i > k
      <4> DEFINE j == i - k
      <4>1. j \in 1 .. Len(c) /\ b[i] = c[j]
        BY <1>1, <1>3, <3>1, <3>3
      <4> HIDE DEF j
      <4>2. k + j \in 1 .. Len(o) /\ b[i] = o[k + j]
        BY <1>2, <4>1
      <4> QED
        BY <4>2 DEF Fits, o
    <3> QED
      BY <1>1, <3>1, <3>2, <3>3
  <2> QED
    BY <1>4, <2>1 DEF Fits
<1>7. \A i \in 1 .. p.cur : q.bufs[i] = p.bufs[i]
  <2>1. \A i \in 1 .. k : b[i] = a[i]
    BY <1>1, <1>3
  <2> QED
    BY <1>4, <2>1 DEF a, k
<1>8. Len(q.bufs) >= p.cur /\ q.cur = p.cur
  <2>1. Len(b) >= k
    BY <1>1, <1>3
  <2> QED
    BY <1>4, <2>1 DEF k
<1> QED
  BY <1>4, <1>5, <1>6, <1>7, <1>8, SameBuffers

\* The record that CLEAN begins with, entry after entry.
Clean0 == Changed(rec, 1, <<>>, 1, 0)
Clean1(p) == IF p = Center THEN Clean0 ELSE Save(Clean0, <<"MOVEXY", p>>)
Clean2(p) == IF Vis(pen) THEN Clean1(p) ELSE SaveVis(Clean1(p), pen)
Clean3(p) == IF penmode = "PAINT" THEN Clean2(p) ELSE SaveMode(Clean2(p), pen, penmode)
Clean4(p) == IF pen.color = 7 THEN Clean3(p) ELSE SaveColor(Clean3(p), pen)
Clean5(p) == IF pen.size = 1 THEN Clean4(p) ELSE SaveSize(Clean4(p), pen)

LEMMA EmptiedIs == ASSUME NEW r \in Record PROVE [r EXCEPT !.bufs[1] = <<>>, !.cur = 1, !.n = 0] = Changed(r, 1, <<>>, 1, 0)
<1> DEFINE x == [r.bufs EXCEPT ![1] = <<>>]
<1>1. [r EXCEPT !.bufs[1] = <<>>, !.cur = 1, !.n = 0] = [r EXCEPT !.bufs = x, !.cur = 1, !.n = 0]
  OBVIOUS
<1> HIDE DEF x
<1>2. ASSUME NEW q, q = [r EXCEPT !.bufs = x, !.cur = 1, !.n = 0] PROVE q = [bufs |-> x, cur |-> 1, n |-> 0]
  BY <1>2 DEF Record
<1>3. [r EXCEPT !.bufs = x, !.cur = 1, !.n = 0] = [bufs |-> x, cur |-> 1, n |-> 0]
  BY <1>2
<1> QED
  BY <1>1, <1>3 DEF x, Changed

LEMMA CleanIs == ASSUME Base PROVE \A p : CleanRec(p) = Clean5(p)
<1>1. [rec EXCEPT !.bufs[1] = <<>>, !.cur = 1, !.n = 0] = Clean0
  BY EmptiedIs DEF Base, FillTypes, Solid, Good, Clean0
<1> QED
  BY <1>1 DEF CleanRec, Clean1, Clean2, Clean3, Clean4, Clean5

LEMMA CleanEmpty == ASSUME Base, ShortLabels, BigBuffers PROVE Good(Clean0) /\ Fits(Clean0) /\ Entries(Clean0) = <<>> /\ Clean0.n = 0
<1>1. rec \in Record /\ Fits(rec) /\ Len(rec.bufs) # 0
  BY DEF Base, FillTypes, Solid, Good
<1> QED
  BY <1>1, EmptyGood DEF Clean0

LEMMA CleanSolid ==
  ASSUME Base, ~filled.on, NEW p \in Point, ShortLabels, BigBuffers
  PROVE  Solid(Clean0, filled) /\ Solid(Clean5(p), filled)
<1>1. pen \in PenRecord /\ penmode \in Mode
  BY DEF Base, PenTypes
<1>2. Solid(Clean0, filled)
  BY CleanEmpty DEF Solid
<1>3. Solid(Clean1(p), filled)
  BY <1>2, MoveSolid DEF Clean1
<1>4. Solid(Clean2(p), filled)
  BY <1>1, <1>3, VisSolid DEF Clean2
<1>5. Solid(Clean3(p), filled)
  BY <1>1, <1>4, ModeSolid DEF Clean3
<1>6. Solid(Clean4(p), filled)
  BY <1>1, <1>5, ColorSolid DEF Clean4
<1>7. Solid(Clean5(p), filled)
  BY <1>1, <1>6, SizeSolid DEF Clean5
<1> QED
  BY <1>2, <1>7

LEMMA ClearBase == ASSUME Base, Clear, ShortLabels, BigBuffers PROVE Base'
<1>1. /\ pos \in Point /\ wanna \in Point /\ dev \in Point /\ spot \in Point /\ heading \in {0, 90, 180, 270}
      /\ out_of_bounds \in BOOLEAN /\ sync \in BOOLEAN /\ pen \in PenRecord /\ refresh_p \in BOOLEAN
      /\ rec \in Record /\ Center \in Point /\ filled \in Fillings
  BY CenterType DEF Base, PlaceTypes, PenTypes, FlagTypes, FillTypes, Solid, Good
<1>2. /\ Command /\ ~filled.on /\ drawn' = <<>> /\ orig_vis' = pen.vis
      /\ UNCHANGED <<mode, goal, left, pen, penmode, refresh_p, filled, file>>
      /\ rec' = CleanRec(pos') \/ rec' = [rec EXCEPT !.bufs[1] = <<>>, !.cur = 1, !.n = 0]
      /\ whole' = (refresh_p /\ penmode = pen.md)
  BY DEF Clear, going, other
<1>3. /\ pos' \in Point /\ wanna' \in Point /\ dev' \in Point /\ spot' \in Point /\ heading' \in {0, 90, 180, 270}
      /\ out_of_bounds' \in BOOLEAN /\ sync' \in BOOLEAN
  <2>1. \/ /\ pos' = Center /\ wanna' = Center /\ heading' = 0 /\ out_of_bounds' = FALSE
           /\ dev' = Center /\ spot' = Center /\ sync' = TRUE
        \/ UNCHANGED <<pos, wanna, heading, out_of_bounds, dev, spot, sync>>
    BY DEF Clear
  <2>2. out_of_bounds' \in BOOLEAN /\ sync' \in BOOLEAN
    BY <1>1, <2>1, Zenon
  <2>3. 0 \in {0, 90, 180, 270}
    OBVIOUS
  <2>4. pos' \in Point /\ wanna' \in Point /\ dev' \in Point /\ spot' \in Point /\ heading' \in {0, 90, 180, 270}
    <3>1. CASE UNCHANGED <<pos, wanna, heading, out_of_bounds, dev, spot, sync>>
      BY <1>1, <3>1
    <3>2. CASE pos' = Center /\ wanna' = Center /\ heading' = 0 /\ dev' = Center /\ spot' = Center
      BY <1>1, <2>3, <3>2
    <3> QED
      BY <2>1, <3>1, <3>2, Zenon
  <2> QED
    BY <2>2, <2>4
<1>4. PlaceTypes'
  BY <1>2, <1>3 DEF Base, PlaceTypes
<1>5. PenTypes'
  <2>1. drawn' \in Seq(Items) /\ orig_vis' \in Visibility
    BY <1>1, <1>2, PenType, EmptySeq
  <2> QED
    BY <1>2, <2>1 DEF Base, PenTypes
<1>6. FlagTypes'
  <2>1. refresh_p' \in BOOLEAN /\ whole' \in BOOLEAN
    BY <1>1, <1>2
  <2> QED
    BY <1>2, <1>3, <2>1, TurtleAssumption DEF Base, FlagTypes, Command
<1>7. FillTypes'
  <2>1. rec' = Clean5(pos') \/ rec' = Clean0
    BY <1>1, <1>2, CleanIs, EmptiedIs DEF Clean0
  <2>2. Solid(Clean0, filled) /\ Solid(Clean5(pos'), filled)
    BY <1>2, <1>3, CleanSolid
  <2> QED
    BY <1>1, <1>2, <2>1, <2>2 DEF FillTypes
<1> QED
  BY <1>2, <1>4, <1>5, <1>6, <1>7, FileSame DEF Base

LEMMA RefreshBase == ASSUME Base, Refresh PROVE Base'
<1>1. UNCHANGED <<place, going, device, record, filled, file, sync>> /\ Command
  BY DEF Refresh
<1>2. PlaceTypes' /\ PenTypes'
  BY <1>1 DEF Base, PlaceTypes, PenTypes, place, going, device
<1>3. FlagTypes'
  <2>1. refresh_p' \in BOOLEAN /\ whole' \in BOOLEAN
    BY DEF Refresh
  <2> QED
    BY <1>1, <2>1, TurtleAssumption DEF Base, FlagTypes, Command
<1> QED
  BY <1>1, <1>2, <1>3, FillSame, FileSame DEF Base, record

\* What a redraw of a good record leaves.
LEMMA RedrawTypes ==
  ASSUME Base, NEW ACTION r, Good(r), Redraw(r), ShortLabels
  PROVE  /\ drawn' \in Seq(Items) /\ spot' \in Point /\ penmode' \in Mode
         /\ wanna' \in Point /\ out_of_bounds' \in BOOLEAN /\ sync' \in BOOLEAN
<1>1. orig_vis \in Visibility /\ drawn \in Seq(Items) /\ spot \in Point /\ penmode \in Mode /\ wanna \in Point
      /\ out_of_bounds \in BOOLEAN /\ sync \in BOOLEAN
  BY DEF Base, PenTypes, PlaceTypes, FlagTypes
<1>2. Replay(r, orig_vis) \in State
  BY <1>1, ReplayIs
<1>3. CASE refresh_p
  <2> DEFINE s == Replay(r, orig_vis)
  <2>1. drawn' = s.out /\ spot' = s.spot /\ penmode' = s.imode /\ wanna' = s.wanna /\ out_of_bounds' = FALSE /\ sync' = FALSE
    BY <1>3 DEF Redraw
  <2> HIDE DEF s
  <2>2. s.out \in Seq(Items) /\ s.spot \in Point /\ s.imode \in Mode /\ s.wanna \in Point
    BY <1>2 DEF s, State
  <2> QED
    BY <2>1, <2>2
<1>4. CASE ~refresh_p
  BY <1>1, <1>4 DEF Redraw
<1> QED
  BY <1>3, <1>4

LEMMA SetBackgroundBase == ASSUME Base, SetBackground, ShortLabels PROVE Base'
<1>1. UNCHANGED <<pos, heading, mode, going, pen, dev, orig_vis, record, other, whole>> /\ Command /\ Redraw(rec)
  BY DEF SetBackground
<1>2. /\ drawn' \in Seq(Items) /\ spot' \in Point /\ penmode' \in Mode
      /\ wanna' \in Point /\ out_of_bounds' \in BOOLEAN /\ sync' \in BOOLEAN
  BY <1>1, RedrawTypes DEF Base, FillTypes, Solid
<1>3. PlaceTypes' /\ PenTypes'
  BY <1>1, <1>2 DEF Base, PlaceTypes, PenTypes, going
<1>4. FlagTypes'
  BY <1>1, <1>2, FlagSame DEF other
<1> QED
  BY <1>1, <1>3, <1>4, FillSame, FileSame DEF Base, record, other

LEMMA SavePictBase == ASSUME Base, SavePict PROVE Base'
<1> DEFINE f == file'
           q == [bufs |-> SubSeq(rec.bufs, 1, rec.cur), cur |-> rec.cur, n |-> rec.n]
<1>1. /\ f = [on |-> TRUE, bufs |-> SubSeq(rec.bufs, 1, rec.cur), n |-> rec.n,
              drawn |-> drawn, whole |-> whole, vis |-> orig_vis]
      /\ UNCHANGED <<place, going, device, record, refresh_p, filled, whole, sync>> /\ Command
  BY DEF SavePict
<1>2. Good(rec) /\ Fits(rec)
  BY DEF Base, FillTypes, Solid
<1>3. SameEntries(q, rec) /\ Len(q.bufs) = rec.cur
  BY <1>2, SavedIs
<1>4. Picture(f) = q
  BY <1>1, <1>3 DEF Picture
<1>5. q.bufs \in Seq(Seq(Stored)) /\ q.n \in Nat /\ q.bufs = SubSeq(rec.bufs, 1, rec.cur) /\ q.n = rec.n
  BY <1>3 DEF SameEntries, Good, Record
<1> HIDE DEF q, f
<1>6. f \in Pictures
  <2>1. drawn \in Seq(Items) /\ whole \in BOOLEAN /\ orig_vis \in Visibility
    BY DEF Base, PenTypes, FlagTypes
  <2> QED
    BY <1>1, <1>5, <2>1 DEF Pictures
<1>7. FileTypes'
  BY <1>3, <1>4, <1>6 DEF FileTypes, SameEntries, f
<1>8. PlaceTypes' /\ PenTypes'
  BY <1>1 DEF Base, PlaceTypes, PenTypes, place, going, device
<1>9. FlagTypes'
  BY <1>1, TurtleAssumption DEF Base, FlagTypes, Command
<1> QED
  BY <1>1, <1>7, <1>8, <1>9, FillSame DEF Base, record

LEMMA LoadRight ==
  ASSUME Base, LoadPict
  PROVE  SameEntries(rec', Picture(file)) /\ Redraw(Picture(file)) /\ Good(Picture(file))
<1> DEFINE p == Picture(file)
<1>1. Good(rec) /\ Fits(rec) /\ Good(p) /\ Fits(p)
  BY DEF Base, FillTypes, FileTypes, Solid, LoadPict
<1>2. p.bufs = file.bufs /\ p.cur = Len(file.bufs) /\ p.n = file.n /\ p.cur = Len(p.bufs)
  BY DEF Picture
<1>3. rec' = [bufs |-> p.bufs \o SubSeq(rec.bufs, p.cur + 1, Len(rec.bufs)), cur |-> p.cur, n |-> p.n] /\ Redraw(p)
  BY <1>2 DEF LoadPict, Picture
<1> HIDE DEF p
<1>4. SameEntries(rec', p)
  BY <1>1, <1>2, <1>3, LoadedIs
<1> QED
  BY <1>1, <1>3, <1>4 DEF p

LEMMA LoadPictBase == ASSUME Base, LoadPict, ShortLabels PROVE Base'
<1>1. /\ UNCHANGED <<pos, heading, mode, going, pen, dev, orig_vis, last_recorded, other>> /\ Command
      /\ ~filled.on /\ whole' = FALSE
  BY DEF LoadPict
<1>2. SameEntries(rec', Picture(file)) /\ Redraw(Picture(file)) /\ Good(Picture(file))
  BY LoadRight
<1>3. /\ drawn' \in Seq(Items) /\ spot' \in Point /\ penmode' \in Mode
      /\ wanna' \in Point /\ out_of_bounds' \in BOOLEAN /\ sync' \in BOOLEAN
  BY <1>2, RedrawTypes
<1>4. PlaceTypes' /\ PenTypes'
  BY <1>1, <1>3 DEF Base, PlaceTypes, PenTypes, going
<1>5. FlagTypes'
  <2>1. refresh_p' \in BOOLEAN /\ whole' \in BOOLEAN
    BY <1>1 DEF Base, FlagTypes, other
  <2> QED
    BY <1>1, <1>3, <2>1, TurtleAssumption DEF Base, FlagTypes, Command
<1>6. FillTypes'
  BY <1>1, <1>2 DEF Base, FillTypes, Solid, SameEntries, other
<1> QED
  BY <1>1, <1>4, <1>5, <1>6, FileSame DEF Base, other

LEMMA BaseNext == ASSUME Base, [Next]_vars, ShortLabels, BigBuffers PROVE Base'
<1>1. CASE UNCHANGED vars
  <2>1. PlaceTypes' /\ PenTypes' /\ FlagTypes'
    BY <1>1 DEF Base, PlaceTypes, PenTypes, FlagTypes, vars, place, going, device, other
  <2> QED
    BY <1>1, <2>1, FillSame, FileSame DEF Base, vars, record, other
<1>2. CASE Advance
  BY <1>2, DrawBase, JumpBase, CrossBase DEF Advance
<1>3. CASE Interrupted
  BY <1>3, InterruptedBase
<1>4. CASE Draws
  BY <1>4, PenUpDownBase, PenModeBase, PenLookBase, LabelBase, FillBase, ArcBase DEF Draws
<1>5. CASE Moves
  BY <1>5, TurnBase, SetXYBase, HomeBase, EncloseBase DEF Moves
<1>6. CASE Records
  BY <1>6, StartFilledBase, EndFilledBase, BreakFilledBase, ClearBase, RefreshBase, SetBackgroundBase, SavePictBase,
     LoadPictBase DEF Records
<1> QED
  BY <1>1, <1>2, <1>3, <1>4, <1>5, <1>6 DEF Next

LEMMA BaseType == ASSUME Base PROVE TypeOK
<1>1. {pos, wanna, dev, spot} \subseteq Int \X Int
  BY DEF Base, PlaceTypes, Point
<1>2. left \in Int /\ goal.kind \in {"none", "forward", "setpos"}
  BY DEF Base, PlaceTypes, Goals, None
<1>3. pen.vis \in {0, -1} /\ pen.md \in {"PAINT", "REVERSE"} /\ penmode \in {"PAINT", "REVERSE"}
  BY DEF Base, PenTypes, PenRecord, Visibility, Mode
<1>4. rec.cur \in DOMAIN rec.bufs /\ rec.n \in 0 .. Len(rec.bufs[rec.cur])
  BY DEF Base, FillTypes, Solid, Good, Record
<1>5. filled.on \in BOOLEAN /\ file.on \in BOOLEAN
  <2>1. filled.on \in BOOLEAN
    BY FillingIs DEF Base, FillTypes
  <2>2. CASE file = Idle
    <3>1. file.on \in BOOLEAN
      BY <2>2 DEF Idle
    <3> QED
      BY <2>1, <3>1
  <2>3. CASE file # Idle
    <3>1. file.on \in BOOLEAN
      BY <2>3 DEF Base, FileTypes, Pictures
    <3> QED
      BY <2>1, <3>1
  <2> QED
    BY <2>2, <2>3
<1> QED
  BY <1>1, <1>2, <1>3, <1>4, <1>5 DEF TypeOK, Base, PlaceTypes, FlagTypes

LEMMA BaseFits == ASSUME Base, ShortLabels, BigBuffers PROVE RecordFits
<1>1. Good(rec) /\ Fits(rec) /\ rec.bufs \in Seq(Seq(Stored))
  BY DEF Base, FillTypes, Solid, Good, Record
<1>2. ASSUME NEW i \in DOMAIN rec.bufs PROVE Used(rec.bufs[i]) <= GrSize
  <2>1. i \in 1 .. Len(rec.bufs) /\ rec.bufs[i] \in Seq(Stored)
    BY <1>1
  <2>2. Words(1) + Bytes(Live(rec.bufs[i])) <= GrSize - 156
    BY <1>1, <2>1 DEF Fits
  <2>3. Bytes(rec.bufs[i]) <= Bytes(Live(rec.bufs[i])) + Words(1) /\ Bytes(rec.bufs[i]) \in Nat /\ Bytes(Live(rec.bufs[i])) \in Nat
    BY <2>1, LiveStored
  <2> QED
    BY <2>2, <2>3, TurtleAssumption DEF Used, Words
<1>3. Index(rec) < GrSize
  <2>1. rec.cur \in 1 .. Len(rec.bufs) /\ rec.bufs[rec.cur] \in Seq(Entry)
    BY <1>1 DEF Good
  <2>2. Words(1) + Bytes(Live(rec.bufs[rec.cur])) <= GrSize - 156 /\ Live(rec.bufs[rec.cur]) = rec.bufs[rec.cur]
    BY <1>1, <2>1, LiveOpen DEF Fits
  <2>3. Index(rec) = Words(1) + Bytes(rec.bufs[rec.cur])
    BY <1>1, IndexIs
  <2>4. Bytes(rec.bufs[rec.cur]) \in Nat
    BY <2>1, BytesAppend, EntryMade
  <2> QED
    BY <2>2, <2>3, <2>4, TurtleAssumption DEF Words
<1> QED
  BY <1>2, <1>3 DEF RecordFits

\* Whatever is drawn, filled, saved, loaded and cleaned, the record stays one
\* that redraw_graphics can read from its first buffer to its last entry.
THEOREM BaseHolds == ASSUME ShortLabels, BigBuffers PROVE Spec => []Base
<1>1. Init => Base
  BY InitBase
<1>2. Base /\ [Next]_vars => Base'
  BY BaseNext
<1> QED
  BY <1>1, <1>2, PTL DEF Spec

\* Every variable of graphics.c has its type in every state.
THEOREM TypeCorrect == ASSUME ShortLabels, BigBuffers PROVE Spec => []TypeOK
<1>1. Base => TypeOK
  BY BaseType
<1> QED
  BY <1>1, BaseHolds, PTL

\* safe_to_save keeps room enough: no entry, and no NEXTBUFFER, is written
\* outside its buffer.
THEOREM RecordIsWithin == ASSUME ShortLabels, BigBuffers PROVE Spec => []RecordFits
<1>1. Base => RecordFits
  BY BaseFits
<1> QED
  BY <1>1, BaseHolds, PTL

-----------------------------------------------------------------------------
(* Where the turtle is. *)

LEMMA ScreenIs ==
  /\ Left \in Int /\ Right \in Int /\ Top \in Int /\ Bottom \in Int /\ Left <= 0 /\ 0 <= Right /\ Bottom <= 0 /\ 0 <= Top
  /\ Right = Left + Width /\ Top = Bottom + Height /\ Width \in Nat \ {0} /\ Height \in Nat \ {0}
<1>1. Width \in Nat \ {0} /\ Height \in Nat \ {0} /\ 2 \in Nat \ {0}
  BY TurtleAssumption
<1> DEFINE a == Width \div 2
           b == Height \div 2
<1>2. a \in Int /\ 2 * a <= Width /\ Width < 2 * a + 2
  BY <1>1, Z3
<1>3. b \in Int /\ 2 * b <= Height /\ Height < 2 * b + 2
  BY <1>1, Z3
<1>4. Left = -a /\ Right = Width - a /\ Top = b /\ Bottom = b - Height
  BY DEF Left, Right, Top, Bottom
<1> HIDE DEF a, b
<1> QED
  BY <1>1, <1>2, <1>3, <1>4

LEMMA EdgeInside ==
  ASSUME NEW p \in Point, NEW d \in Axis, Inside(p)
  PROVE  Inside(Edge(p, d)) /\ Inside(Opposite(p, d))
<1>1. ASSUME NEW e PROVE Inside(Edge(p, e))
  BY ScreenIs, PointIs DEF Inside, Edge
<1> QED
  BY <1>1 DEF Opposite

LEMMA BackInside ==
  ASSUME NEW x \in Int, NEW lo \in Int, NEW w \in Nat \ {0}, NEW hi \in Int, hi = lo + w
  PROVE  Back(x, lo, hi, w) \in lo .. hi /\ (x \in lo .. hi => Back(x, lo, hi, w) = x)
<1> DEFINE a == (x - hi + w - 1) \div w
           b == (lo - x + w - 1) \div w
<1>1. x - hi + w - 1 \in Int /\ lo - x + w - 1 \in Int
  OBVIOUS
<1>2. a \in Int /\ w * a <= x - hi + w - 1 /\ x - hi + w - 1 < w * a + w
  BY <1>1, DivBounds
<1>3. b \in Int /\ w * b <= lo - x + w - 1 /\ lo - x + w - 1 < w * b + w
  BY <1>1, DivBounds
<1>4. Back(x, lo, hi, w) = CASE x > hi -> x - w * a [] x < lo -> x + w * b [] OTHER -> x
  BY DEF Back
<1> DEFINE u == w * a
           v == w * b
<1>5. u \in Int /\ v \in Int
  BY <1>2, <1>3
<1>6. u <= x - hi + w - 1 /\ x - hi + w - 1 < u + w /\ v <= lo - x + w - 1 /\ lo - x + w - 1 < v + w
  BY <1>2, <1>3
<1>7. Back(x, lo, hi, w) = CASE x > hi -> x - u [] x < lo -> x + v [] OTHER -> x
  BY <1>4
<1> HIDE DEF u, v, a, b
<1>8. CASE x > hi
  BY <1>5, <1>6, <1>7, <1>8
<1>9. CASE x < lo
  BY <1>5, <1>6, <1>7, <1>9
<1>10. CASE ~(x > hi) /\ ~(x < lo)
  BY <1>5, <1>7, <1>10
<1> QED
  BY <1>8, <1>9, <1>10

LEMMA WithinInside == ASSUME NEW p \in Point PROVE Inside(Within(p)) /\ (Inside(p) => Within(p) = p)
<1>1. p[1] \in Int /\ p[2] \in Int /\ p = <<p[1], p[2]>>
  BY PointIs
<1>2. /\ Back(p[1], Left, Right, Width) \in Left .. Right
      /\ p[1] \in Left .. Right => Back(p[1], Left, Right, Width) = p[1]
  BY <1>1, ScreenIs, BackInside
<1>3. /\ Back(p[2], Bottom, Top, Height) \in Bottom .. Top
      /\ p[2] \in Bottom .. Top => Back(p[2], Bottom, Top, Height) = p[2]
  BY <1>1, ScreenIs, BackInside
<1> QED
  BY <1>1, <1>2, <1>3 DEF Inside, Within

LEMMA ZeroMod == ASSUME NEW w \in Nat \ {0} PROVE 0 % w = 0
BY Z3

LEMMA Multiple == ASSUME NEW a \in Int, NEW w \in Nat \ {0}, NEW k \in Int, a = k * w PROVE a % w = 0
BY Z3

LEMMA MultipleOf == ASSUME NEW a \in Int, NEW w \in Nat \ {0}, a % w = 0 PROVE \E k \in Int : a = k * w
<1>1. a % w = a - w * (a \div w)
  BY Z3
<1>2. a \div w \in Int
  BY DivBounds
<1> QED
  BY <1>1, <1>2, Z3

LEMMA ModShift ==
  ASSUME NEW a \in Int, NEW w \in Nat \ {0}, a % w = 0
  PROVE  (a + w) % w = 0 /\ (a - w) % w = 0
<1>1. PICK k \in Int : a = k * w
  BY MultipleOf
<1> DEFINE i == k + 1
           j == k - 1
           b == a + w
           c == a - w
<1>2. i \in Int /\ j \in Int /\ b \in Int /\ c \in Int
  OBVIOUS
<1>3. b = i * w /\ c = j * w
  BY <1>1
<1> HIDE DEF i, j, b, c
<1>4. b % w = 0 /\ c % w = 0
  BY <1>2, <1>3, Multiple
<1> QED
  BY <1>4 DEF b, c

LEMMA TorusSame == ASSUME NEW p \in Point PROVE Torus(p, p)
<1>1. p[1] - p[1] = 0 /\ p[2] - p[2] = 0
  BY PointIs
<1>2. Width + 1 \in Nat \ {0} /\ Height + 1 \in Nat \ {0}
  BY ScreenIs
<1> QED
  BY <1>1, <1>2, ZeroMod DEF Torus

LEMMA TorusMoved ==
  ASSUME NEW p, NEW q, NEW u, NEW v, Torus(p, q), u[1] - v[1] = p[1] - q[1], u[2] - v[2] = p[2] - q[2]
  PROVE  Torus(u, v)
BY DEF Torus

LEMMA TorusShift ==
  ASSUME NEW p \in Point, NEW q \in Point, Torus(p, q), NEW w \in Axis, NEW u \in Point,
         u[1] = p[1] - w[1] * (Width + 1), u[2] = p[2] - w[2] * (Height + 1)
  PROVE  Torus(u, q)
<1> DEFINE a == p[1] - q[1]
           b == p[2] - q[2]
           m == Width + 1
           n == Height + 1
<1>1. a \in Int /\ b \in Int /\ m \in Nat \ {0} /\ n \in Nat \ {0} /\ a % m = 0 /\ b % n = 0
  BY PointIs, ScreenIs DEF Torus
<1>2. p[1] \in Int /\ p[2] \in Int /\ q[1] \in Int /\ q[2] \in Int
  BY PointIs
<1> SUFFICES (u[1] - q[1]) % m = 0 /\ (u[2] - q[2]) % n = 0
  BY DEF Torus
<1>3. u[1] - q[1] \in {a, a + m, a - m} /\ u[2] - q[2] \in {b, b + n, b - n}
  <2>1. w \in {<<0, 1>>, <<1, 0>>, <<0, -1>>, <<-1, 0>>} /\ m \in Int /\ n \in Int
    BY <1>1 DEF Axis
  <2>2. u[1] = p[1] - w[1] * m /\ u[2] = p[2] - w[2] * n
    OBVIOUS
  <2> HIDE DEF m, n
  <2> QED
    BY <1>2, <2>1, <2>2
<1> HIDE DEF a, b, m, n
<1>4. (a + m) % m = 0 /\ (a - m) % m = 0 /\ (b + n) % n = 0 /\ (b - n) % n = 0
  BY <1>1, ModShift
<1> QED
  BY <1>1, <1>3, <1>4

\* The walk of setpos_bynumber goes as far as its target is from wanna.
LEMMA WalkIs ==
  ASSUME NEW p \in Point, NEW a \in Point, NEW b \in Point, AxisParallel(a, b), NEW u, u = Plus(p, Apart(a, b), Toward(a, b))
  PROVE  u[1] - b[1] = p[1] - a[1] /\ u[2] - b[2] = p[2] - a[2]
<1>1. p[1] \in Int /\ p[2] \in Int /\ a[1] \in Int /\ a[2] \in Int /\ b[1] \in Int /\ b[2] \in Int
  BY PointIs
<1>2. u[1] = p[1] + Apart(a, b) * Toward(a, b)[1] /\ u[2] = p[2] + Apart(a, b) * Toward(a, b)[2]
  BY DEF Plus
<1> DEFINE k == Apart(a, b)
<1>3. k \in Int
  BY ApartType
<1>4. CASE b[1] > a[1]
  <2>1. Toward(a, b) = <<1, 0>> /\ k = b[1] - a[1] /\ b[2] = a[2]
    BY <1>1, <1>4 DEF Toward, Apart, Abs, AxisParallel
  <2> HIDE DEF k
  <2> QED
    BY <1>1, <1>2, <1>3, <2>1 DEF k
<1>5. CASE b[1] < a[1]
  <2>1. Toward(a, b) = <<-1, 0>> /\ k = a[1] - b[1] /\ b[2] = a[2]
    BY <1>1, <1>5 DEF Toward, Apart, Abs, AxisParallel
  <2> QED
    BY <1>1, <1>2, <1>3, <2>1
<1>6. CASE b[1] = a[1] /\ b[2] < a[2]
  <2>1. Toward(a, b) = <<0, -1>> /\ k = a[2] - b[2]
    BY <1>1, <1>6 DEF Toward, Apart, Abs
  <2> QED
    BY <1>1, <1>2, <1>3, <1>6, <2>1
<1>7. CASE b[1] = a[1] /\ ~(b[2] < a[2])
  <2>1. Toward(a, b) = <<0, 1>> /\ k = b[2] - a[2]
    BY <1>1, <1>7 DEF Toward, Apart, Abs
  <2> QED
    BY <1>1, <1>2, <1>3, <1>7, <2>1
<1> QED
  BY <1>1, <1>4, <1>5, <1>6, <1>7

\* A wrap is one turn round the torus: from q on, j steps in direction d lead
\* to the image of the place that k steps from p lead to.
LEMMA WrapIs ==
  ASSUME NEW p \in Point, NEW k \in Int, NEW d \in Axis, NEW w, w = <<Sign(k) * d[1], Sign(k) * d[2]>>, Inside(p),
         NEW q, q = Opposite(p, w), NEW j, j = k - Sign(k) * (Apart(p, Edge(p, w)) + 1),
         NEW u, u = Plus(q, j, d), NEW v, v = Plus(p, k, d)
  PROVE  u[1] = v[1] - w[1] * (Width + 1) /\ u[2] = v[2] - w[2] * (Height + 1)
<1> DEFINE s == Sign(k)
           a == Apart(p, Edge(p, w))
           x == d[1]
           y == d[2]
<1>1. s = 1 \/ s = -1
  BY DEF Sign
<1>2. (x = 0 /\ y = 1) \/ (x = 1 /\ y = 0) \/ (x = 0 /\ y = -1) \/ (x = -1 /\ y = 0)
  BY DEF Axis
<1>3. w[1] = s * x /\ w[2] = s * y
  OBVIOUS
<1>4. p[1] \in Int /\ p[2] \in Int /\ p[1] >= Left /\ p[1] <= Right /\ p[2] >= Bottom /\ p[2] <= Top
  BY PointIs, ScreenIs DEF Inside
<1>5. u[1] = q[1] + j * x /\ u[2] = q[2] + j * y /\ v[1] = p[1] + k * x /\ v[2] = p[2] + k * y
  BY DEF Plus
<1>6. j = k - s * (a + 1)
  OBVIOUS
<1> HIDE DEF s, x, y
<1>11. a \in Int /\ j \in Int /\ q[1] \in Int /\ q[2] \in Int
  <2>1. w \in Axis
    BY SignedType
  <2>2. a \in Int /\ q \in Point
    BY <2>1, EdgeType, ApartType
  <2> QED
    BY <1>1, <1>6, <2>2, PointIs
<1>7. CASE w[1] = 1 /\ w[2] = 0
  <2>1. a = Right - p[1] /\ q[1] = Left /\ q[2] = p[2]
    BY <1>4, <1>7, ScreenIs DEF Edge, Opposite, Apart, Abs
  <2> HIDE DEF a
  <2>2. (s = 1 /\ x = 1 /\ y = 0) \/ (s = -1 /\ x = -1 /\ y = 0)
    BY <1>1, <1>2, <1>3, <1>7
  <2>3. w[1] * (Width + 1) = Width + 1 /\ w[2] * (Height + 1) = 0
    BY <1>7, ScreenIs
  <2>4. CASE s = 1
    <3>1. x = 1 /\ y = 0
      BY <2>2, <2>4
    <3>2. u[1] = q[1] + j /\ u[2] = q[2] /\ v[1] = p[1] + k /\ v[2] = p[2]
      BY <1>4, <1>5, <1>11, <3>1
    <3>3. j = k - a - 1
      BY <1>6, <1>11, <2>4
    <3> QED
      BY <1>4, <2>1, <2>3, <3>2, <3>3, ScreenIs
  <2>5. CASE s = -1
    <3>1. x = -1 /\ y = 0
      BY <2>2, <2>5
    <3>2. u[1] = q[1] - j /\ u[2] = q[2] /\ v[1] = p[1] - k /\ v[2] = p[2]
      BY <1>4, <1>5, <1>11, <3>1
    <3>3. j = k + a + 1
      BY <1>6, <1>11, <2>5
    <3> QED
      BY <1>4, <2>1, <2>3, <3>2, <3>3, ScreenIs
  <2> QED
    BY <2>2, <2>4, <2>5
<1>8. CASE w[1] = -1 /\ w[2] = 0
  <2>1. a = p[1] - Left /\ q[1] = Right /\ q[2] = p[2]
    BY <1>4, <1>8, ScreenIs DEF Edge, Opposite, Apart, Abs
  <2> HIDE DEF a
  <2>2. (s = 1 /\ x = -1 /\ y = 0) \/ (s = -1 /\ x = 1 /\ y = 0)
    BY <1>1, <1>2, <1>3, <1>8
  <2>3. w[1] * (Width + 1) = -(Width + 1) /\ w[2] * (Height + 1) = 0
    BY <1>8, ScreenIs
  <2>4. CASE s = 1
    <3>1. x = -1 /\ y = 0
      BY <2>2, <2>4
    <3>2. u[1] = q[1] - j /\ u[2] = q[2] /\ v[1] = p[1] - k /\ v[2] = p[2]
      BY <1>4, <1>5, <1>11, <3>1
    <3>3. j = k - a - 1
      BY <1>6, <1>11, <2>4
    <3> QED
      BY <1>4, <2>1, <2>3, <3>2, <3>3, ScreenIs
  <2>5. CASE s = -1
    <3>1. x = 1 /\ y = 0
      BY <2>2, <2>5
    <3>2. u[1] = q[1] + j /\ u[2] = q[2] /\ v[1] = p[1] + k /\ v[2] = p[2]
      BY <1>4, <1>5, <1>11, <3>1
    <3>3. j = k + a + 1
      BY <1>6, <1>11, <2>5
    <3> QED
      BY <1>4, <2>1, <2>3, <3>2, <3>3, ScreenIs
  <2> QED
    BY <2>2, <2>4, <2>5
<1>9. CASE w[1] = 0 /\ w[2] = 1
  <2>1. a = Top - p[2] /\ q[1] = p[1] /\ q[2] = Bottom
    BY <1>4, <1>9, ScreenIs DEF Edge, Opposite, Apart, Abs
  <2> HIDE DEF a
  <2>2. (s = 1 /\ x = 0 /\ y = 1) \/ (s = -1 /\ x = 0 /\ y = -1)
    BY <1>1, <1>2, <1>3, <1>9
  <2>3. w[1] * (Width + 1) = 0 /\ w[2] * (Height + 1) = Height + 1
    BY <1>9, ScreenIs
  <2>4. CASE s = 1
    <3>1. x = 0 /\ y = 1
      BY <2>2, <2>4
    <3>2. u[1] = q[1] /\ u[2] = q[2] + j /\ v[1] = p[1] /\ v[2] = p[2] + k
      BY <1>4, <1>5, <1>11, <3>1
    <3>3. j = k - a - 1
      BY <1>6, <1>11, <2>4
    <3> QED
      BY <1>4, <2>1, <2>3, <3>2, <3>3, ScreenIs
  <2>5. CASE s = -1
    <3>1. x = 0 /\ y = -1
      BY <2>2, <2>5
    <3>2. u[1] = q[1] /\ u[2] = q[2] - j /\ v[1] = p[1] /\ v[2] = p[2] - k
      BY <1>4, <1>5, <1>11, <3>1
    <3>3. j = k + a + 1
      BY <1>6, <1>11, <2>5
    <3> QED
      BY <1>4, <2>1, <2>3, <3>2, <3>3, ScreenIs
  <2> QED
    BY <2>2, <2>4, <2>5
<1>10. CASE w[1] = 0 /\ w[2] = -1
  <2>1. a = p[2] - Bottom /\ q[1] = p[1] /\ q[2] = Top
    BY <1>4, <1>10, ScreenIs DEF Edge, Opposite, Apart, Abs
  <2> HIDE DEF a
  <2>2. (s = 1 /\ x = 0 /\ y = -1) \/ (s = -1 /\ x = 0 /\ y = 1)
    BY <1>1, <1>2, <1>3, <1>10
  <2>3. w[1] * (Width + 1) = 0 /\ w[2] * (Height + 1) = -(Height + 1)
    BY <1>10, ScreenIs
  <2>4. CASE s = 1
    <3>1. x = 0 /\ y = -1
      BY <2>2, <2>4
    <3>2. u[1] = q[1] /\ u[2] = q[2] - j /\ v[1] = p[1] /\ v[2] = p[2] - k
      BY <1>4, <1>5, <1>11, <3>1
    <3>3. j = k - a - 1
      BY <1>6, <1>11, <2>4
    <3> QED
      BY <1>4, <2>1, <2>3, <3>2, <3>3, ScreenIs
  <2>5. CASE s = -1
    <3>1. x = 0 /\ y = 1
      BY <2>2, <2>5
    <3>2. u[1] = q[1] /\ u[2] = q[2] + j /\ v[1] = p[1] /\ v[2] = p[2] + k
      BY <1>4, <1>5, <1>11, <3>1
    <3>3. j = k + a + 1
      BY <1>6, <1>11, <2>5
    <3> QED
      BY <1>4, <2>1, <2>3, <3>2, <3>3, ScreenIs
  <2> QED
    BY <2>2, <2>4, <2>5
<1> QED
  BY <1>1, <1>2, <1>3, <1>7, <1>8, <1>9, <1>10

Reaches == sync /\ goal.kind = "setpos" => Torus(Plus(pos, left, goal.dir), goal.to)
Bounded == InBounds /\ WannaIsThere /\ Reaches

LEMMA InitBounded == ASSUME Init PROVE Bounded
<1>1. Inside(pos)
  BY ScreenIs DEF Init, Inside, Center
<1>2. Torus(pos, wanna)
  BY CenterType, TorusSame DEF Init
<1>3. goal.kind # "setpos"
  BY DEF Init, None
<1> QED
  BY <1>1, <1>2, <1>3 DEF Bounded, InBounds, WannaIsThere, Reaches

\* The end of a move, at p.
LEMMA ArriveBounded ==
  ASSUME Base, goal # None, NEW STATE p, p \in Point, Arrive(p), pos' = p, mode' = mode, mode # "window" => Inside(p),
         sync' => goal.kind = "forward" \/ Torus(p, goal.to)
  PROVE  Bounded'
<1>1. goal' = None /\ goal'.kind = "none"
  BY DEF Arrive, None
<1>2. sync' => Torus(p, wanna')
  <2>1. CASE goal.kind = "forward"
    BY <2>1, TorusSame DEF Arrive
  <2>2. CASE goal.kind # "forward"
    BY <2>2 DEF Arrive
  <2> QED
    BY <2>1, <2>2
<1>3. InBounds'
  BY DEF InBounds, Inside
<1>4. WannaIsThere'
  BY <1>2 DEF WannaIsThere, Torus
<1>5. Reaches'
  BY <1>1 DEF Reaches
<1> QED
  BY <1>3, <1>4, <1>5 DEF Bounded

LEMMA MoveIs ==
  ASSUME Base, Bounded, goal # None
  PROVE  /\ goal.dir \in Axis /\ goal.kind \in {"forward", "setpos"} /\ pos \in Point /\ left \in Int
         /\ Way \in Axis /\ Target \in Point
         /\ goal.kind # "forward" => goal.to \in Point /\ goal.kind = "setpos"
         /\ sync => goal.kind = "forward" \/ Torus(Target, goal.to)
<1>1. goal.dir \in Axis /\ goal.kind \in {"forward", "setpos"} /\ (goal.kind # "forward" => goal.to \in Point /\ goal.kind = "setpos")
  BY GoalIs DEF Base, PlaceTypes
<1>2. sync => goal.kind = "forward" \/ Torus(Target, goal.to)
  BY <1>1 DEF Bounded, Reaches, Target
<1> QED
  BY <1>1, <1>2, WayTypes DEF Base, PlaceTypes

LEMMA DrawBounded == ASSUME Base, Bounded, Draw PROVE Bounded'
<1>1. goal # None /\ Free /\ Arrive(Target) /\ pos' = Target /\ mode' = mode /\ sync' = (sync \/ goal.kind = "forward")
  BY DEF Draw, Moved, RestOfMove
<1>2. Target \in Point /\ (sync => goal.kind = "forward" \/ Torus(Target, goal.to))
  BY <1>1, MoveIs
<1>3. mode # "window" => Inside(Target)
  BY <1>1 DEF Free
<1>4. sync' => goal.kind = "forward" \/ Torus(Target, goal.to)
  BY <1>1, <1>2
<1> QED
  BY <1>1, <1>2, <1>3, <1>4, ArriveBounded

LEMMA JumpBounded == ASSUME Base, Bounded, Jump PROVE Bounded'
<1>1. goal # None /\ ~Free /\ pos' = Opposite(pos, Way) /\ sync' = FALSE
  BY DEF Jump, Moved
<1>2. Inside(pos) /\ pos \in Point /\ Way \in Axis
  BY <1>1, MoveIs DEF Free, Bounded, InBounds
<1>3. Inside(pos')
  BY <1>1, <1>2, EdgeInside
<1> QED
  BY <1>1, <1>3 DEF Bounded, InBounds, WannaIsThere, Reaches

LEMMA CrossBounded == ASSUME Base, Bounded, Cross PROVE Bounded'
<1> DEFINE e == Edge(pos, Way)
           p == CrossTo
           k == CrossLeft
           r == SaveLine(Begun, pos)
           d == goal.dir
<1>1. Crossed(e, p, k, r) /\ RestOfMove /\ goal # None /\ ~Free
  BY CrossIs DEF Cross
<1>2. pos' = p /\ mode' = mode
  BY <1>1 DEF Crossed, Moved, RestOfMove
<1>3. Inside(pos) /\ pos \in Point /\ Way \in Axis /\ mode # "window" /\ left \in Int /\ d \in Axis
  BY <1>1, MoveIs DEF Free, Bounded, InBounds
<1>4. Inside(p) /\ p \in Point
  BY <1>3, EdgeInside, EdgeType DEF CrossTo
\* In WRAP mode the place to reach is the same on the torus.
<1>5. ASSUME mode = "wrap", sync, goal.kind # "forward" PROVE Torus(Plus(p, k, d), goal.to) /\ k \in Int
  <2>1. p = Opposite(pos, Way) /\ k = left - Sign(left) * (Apart(pos, Edge(pos, Way)) + 1)
    BY <1>5 DEF CrossTo, CrossLeft
  <2>2. Way = <<Sign(left) * d[1], Sign(left) * d[2]>> /\ Target = Plus(pos, left, d)
    BY DEF Way, Target
  <2>3. Torus(Target, goal.to) /\ goal.to \in Point /\ Target \in Point
    BY <1>1, <1>5, MoveIs
  <2>4. k \in Int
    <3>1. Apart(pos, Edge(pos, Way)) \in Nat
      BY <1>3, EdgeType, ApartType
    <3>2. Sign(left) \in {-1, 1}
      BY DEF Sign
    <3> QED
      BY <1>3, <2>1, <3>1, <3>2
  <2> DEFINE u == Plus(p, k, d)
             v == Target
             w == Way
  <2>5. u \in Point
    BY <1>3, <1>4, <2>4, PlusType
  <2> HIDE DEF p, k, d, e, r
  <2>6. u[1] = v[1] - w[1] * (Width + 1) /\ u[2] = v[2] - w[2] * (Height + 1)
    BY <1>3, <2>1, <2>2, WrapIs DEF d
  <2> HIDE DEF u, v, w
  <2>7. Torus(u, goal.to)
    BY <1>3, <2>3, <2>5, <2>6, TorusShift DEF v, w
  <2> QED
    BY <2>4, <2>7 DEF u
<1> HIDE DEF e, p, k, r
<1>6. CASE k = 0
  <2>1. Arrive(p) /\ sync' = ((sync /\ mode = "wrap") \/ goal.kind = "forward")
    BY <1>1, <1>6 DEF Crossed
  <2>2. sync' => goal.kind = "forward" \/ Torus(p, goal.to)
    <3>1. ASSUME sync, mode = "wrap", goal.kind # "forward" PROVE Torus(p, goal.to)
      <4>1. Torus(Plus(p, 0, d), goal.to)
        BY <1>5, <1>6, <3>1
      <4>2. Plus(p, 0, d) = p
        <5>1. p[1] \in Int /\ p[2] \in Int /\ p = <<p[1], p[2]>> /\ d[1] \in Int /\ d[2] \in Int
          BY <1>3, <1>4, PointIs DEF Axis
        <5>2. p[1] + 0 * d[1] = p[1] /\ p[2] + 0 * d[2] = p[2]
          BY <5>1
        <5> QED
          BY <5>1, <5>2 DEF Plus
      <4> QED
        BY <4>1, <4>2
    <3> QED
      BY <2>1, <3>1
  <2>3. p = CrossTo
    BY DEF p
  <2> QED
    BY <1>1, <1>2, <1>4, <2>1, <2>2, ArriveBounded DEF p
<1>7. CASE k # 0
  <2>1. left' = k /\ goal' = goal /\ sync' = sync
    BY <1>1, <1>7 DEF Crossed, Onward
  <2>2. mode = "wrap"
    BY <1>7 DEF k, CrossLeft
  <2>3. InBounds'
    BY <1>2, <1>4 DEF InBounds, Inside
  <2>4. WannaIsThere'
    BY <1>1, <2>1 DEF WannaIsThere
  <2>5. Reaches'
    <3>1. ASSUME sync, goal.kind = "setpos" PROVE Torus(Plus(p, k, d), goal.to)
      BY <1>5, <2>2, <3>1
    <3> QED
      BY <1>2, <2>1, <3>1 DEF Reaches
  <2> QED
    BY <2>3, <2>4, <2>5 DEF Bounded
<1> QED
  BY <1>6, <1>7

LEMMA InterruptedBounded == ASSUME Base, Bounded, Interrupted PROVE Bounded'
<1>1. goal # None /\ Arrive(pos) /\ pos' = pos /\ mode' = mode /\ (sync' => goal.kind = "forward")
  BY DEF Interrupted, RestOfMove
<1>2. pos \in Point /\ (mode # "window" => Inside(pos))
  BY DEF Base, PlaceTypes, Bounded, InBounds
<1> QED
  BY <1>1, <1>2, ArriveBounded

LEMMA RestBounded == ASSUME Bounded, UNCHANGED <<pos, mode, wanna, goal, left, sync>> PROVE Bounded'
BY DEF Bounded, InBounds, WannaIsThere, Reaches, Inside, Torus, Plus

\* The turtle is put where SETPOS would start.
LEMMA PutBounded ==
  ASSUME NEW p \in Point, pos' = p, wanna' = p, UNCHANGED goal, goal = None, mode' # "window" => Inside(p)
  PROVE  Bounded'
<1>1. goal'.kind # "setpos" /\ Torus(p, p)
  BY TorusSame DEF None
<1> QED
  BY <1>1 DEF Bounded, InBounds, WannaIsThere, Reaches

LEMMA SetPosBounded == ASSUME Base, Bounded, Command, NEW to \in Point, SetPos(to) PROVE Bounded'
<1>1. pos \in Point /\ wanna \in Point /\ goal = None
  BY DEF Base, PlaceTypes, Command
<1>2. CASE mode = "fence" /\ ~Inside(to)
  BY <1>2, RestBounded DEF SetPos, place, going
<1>3. CASE ~(mode = "fence" /\ ~Inside(to)) /\ mode = "wrap" /\ (~Inside(to) \/ out_of_bounds)
  <2>1. /\ goal' = [kind |-> "setpos", to |-> to, dir |-> Toward(wanna, to)] /\ AxisParallel(wanna, to)
        /\ left' = Apart(wanna, to) /\ pos' = pos /\ mode' = mode /\ sync' = sync
    BY <1>3 DEF SetPos, place
  <2>2. goal'.kind = "setpos" /\ goal'.to = to /\ goal'.dir = Toward(wanna, to) /\ goal' # None
    BY <2>1 DEF None
  <2>3. ASSUME sync PROVE Torus(Plus(pos, Apart(wanna, to), Toward(wanna, to)), to)
    <3> DEFINE u == Plus(pos, Apart(wanna, to), Toward(wanna, to))
    <3>1. Torus(pos, wanna)
      BY <1>1, <2>3 DEF Bounded, WannaIsThere
    <3>2. u[1] - to[1] = pos[1] - wanna[1] /\ u[2] - to[2] = pos[2] - wanna[2]
      BY <1>1, <2>1, WalkIs
    <3> HIDE DEF u
    <3>3. Torus(u, to)
      BY <3>1, <3>2, TorusMoved
    <3> QED
      BY <3>3 DEF u
  <2>4. Reaches'
    BY <2>1, <2>2, <2>3 DEF Reaches
  <2>5. InBounds' /\ WannaIsThere'
    BY <2>1, <2>2 DEF Bounded, InBounds, WannaIsThere, Inside
  <2> QED
    BY <2>4, <2>5 DEF Bounded
<1>4. CASE ~(mode = "fence" /\ ~Inside(to)) /\ ~(mode = "wrap" /\ (~Inside(to) \/ out_of_bounds))
  <2>1. wanna' = to /\ pos' = to /\ UNCHANGED <<mode, going>>
    BY <1>4 DEF SetPos
  <2>2. mode' # "window" => Inside(to)
    BY <1>4, <2>1 DEF Base, PlaceTypes
  <2> QED
    BY <1>1, <2>1, <2>2, PutBounded DEF going
<1> QED
  BY <1>2, <1>3, <1>4

LEMMA SetXYBounded == ASSUME Base, Bounded, SetXY PROVE Bounded'
<1>1. \A k \in Int : <<k, pos[2]>> \in Point /\ <<pos[1], k>> \in Point
  <2>1. pos[1] \in Int /\ pos[2] \in Int
    BY PointIs DEF Base, PlaceTypes
  <2> QED
    BY <2>1 DEF Point
<1>2. PICK to \in Point : SetPos(to)
  <2>1. CASE \E x \in Xs : SetPos(<<x, pos[2]>>)
    BY <1>1, <2>1, TurtleAssumption
  <2>2. CASE \E y \in Ys : SetPos(<<pos[1], y>>)
    BY <1>1, <2>2, TurtleAssumption
  <2> QED
    BY <2>1, <2>2 DEF SetXY
<1> QED
  BY <1>2, SetPosBounded DEF SetXY

LEMMA CenterInside == Inside(Center)
BY ScreenIs DEF Inside, Center

LEMMA MovesBounded == ASSUME Base, Bounded, Moves PROVE Bounded'
<1>1. CASE RightTurn
  BY <1>1, RestBounded DEF RightTurn, going
<1>2. CASE Forward
  <2>1. goal'.kind = "forward" /\ goal' # None /\ UNCHANGED <<pos, mode>>
    BY <1>2 DEF Forward, None, place
  <2> QED
    BY <2>1 DEF Bounded, InBounds, WannaIsThere, Reaches, Inside
<1>3. CASE SetXY
  BY <1>3, SetXYBounded
<1>4. CASE Home
  BY <1>4, CenterInside, CenterType, PutBounded DEF Home, Command, going
<1>5. CASE Enclose
  <2>1. pos \in Point /\ goal = None /\ goal' = goal /\ pos' = Within(pos) /\ wanna' = wanna /\ sync' = (sync /\ Inside(pos))
    BY <1>5 DEF Enclose, Command, going, Base, PlaceTypes
  <2>2. Inside(Within(pos)) /\ (Inside(pos) => Within(pos) = pos)
    BY <2>1, WithinInside
  <2>3. InBounds'
    BY <2>1, <2>2 DEF InBounds, Inside
  <2>4. WannaIsThere'
    BY <2>1, <2>2 DEF Bounded, WannaIsThere, Torus
  <2>5. Reaches'
    BY <2>1 DEF Reaches, None
  <2> QED
    BY <2>3, <2>4, <2>5 DEF Bounded
<1>6. CASE Window
  <2>1. mode' = "window" /\ UNCHANGED <<pos, wanna, goal, left, sync>> /\ goal = None
    BY <1>6 DEF Window, Command, going
  <2> QED
    BY <2>1 DEF Bounded, InBounds, WannaIsThere, Reaches, Torus, Plus
<1> QED
  BY <1>1, <1>2, <1>3, <1>4, <1>5, <1>6 DEF Moves

LEMMA BoundedNext == ASSUME Base, Bounded, [Next]_vars PROVE Bounded'
<1>1. CASE UNCHANGED vars
  BY <1>1, RestBounded DEF vars, place, going
<1>2. CASE Advance
  BY <1>2, DrawBounded, JumpBounded, CrossBounded DEF Advance
<1>3. CASE Interrupted
  BY <1>3, InterruptedBounded
<1>4. CASE Draws
  <2>1. CASE Arc
    BY <2>1, PutBounded DEF Arc, Command, going, Base, PlaceTypes, Bounded, InBounds
  <2>2. CASE PenUpDown \/ PenMode \/ SetPenColor \/ SetPenSize \/ Label \/ Fill
    <3>1. Placement
      BY <2>2 DEF PenUpDown, PenMode, SetPenColor, SetPenSize, Label, Fill
    <3> QED
      BY <3>1, RestBounded DEF Placement, place, going
  <2> QED
    BY <1>4, <2>1, <2>2 DEF Draws
<1>5. CASE Moves
  BY <1>5, MovesBounded
<1>6. CASE Records
  <2>1. CASE StartFilled \/ EndFilled \/ BreakFilled \/ Refresh \/ SavePict
    <3>1. UNCHANGED <<place, going, sync>>
      BY <2>1 DEF StartFilled, EndFilled, BreakFilled, Refresh, SavePict
    <3> QED
      BY <3>1, RestBounded DEF place, going
  <2>2. CASE SetBackground \/ LoadPict
    <3>1. UNCHANGED <<pos, mode, goal, left>> /\ goal = None
      BY <2>2 DEF SetBackground, LoadPict, Command, going
    <3>2. \E r : Redraw(r)
      BY <2>2 DEF SetBackground, LoadPict
    <3>3. sync' = FALSE \/ UNCHANGED <<sync, wanna>>
      BY <3>2 DEF Redraw
    <3> QED
      BY <3>1, <3>3, RestBounded DEF Bounded, InBounds, WannaIsThere, Reaches, Inside, None
  <2>3. CASE Clear
    <3>1. (pos' = Center /\ wanna' = Center) \/ UNCHANGED <<pos, wanna, sync>>
      BY <2>3 DEF Clear
    <3>2. UNCHANGED <<mode, goal, left>> /\ goal = None
      BY <2>3 DEF Clear, Command, going
    <3> QED
      BY <3>1, <3>2, CenterInside, CenterType, PutBounded, RestBounded
  <2> QED
    BY <1>6, <2>1, <2>2, <2>3 DEF Records
<1> QED
  BY <1>1, <1>2, <1>3, <1>4, <1>5, <1>6 DEF Next

-----------------------------------------------------------------------------
(* What a redraw shows. *)

\* The entries that belong to no FILLED, what a redraw in state s shows of one,
\* and the fields of its state afterwards.
Plain(e) == e[1] \notin {"STARTFILL", "ENDFILL"}
Seen(s, e) ==
    CASE e[1] = "LINEXY" -> Line(s.dev, e[2], s.pen, "")
      [] e[1] = "LABEL" -> Item(<<"label", s.dev, Ink(s.pen)>>, "")
      [] e[1] = "FILLERUP" -> Item(<<"fill", s.spot, s.pen.color>>, "")
      [] e[1] = "ARC" -> DoArc(e[2], s.pen, TRUE)
      [] OTHER -> <<>>
PenAfter(p, e) ==
    CASE e[1] = "SETPENVIS" -> [p EXCEPT !.vis = e[2]]
      [] e[1] = "SETPENMODE" -> [p EXCEPT !.md = e[2]]
      [] e[1] = "SETPENCOLOR" -> [p EXCEPT !.color = e[2]]
      [] e[1] = "SETPENSIZE" -> [p EXCEPT !.size = e[2]]
      [] OTHER -> p
Fields(u, s, e) ==
    /\ u.last = IF e[1] \in {"LINEXY", "MOVEXY"} THEN e[2] ELSE s.last
    /\ u.dev = IF e[1] \in {"LINEXY", "MOVEXY", "ARC"} THEN e[2] ELSE IF e[1] = "LABEL" THEN s.last ELSE s.dev
    /\ u.spot = IF e[1] \in {"LINEXY", "ARC"} THEN e[2] ELSE IF e[1] \in {"MOVEXY", "LABEL"} THEN s.last ELSE s.spot
    /\ u.imode = IF e[1] = "SETPENMODE" THEN e[3] ELSE s.imode
    /\ u.wanna = IF e[1] = "ARC" THEN e[2] ELSE s.wanna
    /\ u.points = IF s.on /\ e[1] \in {"LINEXY", "MOVEXY"} THEN Append(s.points, e[2]) ELSE s.points
    /\ u.on = s.on /\ u.pcolor = s.pcolor
    /\ u.out = s.out \o Seen(s, e)
    /\ u.pen = PenAfter(s.pen, e)

LEMMA FieldsIs ==
  ASSUME NEW s \in State, NEW e \in Entry, Plain(e), ShortLabels, NEW u, u = Replay1(s, e)
  PROVE  Fields(u, s, e) /\ u \in State
<1>0. /\ s.out \in Seq(Items) /\ s.out \o <<>> = s.out /\ u \in State
      /\ s = [last |-> s.last, dev |-> s.dev, spot |-> s.spot, imode |-> s.imode, wanna |-> s.wanna,
              points |-> s.points, on |-> s.on, out |-> s.out, pcolor |-> s.pcolor, pen |-> s.pen]
  <2>1. s.out \in Seq(Items)
    BY DEF State
  <2>2. s.out \o <<>> = s.out
    BY <2>1, ConcatEmptySeq
  <2>3. u \in State
    BY Replay1Type
  <2> QED
    BY <2>1, <2>2, <2>3 DEF State
<1> DEFINE o == s.out \o Seen(s, e)
           ps == Append(s.points, e[2])
<1>1. CASE e[1] = "LINEXY"
  <2>1. Seen(s, e) = Line(s.dev, e[2], s.pen, "") /\ PenAfter(s.pen, e) = s.pen
    BY <1>1 DEF Seen, PenAfter
  <2>2. u = IF s.on THEN [s EXCEPT !.out = o, !.dev = e[2], !.spot = e[2], !.last = e[2], !.points = ps]
                    ELSE [s EXCEPT !.out = o, !.dev = e[2], !.spot = e[2], !.last = e[2]]
    <3> DEFINE l == Line(s.dev, e[2], s.pen, "")
               t == [s EXCEPT !.out = s.out \o l, !.dev = e[2], !.spot = e[2], !.last = e[2]]
    <3>1. u = Visit(t, e[2])
      BY <1>1 DEF Replay1
    <3>2. o = s.out \o l
      BY <2>1
    <3> HIDE DEF l
    <3>3. t.on = s.on /\ t.points = s.points
      BY <1>0
    <3> QED
      BY <3>1, <3>2, <3>3 DEF Visit
  <2> HIDE DEF o, ps
  <2>3. u.last = e[2] /\ u.dev = e[2] /\ u.spot = e[2] /\ u.imode = s.imode /\ u.wanna = s.wanna /\ u.on = s.on
        /\ u.pcolor = s.pcolor /\ u.pen = s.pen /\ u.out = o /\ u.points = IF s.on THEN ps ELSE s.points
    BY <1>0, <2>2
  <2> QED
    BY <1>0, <1>1, <2>1, <2>3 DEF Fields, o, ps
<1>2. CASE e[1] = "MOVEXY"
  <2>1. Seen(s, e) = <<>> /\ PenAfter(s.pen, e) = s.pen
    BY <1>2 DEF Seen, PenAfter
  <2>2. u = IF s.on THEN [s EXCEPT !.dev = e[2], !.spot = s.last, !.last = e[2], !.points = ps]
                    ELSE [s EXCEPT !.dev = e[2], !.spot = s.last, !.last = e[2]]
    <3> DEFINE t == [s EXCEPT !.dev = e[2], !.spot = s.last, !.last = e[2]]
    <3>1. u = Visit(t, e[2])
      BY <1>2 DEF Replay1
    <3>2. t.on = s.on /\ t.points = s.points
      BY <1>0
    <3> QED
      BY <3>1, <3>2 DEF Visit
  <2> HIDE DEF o, ps
  <2>3. u.last = e[2] /\ u.dev = e[2] /\ u.spot = s.last /\ u.imode = s.imode /\ u.wanna = s.wanna /\ u.on = s.on
        /\ u.pcolor = s.pcolor /\ u.pen = s.pen /\ u.out = s.out /\ u.points = IF s.on THEN ps ELSE s.points
    BY <1>0, <2>2
  <2> QED
    BY <1>0, <1>2, <2>1, <2>3 DEF Fields, o, ps
<1>3. CASE e[1] = "LABEL"
  <2>1. Seen(s, e) = Item(<<"label", s.dev, Ink(s.pen)>>, "") /\ PenAfter(s.pen, e) = s.pen
    BY <1>3 DEF Seen, PenAfter
  <2>2. ~(e[2] > 127)
    <3>1. e[2] \in LabelLens
      BY <1>3, EntryKinds
    <3>2. \A l \in LabelLens : ~(l > 127)
      BY DEF ShortLabels
    <3> QED
      BY <3>1, <3>2
  <2>3. u = [s EXCEPT !.out = o, !.dev = s.last, !.spot = s.last]
    BY <1>3, <2>1, <2>2 DEF Replay1
  <2> HIDE DEF o
  <2>4. u.last = s.last /\ u.dev = s.last /\ u.spot = s.last /\ u.imode = s.imode /\ u.wanna = s.wanna /\ u.on = s.on
        /\ u.pcolor = s.pcolor /\ u.pen = s.pen /\ u.out = o /\ u.points = s.points
    BY <1>0, <2>3
  <2> QED
    BY <1>0, <1>3, <2>1, <2>4 DEF Fields, o
<1>4. CASE e[1] \in {"FILLERUP", "ARC"}
  <2>1. PenAfter(s.pen, e) = s.pen
    BY <1>4 DEF PenAfter
  <2>2. u = IF e[1] = "ARC" THEN [s EXCEPT !.out = o, !.dev = e[2], !.spot = e[2], !.wanna = e[2]] ELSE [s EXCEPT !.out = o]
    BY <1>4 DEF Replay1, Seen
  <2> HIDE DEF o
  <2>3. /\ u.last = s.last /\ u.imode = s.imode /\ u.on = s.on
        /\ u.pcolor = s.pcolor /\ u.pen = s.pen /\ u.out = o /\ u.points = s.points
        /\ u.dev = IF e[1] = "ARC" THEN e[2] ELSE s.dev
        /\ u.spot = IF e[1] = "ARC" THEN e[2] ELSE s.spot
        /\ u.wanna = IF e[1] = "ARC" THEN e[2] ELSE s.wanna
    BY <1>0, <2>2
  <2> QED
    BY <1>0, <1>4, <2>1, <2>3 DEF Fields, o
<1>5. CASE e[1] \in {"SETPENVIS", "SETPENMODE", "SETPENCOLOR", "SETPENSIZE"}
  <2> DEFINE p == PenAfter(s.pen, e)
  <2>1. Seen(s, e) = <<>>
    BY <1>5 DEF Seen
  <2>2. u = IF e[1] = "SETPENMODE" THEN [s EXCEPT !.pen = p, !.imode = e[3]] ELSE [s EXCEPT !.pen = p]
    BY <1>5 DEF Replay1, PenAfter
  <2> HIDE DEF p, o, ps
  <2>3. u.last = s.last /\ u.dev = s.dev /\ u.spot = s.spot /\ u.wanna = s.wanna /\ u.on = s.on
        /\ u.imode = (IF e[1] = "SETPENMODE" THEN e[3] ELSE s.imode)
        /\ u.pcolor = s.pcolor /\ u.pen = p /\ u.out = s.out /\ u.points = s.points
    <3>1. CASE e[1] = "SETPENMODE"
      <4>1. u = [s EXCEPT !.pen = p, !.imode = e[3]]
        BY <2>2, <3>1
      <4> QED
        BY <1>0, <3>1, <4>1
    <3>2. CASE e[1] # "SETPENMODE"
      <4>1. u = [s EXCEPT !.pen = p]
        BY <2>2, <3>2
      <4> QED
        BY <1>0, <3>2, <4>1
    <3> QED
      BY <3>1, <3>2
  <2>4. e[1] \notin {"LINEXY", "MOVEXY", "ARC", "LABEL"}
    BY <1>5
  <2>5. u.out = s.out \o Seen(s, e)
    BY <1>0, <2>1, <2>3
  <2> QED
    BY <1>0, <2>3, <2>4, <2>5 DEF Fields, p
<1> QED
  BY <1>1, <1>2, <1>3, <1>4, <1>5, EntryKinds DEF Plain

\* The colour of the polygon that is to come makes no other difference.
LEMMA ColorApart ==
  ASSUME NEW s \in State, NEW e \in Entry, Plain(e), ShortLabels
  PROVE  Replay1([s EXCEPT !.pcolor = 3], e) = [Replay1(s, e) EXCEPT !.pcolor = 3]
<1> DEFINE t == [s EXCEPT !.pcolor = 3]
           u == Replay1(s, e)
           v == Replay1(t, e)
<1>1. t \in State /\ t.last = s.last /\ t.dev = s.dev /\ t.spot = s.spot /\ t.imode = s.imode /\ t.wanna = s.wanna
      /\ t.points = s.points /\ t.on = s.on /\ t.out = s.out /\ t.pen = s.pen /\ t.pcolor = 3
  BY DEF State
<1> HIDE DEF t
<1>2. Fields(u, s, e) /\ u \in State /\ Fields(v, t, e) /\ v \in State
  BY <1>1, FieldsIs
<1>3. Seen(t, e) = Seen(s, e)
  BY <1>1 DEF Seen
<1> HIDE DEF u, v
<1>4. v.last = u.last /\ v.dev = u.dev /\ v.spot = u.spot /\ v.imode = u.imode /\ v.wanna = u.wanna
      /\ v.points = u.points /\ v.on = u.on /\ v.out = u.out /\ v.pen = u.pen /\ v.pcolor = 3
  BY <1>1, <1>2, <1>3 DEF Fields
<1>5. v = [u EXCEPT !.pcolor = 3]
  BY <1>2, <1>4 DEF State
<1> QED
  BY <1>5 DEF t, u, v

LEMMA SameConcat ==
  ASSUME NEW a \in Seq(Items), NEW b \in Seq(Items), NEW c \in Seq(Items), NEW d \in Seq(Items), Same(a, c), Same(b, d)
  PROVE  Same(a \o b, c \o d)
<1> DEFINE x == a \o b
           y == c \o d
           n == Len(a)
           m == Len(b)
<1>0. Len(c) = Len(a) /\ Len(d) = Len(b)
  BY DEF Same
<1>1. n \in Nat /\ m \in Nat /\ Len(c) = n /\ Len(d) = m /\ DOMAIN c = 1 .. n /\ DOMAIN d = 1 .. m
  BY <1>0, LenProperties
<1>2. x \in Seq(Items) /\ Len(x) = n + m /\ \A i \in 1 .. n + m : x[i] = IF i <= n THEN a[i] ELSE b[i - n]
  <2>1. x \in Seq(Items) /\ Len(x) = Len(a) + Len(b)
        /\ \A i \in 1 .. Len(a) + Len(b) : x[i] = IF i <= Len(a) THEN a[i] ELSE b[i - Len(a)]
    BY ConcatProperties
  <2> QED
    BY <2>1
<1>3. y \in Seq(Items) /\ Len(y) = n + m /\ \A i \in 1 .. n + m : y[i] = IF i <= n THEN c[i] ELSE d[i - n]
  <2>1. y \in Seq(Items) /\ Len(y) = Len(c) + Len(d)
        /\ \A i \in 1 .. Len(c) + Len(d) : y[i] = IF i <= Len(c) THEN c[i] ELSE d[i - Len(c)]
    BY ConcatProperties
  <2> QED
    BY <1>0, <2>1
<1> HIDE DEF x, y, n, m
<1>4. ASSUME NEW i \in 1 .. n + m
      PROVE  IF x[i].tag = "" THEN x[i].what = y[i].what ELSE x[i].what[1] = y[i].what[1]
  <2>1. i \in Int /\ i >= 1 /\ i <= n + m
    BY <1>1
  <2>2. CASE i <= n
    <3>1. i \in DOMAIN c /\ x[i] = a[i] /\ y[i] = c[i]
      BY <1>1, <1>2, <1>3, <2>1, <2>2
    <3> QED
      BY <3>1 DEF Same
  <2>3. CASE i > n
    <3> DEFINE j == i - n
    <3>1. ~(i <= n) /\ j \in 1 .. m
      BY <1>1, <2>1, <2>3
    <3>2. j \in DOMAIN d /\ x[i] = b[j] /\ y[i] = d[j]
      BY <1>1, <1>2, <1>3, <3>1
    <3> HIDE DEF j
    <3> QED
      BY <3>2 DEF Same
  <2>4. i <= n \/ i > n
    BY <1>1, <2>1
  <2> QED
    BY <2>2, <2>3, <2>4, Zenon
<1>5. DOMAIN y = 1 .. n + m /\ Len(x) = Len(y)
  BY <1>2, <1>3, LenProperties
<1>6. Same(x, y)
  BY <1>4, <1>5 DEF Same
<1> QED
  BY <1>6 DEF x, y

LEMMA SameAgain == ASSUME NEW a PROVE Same(a, a)
BY DEF Same

LEMMA OnlyOne == ASSUME NEW S, NEW y \in Seq(S), Len(y) = 1 PROVE \A i \in DOMAIN y : i = 1
<1>1. DOMAIN y = 1 .. 1
  BY LenProperties
<1> QED
  BY <1>1

LEMMA SameItem ==
  ASSUME NEW w \in What, NEW u \in What, NEW t \in {"", "stray"}, w[1] = u[1], t = "" => w = u
  PROVE  Same(Item(w, t), Item(u, ""))
<1> DEFINE x == Item(w, t)
           y == Item(u, "")
<1>1. x \in Seq(Items) /\ Len(x) = 1 /\ x[1].what = w /\ x[1].tag = t
  BY ItemType
<1>2. y \in Seq(Items) /\ Len(y) = 1 /\ y[1].what = u
  BY ItemType
<1> HIDE DEF x, y
<1>3. \A i \in DOMAIN y : i = 1
  BY <1>2, OnlyOne
<1>4. Same(x, y)
  BY <1>1, <1>2, <1>3 DEF Same
<1> QED
  BY <1>4 DEF x, y

LEMMA SameLine ==
  ASSUME NEW a \in Point, NEW b \in Point, NEW c \in Point, NEW e \in Point, NEW p \in PenRecord,
         NEW t \in {"", "stray"}, t = "" => a = c /\ b = e
  PROVE  Same(Line(a, b, p, t), Line(c, e, p, ""))
<1>1. CASE Vis(p)
  <2> DEFINE w == <<"line", a, b, Ink(p)>>
             u == <<"line", c, e, Ink(p)>>
  <2>1. w \in What /\ u \in What /\ w[1] = u[1] /\ (t = "" => w = u)
    BY PenType, WhatMade
  <2>2. Line(a, b, p, t) = Item(w, t) /\ Line(c, e, p, "") = Item(u, "")
    BY <1>1 DEF Line
  <2> HIDE DEF w, u
  <2>3. Same(Item(w, t), Item(u, ""))
    BY <2>1, SameItem
  <2> QED
    BY <2>2, <2>3
<1>2. CASE ~Vis(p)
  <2>1. Line(a, b, p, t) = <<>> /\ Line(c, e, p, "") = <<>>
    BY <1>2 DEF Line
  <2> QED
    BY <2>1, SameAgain
<1> QED
  BY <1>1, <1>2

\* What a redraw that starts with the pen's visibility v makes of a record, and
\* of the one where STARTFILL has got its colour while the FILLED f runs.
St(r, v) == Run(Entries(r), v)
InFill(r, f, v, t) ==
    /\ Entries(r) = Append(Before(r, f), Start(0)) \o t
    /\ Run(Append(Before(r, f), Start(3)) \o t, v) = [St(r, v) EXCEPT !.pcolor = 3]
    /\ f.tag = "" => St(r, v).points = <<f.at>> \o Visited(<<Start(3)>> \o t)
Midway(r, f, v) == f.on => \E t \in Seq(Entry) : InFill(r, f, v, t)

LEMMA SaveSt ==
  ASSUME NEW r, Good(r), NEW e \in Entry, NEW v \in Visibility, ShortLabels
  PROVE  St(Save(r, e), v) = Replay1(St(r, v), e) /\ St(r, v) \in State
<1>1. Wrote(r, Save(r, e), e) /\ Entries(r) \in Seq(Entry)
  BY SaveWrites, EntriesType
<1>2. Entries(Save(r, e)) = Append(Entries(r), e)
  BY <1>1 DEF Wrote
<1>3. Run(Append(Entries(r), e), v) = Replay1(Run(Entries(r), v), e) /\ Run(Entries(r), v) \in State
  BY <1>1, RunAppend, RunType
<1> QED
  BY <1>2, <1>3 DEF St

LEMMA StartMade == Start(0) \in Entry /\ Start(3) \in Entry
<1>1. 0 \in Int /\ 3 \in Int
  OBVIOUS
<1> QED
  BY <1>1, EntryMade, Zenon DEF Start

LEMMA SaveInFill ==
  ASSUME NEW r, NEW f, Solid(r, f), NEW e \in Entry, Plain(e), NEW v \in Visibility, f.on, St(r, v).on,
         NEW t \in Seq(Entry), InFill(r, f, v, t), f.at \in Point, ShortLabels
  PROVE  InFill(Save(r, e), f, v, Append(t, e))
<1> DEFINE q == Save(r, e)
           h == Append(Before(r, f), Start(0))
           k == Append(Before(r, f), Start(3))
           o == <<Start(3)>>
           s == St(r, v)
           z == <<f.at>>
<1>1. Good(r) /\ FilledAt(r, f, 0)
  BY DEF Solid
<1>2. Good(q) /\ Keeps(r, q) /\ Entries(q) = Append(Entries(r), e)
  BY <1>1, SaveWrites DEF Wrote
<1>3. Before(q, f) = Before(r, f)
  <2> HIDE DEF q
  <2> QED
    BY <1>1, <1>2, KeepsFilled
<1>4. h \in Seq(Entry) /\ k \in Seq(Entry) /\ o \in Seq(Entry) /\ z \in Seq(Point)
  <2>1. Before(r, f) \in Seq(Entry)
    BY <1>1, BeforeType
  <2> QED
    BY <2>1, StartMade, AppendProperties, One
<1>5. Entries(r) = h \o t /\ Run(k \o t, v) = [s EXCEPT !.pcolor = 3]
      /\ (f.tag = "" => s.points = z \o Visited(o \o t))
  BY DEF InFill
<1>6. s \in State /\ St(q, v) = Replay1(s, e) /\ s.on
  BY <1>1, SaveSt
<1> HIDE DEF q, h, k, o, s, z
<1>7. Entries(q) = h \o Append(t, e)
  <2>1. h \o Append(t, e) = Append(h \o t, e)
    BY <1>4, ConcatAppend
  <2> QED
    BY <1>2, <1>5, <2>1
<1>8. Run(k \o Append(t, e), v) = [St(q, v) EXCEPT !.pcolor = 3]
  <2>1. k \o t \in Seq(Entry) /\ k \o Append(t, e) = Append(k \o t, e)
    BY <1>4, ConcatProperties, ConcatAppend
  <2>2. Run(Append(k \o t, e), v) = Replay1(Run(k \o t, v), e)
    BY <2>1, RunAppend
  <2>3. Replay1([s EXCEPT !.pcolor = 3], e) = [Replay1(s, e) EXCEPT !.pcolor = 3]
    BY <1>6, ColorApart
  <2> QED
    BY <1>5, <1>6, <2>1, <2>2, <2>3
<1>9. ASSUME f.tag = "" PROVE St(q, v).points = z \o Visited(o \o Append(t, e))
  <2> DEFINE u == Replay1(s, e)
             y == o \o t
             w == Visited(y)
  <2>1. Fields(u, s, e)
    BY <1>6, FieldsIs
  <2>2. u.points = IF e[1] \in {"LINEXY", "MOVEXY"} THEN Append(s.points, e[2]) ELSE s.points
    BY <1>6, <2>1 DEF Fields
  <2>3. y \in Seq(Entry) /\ o \o Append(t, e) = Append(y, e)
    BY <1>4, ConcatProperties, ConcatAppend
  <2>4. s.points = z \o w
    BY <1>5, <1>9
  <2> HIDE DEF u, y
  <2>5. w \in Seq(Point) /\ Visited(Append(y, e)) = (IF e[1] \in {"LINEXY", "MOVEXY"} THEN Append(w, e[2]) ELSE w)
    BY <2>3, VisitedType, VisitedAppend
  <2> HIDE DEF w
  <2>6. CASE e[1] \in {"LINEXY", "MOVEXY"}
    <3>1. e[2] \in Point
      BY <2>6, EntryKinds
    <3>2. z \o Append(w, e[2]) = Append(z \o w, e[2])
      BY <1>4, <2>5, <3>1, ConcatAppend
    <3>3. u.points = Append(z \o w, e[2]) /\ Visited(Append(y, e)) = Append(w, e[2])
      BY <2>2, <2>4, <2>5, <2>6
    <3> QED
      BY <1>6, <2>3, <3>2, <3>3 DEF u
  <2>7. CASE e[1] \notin {"LINEXY", "MOVEXY"}
    <3>1. u.points = z \o w /\ Visited(Append(y, e)) = w
      BY <2>2, <2>4, <2>5, <2>7
    <3> QED
      BY <1>6, <2>3, <3>1 DEF u
  <2> QED
    BY <2>6, <2>7
<1> QED
  BY <1>3, <1>7, <1>8, <1>9 DEF InFill, q, h, k, o, z

\* A record, read back with the pen's visibility v, shows d and leaves the pen q,
\* the mode m, the device at a and the turtle at b.
Shows(s, f, d, q, m, a, b) ==
    s \in State /\ d \in Seq(Items) /\ s.pen = q /\ s.imode = m /\ s.on = f.on /\ s.dev = a /\ s.last = b /\ Same(d, s.out)
Told(r, f, v, d, q, m, a, b) ==
    Solid(r, f) /\ (f.on => f.at \in Point) /\ Midway(r, f, v) /\ Shows(St(r, v), f, d, q, m, a, b)

ModeAfter(m, e) == IF e[1] = "SETPENMODE" THEN e[3] ELSE m
DevAfter(a, b, e) == IF e[1] \in {"LINEXY", "MOVEXY", "ARC"} THEN e[2] ELSE IF e[1] = "LABEL" THEN b ELSE a
LastAfter(b, e) == IF e[1] \in {"LINEXY", "MOVEXY"} THEN e[2] ELSE b

LEMMA SaveTells ==
  ASSUME NEW r, NEW f, NEW v \in Visibility, NEW d, NEW q, NEW m, NEW a, NEW b, Told(r, f, v, d, q, m, a, b),
         NEW e \in Entry, Plain(e), NEW x \in Seq(Items), Same(x, St(r, v).out \o Seen(St(r, v), e)), ShortLabels, BigBuffers
  PROVE  Told(Save(r, e), f, v, x, PenAfter(q, e), ModeAfter(m, e), DevAfter(a, b, e), LastAfter(b, e))
<1> DEFINE s == St(r, v)
           u == St(Save(r, e), v)
<1>1. Solid(r, f) /\ (f.on => f.at \in Point) /\ Midway(r, f, v) /\ Shows(s, f, d, q, m, a, b) /\ Good(r)
  BY DEF Told, Solid
<1>2. Solid(Save(r, e), f)
  BY <1>1, SaveSolid
<1>3. u = Replay1(s, e) /\ s \in State
  BY <1>1, SaveSt
<1>4. Midway(Save(r, e), f, v)
  <2> SUFFICES ASSUME f.on PROVE \E t \in Seq(Entry) : InFill(Save(r, e), f, v, t)
    BY DEF Midway
  <2>1. PICK t \in Seq(Entry) : InFill(r, f, v, t)
    BY <1>1 DEF Midway
  <2>2. St(r, v).on
    BY <1>1 DEF Shows
  <2>3. InFill(Save(r, e), f, v, Append(t, e))
    BY <1>1, <2>1, <2>2, SaveInFill
  <2>4. Append(t, e) \in Seq(Entry)
    BY AppendProperties
  <2> QED
    BY <2>3, <2>4
<1> HIDE DEF s, u
<1>5. Fields(u, s, e) /\ u \in State
  BY <1>3, FieldsIs
<1>6. Shows(u, f, x, PenAfter(q, e), ModeAfter(m, e), DevAfter(a, b, e), LastAfter(b, e))
  BY <1>1, <1>5 DEF Shows, Fields, ModeAfter, DevAfter, LastAfter, s
<1> QED
  BY <1>1, <1>2, <1>4, <1>6 DEF Told, u

LEMMA ToldTypes ==
  ASSUME NEW r, NEW f, NEW v, NEW d, NEW q, NEW m, NEW a, NEW b, Told(r, f, v, d, q, m, a, b)
  PROVE  /\ Solid(r, f) /\ Good(r) /\ d \in Seq(Items) /\ q \in PenRecord /\ m \in Mode /\ a \in Point /\ b \in Point
         /\ St(r, v) \in State /\ St(r, v).dev = a /\ St(r, v).last = b /\ St(r, v).pen = q /\ Same(d, St(r, v).out)
BY DEF Told, Shows, Solid, State

LEMMA ToldMore ==
  ASSUME NEW r, NEW f, NEW v \in Visibility, NEW d, NEW q, NEW m, NEW a, NEW b, Told(r, f, v, d, q, m, a, b),
         NEW e \in Entry, Plain(e), NEW z \in Seq(Items), NEW y \in Seq(Items), y = Seen(St(r, v), e), Same(z, y),
         ShortLabels, BigBuffers
  PROVE  Told(Save(r, e), f, v, d \o z, PenAfter(q, e), ModeAfter(m, e), DevAfter(a, b, e), LastAfter(b, e))
<1>1. d \in Seq(Items) /\ St(r, v) \in State /\ Same(d, St(r, v).out)
  BY ToldTypes
<1>2. St(r, v).out \in Seq(Items)
  BY <1>1 DEF State
<1>3. Same(d \o z, St(r, v).out \o y) /\ d \o z \in Seq(Items)
  BY <1>1, <1>2, SameConcat, ConcatProperties
<1> QED
  BY <1>3, SaveTells

LEMMA ToldLine ==
  ASSUME NEW r, NEW f, NEW v \in Visibility, NEW d, NEW q, NEW m, NEW a, NEW b, Told(r, f, v, d, q, m, a, b),
         NEW p \in Point, NEW x \in Point, NEW y \in Point, NEW t \in {"", "stray"}, t = "" => x = a /\ y = p, ShortLabels, BigBuffers
  PROVE  Told(SaveLine(r, p), f, v, d \o Line(x, y, q, t), q, m, p, p)
<1> DEFINE e == <<"LINEXY", p>>
<1>1. q \in PenRecord /\ a \in Point /\ St(r, v).dev = a /\ St(r, v).pen = q
  BY ToldTypes
<1>2. e \in Entry /\ Plain(e) /\ e[1] = "LINEXY" /\ e[2] = p
  BY EntryMade DEF Plain
<1>3. SaveLine(r, p) = Save(r, e)
  BY DEF SaveLine
<1> HIDE DEF e
<1>4. Seen(St(r, v), e) = Line(a, p, q, "")
  BY <1>1, <1>2 DEF Seen
<1>5. "" \in {"", "stray"}
  OBVIOUS
<1>6. Line(a, p, q, "") \in Seq(Items) /\ Line(x, y, q, t) \in Seq(Items) /\ Same(Line(x, y, q, t), Line(a, p, q, ""))
  BY <1>1, <1>5, LineType, SameLine
<1>7. Told(Save(r, e), f, v, d \o Line(x, y, q, t), PenAfter(q, e), ModeAfter(m, e), DevAfter(a, b, e), LastAfter(b, e))
  BY <1>2, <1>4, <1>6, ToldMore
<1>8. PenAfter(q, e) = q /\ ModeAfter(m, e) = m /\ DevAfter(a, b, e) = p /\ LastAfter(b, e) = p
  BY <1>2 DEF PenAfter, ModeAfter, DevAfter, LastAfter
<1> QED
  BY <1>3, <1>7, <1>8

\* Entries that draw nothing.
LEMMA ToldQuiet ==
  ASSUME NEW r, NEW f, NEW v \in Visibility, NEW d, NEW q, NEW m, NEW a, NEW b, Told(r, f, v, d, q, m, a, b),
         NEW e \in Entry, e[1] \in {"MOVEXY", "SETPENVIS", "SETPENMODE", "SETPENCOLOR", "SETPENSIZE"}, ShortLabels, BigBuffers
  PROVE  Told(Save(r, e), f, v, d, PenAfter(q, e), ModeAfter(m, e), DevAfter(a, b, e), LastAfter(b, e))
<1>1. d \in Seq(Items) /\ <<>> \in Seq(Items) /\ d \o <<>> = d /\ Same(<<>>, <<>>)
  BY ToldTypes, ConcatEmptySeq, SameAgain, EmptySeq
<1>2. Plain(e) /\ Seen(St(r, v), e) = <<>>
  BY DEF Plain, Seen
<1>3. Told(Save(r, e), f, v, d \o <<>>, PenAfter(q, e), ModeAfter(m, e), DevAfter(a, b, e), LastAfter(b, e))
  BY <1>1, <1>2, ToldMore
<1> QED
  BY <1>1, <1>3

LEMMA ToldMove ==
  ASSUME NEW r, NEW f, NEW v \in Visibility, NEW d, NEW q, NEW m, NEW a, NEW b, Told(r, f, v, d, q, m, a, b),
         NEW p \in Point, ShortLabels, BigBuffers
  PROVE  Told(Save(r, <<"MOVEXY", p>>), f, v, d, q, m, p, p)
<1> DEFINE e == <<"MOVEXY", p>>
<1>1. e \in Entry /\ e[1] = "MOVEXY" /\ e[2] = p
  BY EntryMade
<1> HIDE DEF e
<1>2. Told(Save(r, e), f, v, d, PenAfter(q, e), ModeAfter(m, e), DevAfter(a, b, e), LastAfter(b, e))
  BY <1>1, ToldQuiet
<1>3. PenAfter(q, e) = q /\ ModeAfter(m, e) = m /\ DevAfter(a, b, e) = p /\ LastAfter(b, e) = p
  BY <1>1 DEF PenAfter, ModeAfter, DevAfter, LastAfter
<1>4. Told(Save(r, e), f, v, d, q, m, p, p)
  BY <1>2, <1>3
<1> QED
  BY <1>4 DEF e

LEMMA ToldVis ==
  ASSUME NEW r, NEW f, NEW v \in Visibility, NEW d, NEW q, NEW m, NEW a, NEW b, Told(r, f, v, d, q, m, a, b),
         NEW k \in Visibility, ShortLabels, BigBuffers
  PROVE  Told(Save(r, <<"SETPENVIS", k>>), f, v, d, [q EXCEPT !.vis = k], m, a, b)
<1> DEFINE e == <<"SETPENVIS", k>>
<1>1. e \in Entry /\ e[1] = "SETPENVIS" /\ e[2] = k
  BY EntryMade
<1> HIDE DEF e
<1>2. Told(Save(r, e), f, v, d, PenAfter(q, e), ModeAfter(m, e), DevAfter(a, b, e), LastAfter(b, e))
  BY <1>1, ToldQuiet
<1>3. PenAfter(q, e) = [q EXCEPT !.vis = k] /\ ModeAfter(m, e) = m /\ DevAfter(a, b, e) = a /\ LastAfter(b, e) = b
  BY <1>1 DEF PenAfter, ModeAfter, DevAfter, LastAfter
<1>4. Told(Save(r, e), f, v, d, [q EXCEPT !.vis = k], m, a, b)
  BY <1>2, <1>3
<1> QED
  BY <1>4 DEF e

LEMMA ToldColor ==
  ASSUME NEW r, NEW f, NEW v \in Visibility, NEW d, NEW q, NEW m, NEW a, NEW b, Told(r, f, v, d, q, m, a, b),
         NEW k \in Int, ShortLabels, BigBuffers
  PROVE  Told(Save(r, <<"SETPENCOLOR", k>>), f, v, d, [q EXCEPT !.color = k], m, a, b)
<1> DEFINE e == <<"SETPENCOLOR", k>>
<1>1. e \in Entry /\ e[1] = "SETPENCOLOR" /\ e[2] = k
  BY EntryMade
<1> HIDE DEF e
<1>2. Told(Save(r, e), f, v, d, PenAfter(q, e), ModeAfter(m, e), DevAfter(a, b, e), LastAfter(b, e))
  BY <1>1, ToldQuiet
<1>3. PenAfter(q, e) = [q EXCEPT !.color = k] /\ ModeAfter(m, e) = m /\ DevAfter(a, b, e) = a /\ LastAfter(b, e) = b
  BY <1>1 DEF PenAfter, ModeAfter, DevAfter, LastAfter
<1>4. Told(Save(r, e), f, v, d, [q EXCEPT !.color = k], m, a, b)
  BY <1>2, <1>3
<1> QED
  BY <1>4 DEF e

LEMMA ToldSize ==
  ASSUME NEW r, NEW f, NEW v \in Visibility, NEW d, NEW q, NEW m, NEW a, NEW b, Told(r, f, v, d, q, m, a, b),
         NEW k \in Int, ShortLabels, BigBuffers
  PROVE  Told(Save(r, <<"SETPENSIZE", k>>), f, v, d, [q EXCEPT !.size = k], m, a, b)
<1> DEFINE e == <<"SETPENSIZE", k>>
<1>1. e \in Entry /\ e[1] = "SETPENSIZE" /\ e[2] = k
  BY EntryMade
<1> HIDE DEF e
<1>2. Told(Save(r, e), f, v, d, PenAfter(q, e), ModeAfter(m, e), DevAfter(a, b, e), LastAfter(b, e))
  BY <1>1, ToldQuiet
<1>3. PenAfter(q, e) = [q EXCEPT !.size = k] /\ ModeAfter(m, e) = m /\ DevAfter(a, b, e) = a /\ LastAfter(b, e) = b
  BY <1>1 DEF PenAfter, ModeAfter, DevAfter, LastAfter
<1>4. Told(Save(r, e), f, v, d, [q EXCEPT !.size = k], m, a, b)
  BY <1>2, <1>3
<1> QED
  BY <1>4 DEF e

LEMMA ToldMode ==
  ASSUME NEW r, NEW f, NEW v \in Visibility, NEW d, NEW q, NEW m, NEW a, NEW b, Told(r, f, v, d, q, m, a, b),
         NEW p \in PenRecord, NEW k \in Mode, ShortLabels, BigBuffers
  PROVE  Told(SaveMode(r, p, k), f, v, d, [[q EXCEPT !.md = p.md] EXCEPT !.color = p.color], k, a, b)
<1> DEFINE e == <<"SETPENMODE", p.md, k>>
           g == Save(r, e)
           h == [q EXCEPT !.md = p.md]
<1>1. p.md \in Mode /\ p.color \in Int
  BY PenType
<1>2. e \in Entry /\ e[1] = "SETPENMODE" /\ e[2] = p.md /\ e[3] = k
  BY <1>1, EntryMade
<1>3. SaveMode(r, p, k) = Save(g, <<"SETPENCOLOR", p.color>>)
  BY DEF SaveMode, SaveColor
<1> HIDE DEF e
<1>4. Told(g, f, v, d, PenAfter(q, e), ModeAfter(m, e), DevAfter(a, b, e), LastAfter(b, e))
  BY <1>2, ToldQuiet
<1>5. PenAfter(q, e) = h /\ ModeAfter(m, e) = k /\ DevAfter(a, b, e) = a /\ LastAfter(b, e) = b
  BY <1>2 DEF PenAfter, ModeAfter, DevAfter, LastAfter
<1> HIDE DEF g, h
<1>6. Told(g, f, v, d, h, k, a, b)
  BY <1>4, <1>5
<1>7. Told(Save(g, <<"SETPENCOLOR", p.color>>), f, v, d, [h EXCEPT !.color = p.color], k, a, b)
  BY <1>1, <1>6, ToldColor
<1> QED
  BY <1>3, <1>7 DEF h

LEMMA ToldLabel ==
  ASSUME NEW r, NEW f, NEW v \in Visibility, NEW d, NEW q, NEW m, NEW a, NEW b, Told(r, f, v, d, q, m, a, b),
         NEW l \in LabelLens, NEW y \in Point, NEW t \in {"", "stray"}, t = "" => y = a, ShortLabels, BigBuffers
  PROVE  Told(SaveString(r, l), f, v, d \o Item(<<"label", y, Ink(q)>>, t), q, m, b, b)
<1> DEFINE e == <<"LABEL", l>>
           w == <<"label", y, Ink(q)>>
           u == <<"label", a, Ink(q)>>
<1>1. q \in PenRecord /\ a \in Point /\ St(r, v).dev = a /\ St(r, v).pen = q
  BY ToldTypes
<1>2. e \in Entry /\ Plain(e) /\ e[1] = "LABEL"
  BY EntryMade DEF Plain
<1>3. SaveString(r, l) = Save(r, e)
  BY DEF SaveString
<1>4. Ink(q) \in InkRecord /\ "" \in {"", "stray"}
  BY <1>1, PenType
<1>5. w \in What /\ u \in What /\ w[1] = u[1] /\ (t = "" => w = u)
  BY <1>1, <1>4, WhatMade
<1> HIDE DEF e
<1>6. Seen(St(r, v), e) = Item(u, "")
  BY <1>1, <1>2 DEF Seen
<1> HIDE DEF w, u
<1>7. Item(w, t) \in Seq(Items) /\ Item(u, "") \in Seq(Items) /\ Same(Item(w, t), Item(u, ""))
  BY <1>4, <1>5, ItemType, SameItem
<1>8. Told(Save(r, e), f, v, d \o Item(w, t), PenAfter(q, e), ModeAfter(m, e), DevAfter(a, b, e), LastAfter(b, e))
  BY <1>2, <1>6, <1>7, ToldMore
<1>9. PenAfter(q, e) = q /\ ModeAfter(m, e) = m /\ DevAfter(a, b, e) = b /\ LastAfter(b, e) = b
  BY <1>2 DEF PenAfter, ModeAfter, DevAfter, LastAfter
<1> QED
  BY <1>3, <1>8, <1>9 DEF w

Floods(s, y, t) == t = "" => y = s.spot

LEMMA ToldFill ==
  ASSUME NEW r, NEW f, NEW v \in Visibility, NEW d, NEW q, NEW m, NEW a, NEW b, Told(r, f, v, d, q, m, a, b),
         NEW s, s = St(r, v), NEW y \in Point, NEW t \in {"", "stray"}, Floods(s, y, t), ShortLabels, BigBuffers
  PROVE  Told(Save(r, <<"FILLERUP">>), f, v, d \o Item(<<"fill", y, q.color>>, t), q, m, a, b)
<1> DEFINE e == <<"FILLERUP">>
           g == s.spot
           w == <<"fill", y, q.color>>
           u == <<"fill", g, q.color>>
<1>1. q \in PenRecord /\ s \in State /\ s.pen = q
  BY ToldTypes
<1>2. e \in Entry /\ Plain(e) /\ e[1] = "FILLERUP"
  BY EntryMade DEF Plain
<1>3. g \in Point /\ q.color \in Int /\ "" \in {"", "stray"}
  BY <1>1, PenType DEF State
<1>4. w \in What /\ u \in What /\ w[1] = u[1] /\ (t = "" => w = u)
  BY <1>3, WhatMade DEF Floods
<1> HIDE DEF e
<1>5. Seen(s, e) = Item(u, "")
  BY <1>1, <1>2 DEF Seen
<1> HIDE DEF w, u, g
<1>6. Item(w, t) \in Seq(Items) /\ Item(u, "") \in Seq(Items) /\ Same(Item(w, t), Item(u, ""))
  BY <1>3, <1>4, ItemType, SameItem
<1>7. Told(Save(r, e), f, v, d \o Item(w, t), PenAfter(q, e), ModeAfter(m, e), DevAfter(a, b, e), LastAfter(b, e))
  BY <1>2, <1>5, <1>6, ToldMore
<1>8. PenAfter(q, e) = q /\ ModeAfter(m, e) = m /\ DevAfter(a, b, e) = a /\ LastAfter(b, e) = b
  BY <1>2 DEF PenAfter, ModeAfter, DevAfter, LastAfter
<1>9. Told(Save(r, e), f, v, d \o Item(w, t), q, m, a, b)
  BY <1>7, <1>8
<1> QED
  BY <1>9 DEF e, w

LEMMA SameArc ==
  ASSUME NEW c \in Point, NEW p \in PenRecord
  PROVE  Same(DoArc(c, p, FALSE), DoArc(c, p, TRUE))
<1> DEFINE x == Line(Up(c), Side(c), p, "stray")
           o == Line(Side(c), Side(c), p, "")
           y == Line(Side(c), Down(c), p, "")
           z == Line(Down(c), Down(c), p, "")
<1>1. Up(c) \in Point /\ Side(c) \in Point /\ Down(c) \in Point /\ "" \in {"", "stray"} /\ "stray" \in {"", "stray"} /\ "stray" # ""
  BY AroundType
<1>2. x \in Seq(Items) /\ o \in Seq(Items) /\ y \in Seq(Items) /\ z \in Seq(Items)
  BY <1>1, LineType
<1>3. Same(x, o)
  BY <1>1, SameLine
<1>4. DoArc(c, p, FALSE) = (x \o y) \o z /\ DoArc(c, p, TRUE) = (o \o y) \o z
  BY DEF DoArc
<1> HIDE DEF x, o, y, z
<1>5. Same(x \o y, o \o y) /\ x \o y \in Seq(Items) /\ o \o y \in Seq(Items)
  BY <1>2, <1>3, SameAgain, SameConcat, ConcatProperties
<1>6. Same((x \o y) \o z, (o \o y) \o z)
  BY <1>2, <1>5, SameAgain, SameConcat
<1> QED
  BY <1>4, <1>6

LEMMA ToldArc ==
  ASSUME NEW r, NEW f, NEW v \in Visibility, NEW d, NEW q, NEW m, NEW a, NEW b, Told(r, f, v, d, q, m, a, b),
         NEW c \in Point, ShortLabels, BigBuffers
  PROVE  Told(SaveArc(r, c), f, v, d \o DoArc(c, q, FALSE), q, m, c, b)
<1> DEFINE e == <<"ARC", c>>
<1>1. q \in PenRecord /\ St(r, v).pen = q
  BY ToldTypes
<1>2. e \in Entry /\ Plain(e) /\ e[1] = "ARC" /\ e[2] = c
  BY EntryMade DEF Plain
<1>3. SaveArc(r, c) = Save(r, e)
  BY DEF SaveArc
<1> HIDE DEF e
<1>4. Seen(St(r, v), e) = DoArc(c, q, TRUE)
  BY <1>1, <1>2 DEF Seen
<1>5. DoArc(c, q, TRUE) \in Seq(Items) /\ DoArc(c, q, FALSE) \in Seq(Items)
  BY <1>1, DoArcType
<1>6. Same(DoArc(c, q, FALSE), DoArc(c, q, TRUE))
  BY <1>1, SameArc
<1>7. Told(Save(r, e), f, v, d \o DoArc(c, q, FALSE), PenAfter(q, e), ModeAfter(m, e), DevAfter(a, b, e), LastAfter(b, e))
  BY <1>2, <1>4, <1>5, <1>6, ToldMore
<1>8. PenAfter(q, e) = q /\ ModeAfter(m, e) = m /\ DevAfter(a, b, e) = c /\ LastAfter(b, e) = b
  BY <1>2 DEF PenAfter, ModeAfter, DevAfter, LastAfter
<1> QED
  BY <1>3, <1>7, <1>8

\* A line drawn with the pen up, and the pen as it was afterwards.
LEMMA ToldUnseen ==
  ASSUME NEW r, NEW f, NEW v \in Visibility, NEW d, NEW q, NEW m, NEW a, NEW b, Told(r, f, v, d, q, m, a, b),
         NEW p \in Point, NEW k, k = [q EXCEPT !.vis = -1], NEW g, g = Save(r, <<"SETPENVIS", -1>>), ShortLabels, BigBuffers
  PROVE  Told(g, f, v, d, k, m, a, b) /\ Told(SaveLine(g, p), f, v, d, k, m, p, p)
<1>1. -1 \in Visibility
  BY DEF Visibility
<1>2. Told(g, f, v, d, k, m, a, b)
  BY <1>1, ToldVis
<1>3. d \in Seq(Items) /\ q \in PenRecord /\ a \in Point /\ "" \in {"", "stray"} /\ d \o <<>> = d
  BY ToldTypes, ConcatEmptySeq
<1>4. k.vis = -1 /\ Line(a, p, k, "") = <<>>
  BY <1>3 DEF PenRecord, Line, Vis
<1>5. Told(SaveLine(g, p), f, v, d \o Line(a, p, k, ""), k, m, p, p)
  BY <1>2, <1>3, ToldLine
<1> QED
  BY <1>2, <1>3, <1>4, <1>5

LEMMA ToldShown ==
  ASSUME NEW r, NEW f, NEW v \in Visibility, NEW d, NEW q \in PenRecord, NEW m, NEW a, NEW b, NEW k, k = [q EXCEPT !.vis = -1],
         Told(r, f, v, d, k, m, a, b), ShortLabels, BigBuffers
  PROVE  Told(SaveVis(r, q), f, v, d, q, m, a, b)
<1>1. q.vis \in Visibility
  BY PenType
<1>2. Told(Save(r, <<"SETPENVIS", q.vis>>), f, v, d, [k EXCEPT !.vis = q.vis], m, a, b)
  BY <1>1, ToldVis
<1>3. [k EXCEPT !.vis = q.vis] = q
  BY DEF PenRecord
<1> QED
  BY <1>2, <1>3 DEF SaveVis


LEMMA Popped ==
  ASSUME NEW es \in Seq(Entry), es # <<>>
  PROVE  \E w \in Seq(Entry) : \E x \in Entry :
            es = Append(w, x) /\ SubSeq(es, 1, Len(es) - 1) = w /\ es[Len(es)] = x
<1>1. PICK w \in Seq(Entry), x \in Entry : es = Append(w, x)
  BY SequenceEmptyOrAppend
<1>2. Len(es) = Len(w) + 1 /\ Len(w) \in Nat /\ \A i \in 1 .. Len(w) : es[i] = w[i]
  BY <1>1, AppendProperties
<1>3. es[Len(es)] = x
  <2>1. Append(w, x)[Len(w) + 1] = x
    BY AppendProperties
  <2> QED
    BY <1>1, <1>2, <2>1
<1> DEFINE l == Len(w)
           v == SubSeq(es, 1, l)
<1>4. v \in Seq(Entry) /\ Len(v) = (IF 1 <= l THEN l - 1 + 1 ELSE 0) /\ \A i \in 1 .. l - 1 + 1 : v[i] = es[1 + i - 1]
  <2>1. \A i \in 1 .. l : es[i] \in Entry
    BY <1>2
  <2>2. 1 \in Int /\ l \in Int
    BY <1>2
  <2> HIDE DEF l
  <2> QED
    BY <2>1, <2>2, SubSeqProperties
<1>5. v \in Seq(Entry) /\ Len(v) = Len(w) /\ \A i \in 1 .. Len(v) : v[i] = w[i]
  <2> HIDE DEF v
  <2> QED
    BY <1>2, <1>4
<1>6. v = w
  <2> HIDE DEF v
  <2> QED
    BY <1>5, SeqEqual
<1>7. Len(es) - 1 = l
  BY <1>2
<1>8. SubSeq(es, 1, Len(es) - 1) = w
  BY <1>6, <1>7
<1> QED
  BY <1>1, <1>3, <1>8

\* A move in the place of the move that was the last entry.
EndsInMove(r) == Entries(r) # <<>> /\ Entries(r)[Len(Entries(r))][1] = "MOVEXY"

LEMMA ToldAgain ==
  ASSUME NEW r, NEW f, NEW v \in Visibility, NEW d, NEW q, NEW m, NEW a, NEW b, Told(r, f, v, d, q, m, a, b), ~f.on,
         EndsInMove(r), NEW p \in Point, NEW o, Overwrote(r, o, <<"MOVEXY", p>>), Fits(o), ShortLabels
  PROVE  Told(o, f, v, d, q, m, p, p)
<1> DEFINE e == <<"MOVEXY", p>>
           es == Entries(r)
           s == St(r, v)
           u == St(o, v)
<1>1. e \in Entry /\ e[1] = "MOVEXY" /\ e[2] = p /\ Plain(e)
  BY EntryMade DEF Plain
<1>2. Good(r) /\ Shows(s, f, d, q, m, a, b) /\ Good(o) /\ es \in Seq(Entry)
  BY EntriesType DEF Told, Solid, Overwrote
<1>3. PICK w \in Seq(Entry) : \E x \in Entry : es = Append(w, x) /\ SubSeq(es, 1, Len(es) - 1) = w /\ es[Len(es)] = x
  BY <1>2, Popped DEF EndsInMove
<1>4. PICK x \in Entry : es = Append(w, x) /\ SubSeq(es, 1, Len(es) - 1) = w /\ es[Len(es)] = x
  BY <1>3
<1>5. x[1] = "MOVEXY" /\ Plain(x) /\ Entries(o) = Append(w, e)
  BY <1>4 DEF EndsInMove, Plain, Overwrote
<1> DEFINE c == Run(w, v)
<1>6. c \in State /\ s = Replay1(c, x) /\ u = Replay1(c, e)
  <2> HIDE DEF e
  <2>1. Run(Append(w, x), v) = Replay1(c, x) /\ Run(Append(w, e), v) = Replay1(c, e) /\ c \in State
    BY <1>1, RunAppend, RunType
  <2> QED
    BY <1>4, <1>5, <2>1 DEF St
<1> HIDE DEF e, es, s, u, c
<1>7. Fields(s, c, x) /\ Fields(u, c, e) /\ u \in State
  BY <1>1, <1>5, <1>6, FieldsIs
<1>8. Seen(c, x) = <<>> /\ Seen(c, e) = <<>> /\ PenAfter(c.pen, x) = c.pen /\ PenAfter(c.pen, e) = c.pen
  BY <1>1, <1>5 DEF Seen, PenAfter
<1>9. u.out = s.out /\ u.pen = s.pen /\ u.imode = s.imode /\ u.on = s.on /\ u.dev = p /\ u.last = p
  BY <1>1, <1>5, <1>7, <1>8 DEF Fields
<1>10. Shows(u, f, d, q, m, p, p)
  BY <1>2, <1>7, <1>9 DEF Shows
<1> QED
  BY <1>2, <1>10 DEF Told, Solid, Midway, u

\* The record and what the window shows, at the end of a command or of a round
\* of a walk: the device of a redraw is where its turtle is.
ToldNow(r, d, a) == Told(r, filled, orig_vis, d, pen, penmode, a, a)
MoveLast == last_recorded = "MOVEXY" /\ ~filled.on => EndsInMove(rec)
Whole ==
    /\ refresh_p /\ (filled.on => filled.old) /\ penmode = pen.md /\ MoveLast
    /\ \E a \in Point : ToldNow(rec, drawn, a)
Faith == whole => Whole

LEMMA MoveTold ==
  ASSUME NEW STATE a, ToldNow(rec, drawn, a), orig_vis \in Visibility, MoveLast, NEW STATE p, p \in Point, ShortLabels, BigBuffers
  PROVE  ToldNow(SaveMove(rec, p), drawn, p) /\ EndsInMove(SaveMove(rec, p))
<1> DEFINE e == <<"MOVEXY", p>>
           o == SaveMove(rec, p)
<1>1. Told(rec, filled, orig_vis, drawn, pen, penmode, a, a)
  BY DEF ToldNow
<1>2. Solid(rec, filled) /\ Good(rec) /\ Fits(rec)
  <2>1. Solid(rec, filled)
    BY <1>1 DEF Told
  <2> QED
    BY <2>1 DEF Solid
<1>3. e \in Entry /\ e[1] = "MOVEXY"
  BY EntryMade
<1>4. o = Save(rec, e) \/ Retold(rec, o, e)
  BY <1>2, SaveMoveIs
<1>5. CASE o = Save(rec, e)
  <2>1. Told(Save(rec, e), filled, orig_vis, drawn, pen, penmode, p, p)
    BY <1>1, ToldMove
  <2> HIDE DEF e, o
  <2>2. Wrote(rec, Save(rec, e), e)
    BY <1>2, <1>3, SaveWrites
  <2>3. Good(o) /\ o.n # 0 /\ o.bufs[o.cur][o.n] = e
    BY <1>5, <2>2 DEF Wrote
  <2>4. EndsInMove(o)
    BY <1>3, <2>3, LastIs DEF EndsInMove
  <2> QED
    BY <1>5, <2>1, <2>4 DEF ToldNow, o
<1>6. CASE Retold(rec, o, e)
  <2> HIDE DEF o
  <2>1. ~filled.on /\ EndsInMove(rec)
    BY <1>6 DEF Retold, MoveLast
  <2>2. Overwrote(rec, o, e) /\ Fits(o)
    <3> HIDE DEF e
    <3> QED
      BY <1>2, <1>3, <1>6, RetoldIs
  <2>3. Told(o, filled, orig_vis, drawn, pen, penmode, p, p)
    BY <1>1, <2>1, <2>2, ToldAgain
  <2>4. Good(o) /\ o.n # 0 /\ o.bufs[o.cur][o.n] = e
    BY <2>2 DEF Overwrote
  <2>5. EndsInMove(o)
    BY <1>3, <2>4, LastIs DEF EndsInMove
  <2> QED
    BY <2>3, <2>5 DEF ToldNow, o
<1> QED
  BY <1>4, <1>5, <1>6


-----------------------------------------------------------------------------
(* Each command. *)

LEMMA Joined ==
  ASSUME NEW a \in Seq(Items), NEW b \in Seq(Items), NEW c \in Seq(Items), NEW d \in Seq(Items)
  PROVE  a \o ((b \o c) \o d) = ((a \o b) \o c) \o d /\ a \o <<>> = a
<1>1. b \o c \in Seq(Items) /\ a \o b \in Seq(Items)
  BY ConcatProperties
<1>2. a \o ((b \o c) \o d) = (a \o (b \o c)) \o d
  BY <1>1, ConcatAssociative
<1>3. a \o (b \o c) = (a \o b) \o c
  BY ConcatAssociative, SMTT(30)
<1> QED
  BY <1>2, <1>3, ConcatEmptySeq

\* What a command that records r as op must show.
LEMMA FaithStep ==
  ASSUME Faith, NEW ACTION r, NEW ACTION op, NEW ACTION a, Recorded(r, op),
         whole' => whole, UNCHANGED <<refresh_p, filled, orig_vis>>,
         whole => /\ penmode' = pen'.md /\ a \in Point /\ (op # "MOVEXY" \/ EndsInMove(r))
                  /\ Told(r, filled, orig_vis, drawn', pen', penmode', a, a)
  PROVE  Faith'
<1> SUFFICES ASSUME whole' PROVE Whole'
  BY DEF Faith
<1>1. whole /\ Whole
  BY DEF Faith
<1>2. rec' = r /\ last_recorded' = op
  BY <1>1 DEF Whole, Recorded
<1>3. Told(rec', filled', orig_vis', drawn', pen', penmode', a, a)
  BY <1>1, <1>2
<1>4. \E p \in Point : ToldNow(rec, drawn, p)'
  BY <1>1, <1>3 DEF ToldNow
<1>5. MoveLast'
  BY <1>1, <1>2 DEF MoveLast
<1> QED
  BY <1>1, <1>4, <1>5 DEF Whole

\* Nothing that matters here has changed.
LEMMA FaithSame ==
  ASSUME Faith, UNCHANGED <<rec, last_recorded, refresh_p, filled, orig_vis, drawn, pen, penmode>>, whole' => whole
  PROVE  Faith'
BY DEF Faith, Whole, MoveLast, ToldNow

LEMMA NowTypes ==
  ASSUME Base, Faith, whole
  PROVE  /\ pos \in Point /\ dev \in Point /\ spot \in Point /\ pen \in PenRecord /\ penmode \in Mode /\ orig_vis \in Visibility
         /\ drawn \in Seq(Items) /\ refresh_p /\ penmode = pen.md /\ MoveLast /\ \E a \in Point : ToldNow(rec, drawn, a)
BY DEF Base, PlaceTypes, PenTypes, Faith, Whole

LEMMA BegunTold ==
  ASSUME Base, Faith, whole, ShortLabels, BigBuffers
  PROVE  ToldNow(Begun, drawn \o Corner, pos) /\ (BeganAs = "MOVEXY" => EndsInMove(Begun))
<1>1. /\ pos \in Point /\ pen \in PenRecord /\ penmode \in Mode /\ orig_vis \in Visibility /\ drawn \in Seq(Items) /\ MoveLast
  BY NowTypes
<1>2. PICK a \in Point : ToldNow(rec, drawn, a)
  BY NowTypes
<1> DEFINE r == SaveMove(rec, pos)
<1>3. ToldNow(r, drawn, pos) /\ EndsInMove(r)
  BY <1>1, <1>2, MoveTold
<1> HIDE DEF r
<1>4. CASE Flips /\ left > 0
  <2>1. Begun = SaveLine(r, pos) /\ Corner = Line(pos, pos, pen, "") /\ BeganAs # "MOVEXY"
    BY <1>4 DEF Begun, Corner, BeganAs, r
  <2>2. Told(r, filled, orig_vis, drawn, pen, penmode, pos, pos) /\ "" \in {"", "stray"}
    BY <1>3 DEF ToldNow
  <2>3. Told(SaveLine(r, pos), filled, orig_vis, drawn \o Line(pos, pos, pen, ""), pen, penmode, pos, pos)
    BY <1>1, <2>2, ToldLine
  <2> QED
    BY <2>1, <2>3 DEF ToldNow
<1>5. CASE ~(Flips /\ left > 0)
  <2>1. Begun = r /\ Corner = <<>> /\ drawn \o <<>> = drawn
    BY <1>1, <1>5, ConcatEmptySeq DEF Begun, Corner, r
  <2> QED
    BY <1>3, <2>1
<1> QED
  BY <1>4, <1>5

LEMMA LineTold ==
  ASSUME NEW STATE r, NEW STATE d, NEW STATE a, ToldNow(r, d, a), NEW STATE p, p \in Point, NEW STATE x, x \in Point,
         NEW STATE y, y \in Point, NEW STATE t, t \in {"", "stray"}, t = "" => x = a /\ y = p, orig_vis \in Visibility,
         ShortLabels, BigBuffers
  PROVE  ToldNow(SaveLine(r, p), d \o Line(x, y, pen, t), p)
<1>1. Told(r, filled, orig_vis, d, pen, penmode, a, a)
  BY DEF ToldNow
<1>2. Told(SaveLine(r, p), filled, orig_vis, d \o Line(x, y, pen, t), pen, penmode, p, p)
  BY <1>1, ToldLine
<1> QED
  BY <1>2 DEF ToldNow

LEMMA TailTold ==
  ASSUME NEW STATE r, NEW STATE d, NEW STATE a, ToldNow(r, d, a), a \in Point, NEW STATE p, p \in Point, NEW STATE x, x \in Point,
         NEW STATE t, t \in {"", "stray"}, t = "" => x = a, orig_vis \in Visibility, ShortLabels, BigBuffers
  PROVE  \E c \in Point : ToldNow(TailRec(r, p), d \o TailItem(x, p, t), c)
<1>1. CASE Flips /\ left < 0
  <2>1. ToldNow(SaveLine(r, p), d \o Line(x, p, pen, t), p)
    BY LineTold
  <2> QED
    BY <1>1, <2>1 DEF TailRec, TailItem
<1>2. CASE ~(Flips /\ left < 0)
  <2>1. d \in Seq(Items)
    BY ToldTypes DEF ToldNow
  <2>2. d \o <<>> = d
    BY <2>1, ConcatEmptySeq
  <2> QED
    BY <1>2, <2>2 DEF TailRec, TailItem
<1> QED
  BY <1>1, <1>2

LEMMA DrawFaith == ASSUME Base, Faith, Draw, ShortLabels, BigBuffers PROVE Faith'
<1> DEFINE l == Line(pos, Target, pen, "")
           o == drawn \o Corner
           z == TailItem(Target, Target, "")
           r == SaveLine(Begun, Target)
<1>1. Recorded(TailRec(r, Target), "LINEXY") /\ UNCHANGED <<pen, penmode, orig_vis, refresh_p, filled, whole>>
      /\ drawn' = drawn \o ((Corner \o l) \o z)
  BY DEF Draw, Moved, RestOfMove, other
<1>2. ASSUME whole PROVE \E c \in Point : ToldNow(TailRec(r, Target), drawn', c) /\ penmode = pen.md
  <2>1. /\ pos \in Point /\ pen \in PenRecord /\ orig_vis \in Visibility /\ drawn \in Seq(Items) /\ penmode = pen.md
        /\ "" \in {"", "stray"}
    BY <1>2, NowTypes
  <2>2. Target \in Point
    BY WayTypes DEF Draw, Base
  <2>3. ToldNow(Begun, o, pos)
    BY <1>2, BegunTold
  <2>4. l \in Seq(Items) /\ Corner \in Seq(Items) /\ z \in Seq(Items)
    BY <2>1, <2>2, LineType, CornerType, TailType
  <2> HIDE DEF o, z
  <2>5. ToldNow(r, o \o l, Target)
    BY <2>1, <2>2, <2>3, LineTold
  <2> HIDE DEF r, l
  <2>6. \E c \in Point : ToldNow(TailRec(r, Target), (o \o l) \o z, c)
    BY <2>1, <2>2, <2>5, TailTold DEF z
  <2>7. drawn' = (o \o l) \o z
    <3>1. drawn \o ((Corner \o l) \o z) = ((drawn \o Corner) \o l) \o z
      <4>1. drawn \in Seq(Items) /\ Corner \in Seq(Items) /\ l \in Seq(Items) /\ z \in Seq(Items)
        BY <2>1, <2>4
      <4> HIDE DEF l, z
      <4> QED
        BY <4>1, Joined, SMTT(30)
    <3> QED
      BY <1>1, <3>1, Zenon DEF o
  <2> QED
    BY <2>1, <2>6, <2>7
<1> HIDE DEF r
<1>3. CASE whole
  <2>1. PICK c \in Point : ToldNow(TailRec(r, Target), drawn', c) /\ penmode = pen.md
    BY <1>2, <1>3
  <2>2. penmode' = pen'.md /\ Told(TailRec(r, Target), filled, orig_vis, drawn', pen', penmode', c, c)
    BY <1>1, <2>1 DEF ToldNow
  <2>3. "LINEXY" # "MOVEXY"
    OBVIOUS
  <2> QED
    BY <1>1, <2>2, <2>3, FaithStep
<1>4. CASE ~whole
  BY <1>1, <1>4 DEF Faith
<1> QED
  BY <1>3, <1>4


LEMMA JumpFaith == ASSUME Base, Faith, Jump, ShortLabels, BigBuffers PROVE Faith'
<1>1. Recorded(Begun, BeganAs) /\ UNCHANGED <<pen, penmode, orig_vis, refresh_p, filled, whole>> /\ drawn' = drawn \o Corner
  BY DEF Jump, Moved, RestOfMove, other
<1>2. CASE whole
  <2>1. ToldNow(Begun, drawn \o Corner, pos) /\ (BeganAs = "MOVEXY" => EndsInMove(Begun)) /\ pos \in Point /\ penmode = pen.md
    BY <1>2, BegunTold, NowTypes
  <2>2. penmode' = pen'.md /\ Told(Begun, filled, orig_vis, drawn', pen', penmode', pos, pos)
    BY <1>1, <2>1 DEF ToldNow
  <2> QED
    BY <1>1, <2>1, <2>2, FaithStep
<1>3. CASE ~whole
  BY <1>1, <1>3 DEF Faith
<1> QED
  BY <1>2, <1>3

LEMMA CrossFaith == ASSUME Base, Faith, Cross, ShortLabels, BigBuffers PROVE Faith'
<1> DEFINE e == Edge(pos, Way)
           p == CrossTo
           k == CrossLeft
           s == SaveLine(Begun, pos)
           l == Line(pos, e, pen, "stray")
           o == drawn \o Corner
           z == IF k = 0 THEN TailItem(e, p, "stray") ELSE <<>>
           r == IF k = 0 THEN TailRec(s, p) ELSE s
<1>1. Crossed(e, p, k, s) /\ RestOfMove
  BY CrossIs
<1>2. Recorded(r, "LINEXY") /\ UNCHANGED <<pen, penmode, orig_vis, refresh_p, filled, whole>> /\ drawn' = drawn \o ((Corner \o l) \o z)
  BY <1>1 DEF Crossed, Moved, RestOfMove, other
<1>3. ASSUME whole PROVE \E c \in Point : ToldNow(r, drawn', c) /\ penmode = pen.md
  <2>1. /\ pos \in Point /\ pen \in PenRecord /\ orig_vis \in Visibility /\ drawn \in Seq(Items) /\ penmode = pen.md
        /\ "stray" \in {"", "stray"} /\ "stray" # ""
    BY <1>3, NowTypes
  <2>2. e \in Point /\ p \in Point
    BY WayTypes DEF Cross, Base, CrossTo
  <2>3. ToldNow(Begun, o, pos)
    BY <1>3, BegunTold
  <2>4. l \in Seq(Items) /\ Corner \in Seq(Items) /\ z \in Seq(Items)
    BY <2>1, <2>2, LineType, CornerType, TailType, EmptySeq
  <2> HIDE DEF o, p, k, e
  <2>5. ToldNow(s, o \o l, pos)
    BY <2>1, <2>2, <2>3, LineTold
  <2>6. o \o l \in Seq(Items)
    BY <2>5, ToldTypes DEF ToldNow
  <2>7. \E c \in Point : ToldNow(r, (o \o l) \o z, c)
    <3> HIDE DEF s, l
    <3>1. CASE k = 0
      <4>1. \E c \in Point : ToldNow(TailRec(s, p), (o \o l) \o TailItem(e, p, "stray"), c)
        BY <2>1, <2>2, <2>5, TailTold
      <4> QED
        BY <3>1, <4>1
    <3>2. CASE k # 0
      <4>1. (o \o l) \o <<>> = o \o l
        BY <2>6, ConcatEmptySeq
      <4> QED
        BY <2>1, <2>5, <3>2, <4>1
    <3> QED
      BY <3>1, <3>2
  <2>8. drawn' = (o \o l) \o z
    <3>1. drawn \o ((Corner \o l) \o z) = ((drawn \o Corner) \o l) \o z
      <4>1. drawn \in Seq(Items) /\ Corner \in Seq(Items) /\ l \in Seq(Items) /\ z \in Seq(Items)
        BY <2>1, <2>4
      <4> HIDE DEF l, z
      <4> QED
        BY <4>1, Joined, SMTT(30)
    <3> QED
      BY <1>2, <3>1, Zenon DEF o
  <2> QED
    BY <2>1, <2>7, <2>8
<1> HIDE DEF r
<1>4. CASE whole
  <2>1. PICK c \in Point : ToldNow(r, drawn', c) /\ penmode = pen.md
    BY <1>3, <1>4
  <2>2. penmode' = pen'.md /\ Told(r, filled, orig_vis, drawn', pen', penmode', c, c)
    BY <1>2, <2>1 DEF ToldNow
  <2>3. "LINEXY" # "MOVEXY"
    OBVIOUS
  <2> QED
    BY <1>2, <2>2, <2>3, FaithStep
<1>5. CASE ~whole
  BY <1>2, <1>5 DEF Faith
<1> QED
  BY <1>4, <1>5

LEMMA InterruptedFaith == ASSUME Base, Faith, Interrupted, ShortLabels, BigBuffers PROVE Faith'
<1>1. Recorded(SaveMove(rec, pos), "MOVEXY") /\ UNCHANGED <<pen, penmode, orig_vis, refresh_p, filled, whole, drawn>>
  BY DEF Interrupted, RestOfMove, other
<1>2. CASE whole
  <2>1. /\ pos \in Point /\ orig_vis \in Visibility /\ MoveLast /\ penmode = pen.md
    BY <1>2, NowTypes
  <2>2. PICK a \in Point : ToldNow(rec, drawn, a)
    BY <1>2, NowTypes
  <2>3. ToldNow(SaveMove(rec, pos), drawn, pos) /\ EndsInMove(SaveMove(rec, pos))
    BY <2>1, <2>2, MoveTold
  <2>4. penmode' = pen'.md /\ Told(SaveMove(rec, pos), filled, orig_vis, drawn', pen', penmode', pos, pos)
    BY <1>1, <2>1, <2>3 DEF ToldNow
  <2> QED
    BY <1>1, <2>1, <2>3, <2>4, FaithStep
<1>3. CASE ~whole
  BY <1>1, <1>3 DEF Faith
<1> QED
  BY <1>2, <1>3

\* A line that SETPOS or HOME draws: it starts where the turtle is, and in a
\* redraw where the redraw's device is.
LEMMA GoneFaith ==
  ASSUME Base, Faith, NEW p \in Point, drawn' = drawn \o Line(pos, p, pen, Tag(RecDev = pos)), Recorded(SaveLine(rec, p), "LINEXY"),
         UNCHANGED <<pen, penmode, orig_vis, refresh_p, filled, whole>>, ShortLabels, BigBuffers
  PROVE  Faith'
<1>1. CASE whole
  <2> DEFINE t == Tag(RecDev = pos)
  <2>1. /\ pos \in Point /\ orig_vis \in Visibility /\ penmode = pen.md
    BY <1>1, NowTypes
  <2>2. PICK a \in Point : ToldNow(rec, drawn, a)
    BY <1>1, NowTypes
  <2>3. RecDev = a
    <3>1. Told(rec, filled, orig_vis, drawn, pen, penmode, a, a)
      BY <2>2 DEF ToldNow
    <3>2. Good(rec) /\ St(rec, orig_vis).dev = a
      BY <3>1, ToldTypes
    <3>3. Replay(rec, orig_vis) = St(rec, orig_vis)
      BY <2>1, <3>2, ReplayIs DEF St
    <3> QED
      BY <3>2, <3>3 DEF RecDev
  <2>4. t \in {"", "stray"} /\ (t = "" => pos = a)
    BY <2>3 DEF Tag
  <2>5. drawn' = drawn \o Line(pos, p, pen, t)
    OBVIOUS
  <2> HIDE DEF t
  <2>6. ToldNow(SaveLine(rec, p), drawn \o Line(pos, p, pen, t), p)
    BY <2>1, <2>2, <2>4, LineTold
  <2>7. penmode' = pen'.md /\ Told(SaveLine(rec, p), filled, orig_vis, drawn', pen', penmode', p, p)
    BY <2>1, <2>5, <2>6 DEF ToldNow
  <2>8. "LINEXY" # "MOVEXY"
    OBVIOUS
  <2> QED
    BY <2>7, <2>8, FaithStep
<1>2. CASE ~whole
  BY <1>2 DEF Faith
<1> QED
  BY <1>1, <1>2

LEMMA MovesFaith == ASSUME Base, Faith, Moves, ShortLabels, BigBuffers PROVE Faith'
<1>1. CASE RightTurn \/ Forward \/ Enclose \/ Window
  <2>1. UNCHANGED <<pen, penmode, orig_vis, drawn, record, other, whole>>
    BY <1>1 DEF RightTurn, Forward, Enclose, Window, device
  <2> QED
    BY <2>1, FaithSame DEF record, other
<1>2. CASE SetXY
  <2>1. UNCHANGED <<pen, penmode, orig_vis, refresh_p, filled, whole>>
    BY <1>2 DEF SetXY, other
  <2>2. \E p \in Point : SetPos(p)
    <3>1. pos[1] \in Int /\ pos[2] \in Int
      BY PointIs DEF Base, PlaceTypes
    <3> QED
      BY <1>2, <3>1, TurtleAssumption DEF SetXY, Point
  <2>3. PICK p \in Point : SetPos(p)
    BY <2>2
  <2>4. \/ UNCHANGED <<record, drawn>>
        \/ drawn' = drawn \o Line(pos, p, pen, Tag(RecDev = pos)) /\ Recorded(SaveLine(rec, p), "LINEXY")
    BY <2>3 DEF SetPos
  <2> QED
    BY <2>1, <2>4, GoneFaith, FaithSame DEF record
<1>3. CASE Home
  <2>1. /\ drawn' = drawn \o Line(pos, Center, pen, Tag(RecDev = pos)) /\ Recorded(SaveLine(rec, Center), "LINEXY")
        /\ UNCHANGED <<pen, penmode, orig_vis, refresh_p, filled, whole>>
    BY <1>3 DEF Home, other
  <2> QED
    BY <2>1, CenterType, GoneFaith
<1> QED
  BY <1>1, <1>2, <1>3 DEF Moves


LEMMA RecDevIs ==
  ASSUME NEW STATE a, ToldNow(rec, drawn, a), orig_vis \in Visibility, ShortLabels
  PROVE  RecDev = a
<1>1. Told(rec, filled, orig_vis, drawn, pen, penmode, a, a)
  BY DEF ToldNow
<1>2. Good(rec) /\ St(rec, orig_vis).dev = a
  BY <1>1, ToldTypes
<1>3. Replay(rec, orig_vis) = St(rec, orig_vis)
  BY <1>2, ReplayIs DEF St
<1> QED
  BY <1>2, <1>3 DEF RecDev

LEMMA ArcFaith == ASSUME Base, Faith, Arc, ShortLabels, BigBuffers PROVE Faith'
<1> DEFINE k == [pen EXCEPT !.vis = -1]
           o == drawn \o DoArc(pos, pen, FALSE)
           s == SaveArc(ArcStart, pos)
           g == Hide(ArcMiddle)
           w == Save(g, <<"MOVEXY", pos>>)
<1>1. Recorded(ArcRecord, "SETPENVIS") /\ UNCHANGED <<pen, penmode, orig_vis, refresh_p, filled, whole>> /\ drawn' = o
  BY ArcIs DEF Arc, other
<1>2. CASE whole
  <2>1. /\ pos \in Point /\ pen \in PenRecord /\ orig_vis \in Visibility /\ drawn \in Seq(Items) /\ penmode = pen.md
    BY <1>2, NowTypes
  <2>2. PICK a \in Point : ToldNow(rec, drawn, a)
    BY <1>2, NowTypes
  <2>3. Up(pos) \in Point
    BY <2>1, AroundType
  <2>4. Told(rec, filled, orig_vis, drawn, pen, penmode, a, a)
    BY <2>2 DEF ToldNow
  <2> DEFINE u == Up(pos)
  <2> HIDE DEF k, o, s, g, w, u
  <2>5. Told(ArcStart, filled, orig_vis, drawn, pen, penmode, u, u)
    <3>1. Told(SaveLine(Hide(rec), u), filled, orig_vis, drawn, k, penmode, u, u)
      BY <2>1, <2>3, <2>4, ToldUnseen DEF Hide, k, u
    <3>2. Told(SaveVis(SaveLine(Hide(rec), u), pen), filled, orig_vis, drawn, pen, penmode, u, u)
      BY <2>1, <3>1, ToldShown DEF k
    <3> QED
      BY <3>2 DEF ArcStart, Show, u
  <2>6. Told(s, filled, orig_vis, o, pen, penmode, pos, u)
    BY <2>1, <2>5, ToldArc DEF s, o
  <2>7. Told(ArcMiddle, filled, orig_vis, o, pen, penmode, pos, pos)
    <3>1. Told(SaveLine(Hide(s), pos), filled, orig_vis, o, k, penmode, pos, pos)
      BY <2>1, <2>6, ToldUnseen DEF Hide, k
    <3>2. Told(SaveVis(SaveLine(Hide(s), pos), pen), filled, orig_vis, o, pen, penmode, pos, pos)
      BY <2>1, <3>1, ToldShown DEF k
    <3> QED
      BY <3>2 DEF ArcMiddle, Show, s
  <2>8. Told(ArcRecord, filled, orig_vis, o, pen, penmode, pos, pos)
    <3>1. Told(g, filled, orig_vis, o, k, penmode, pos, pos)
      BY <2>1, <2>7, ToldUnseen DEF Hide, k, g
    <3>2. Told(w, filled, orig_vis, o, k, penmode, pos, pos)
      BY <2>1, <3>1, ToldMove DEF w
    <3>3. o \in Seq(Items) /\ "" \in {"", "stray"} /\ k.vis = -1
      BY <2>1, <3>1, ToldTypes DEF PenRecord, k
    <3>4. Line(pos, pos, k, "") = <<>> /\ o \o <<>> = o
      BY <3>3, ConcatEmptySeq DEF Line, Vis
    <3>5. Told(SaveLine(w, pos), filled, orig_vis, o \o Line(pos, pos, k, ""), k, penmode, pos, pos)
      BY <2>1, <3>2, <3>3, ToldLine
    <3>6. Told(SaveLine(w, pos), filled, orig_vis, o, k, penmode, pos, pos)
      BY <3>4, <3>5
    <3>7. Told(SaveVis(SaveLine(w, pos), pen), filled, orig_vis, o, pen, penmode, pos, pos)
      BY <2>1, <3>6, ToldShown DEF k
    <3> QED
      BY <3>7 DEF ArcRecord, Show, w, g
  <2>9. penmode' = pen'.md /\ Told(ArcRecord, filled, orig_vis, drawn', pen', penmode', pos, pos) /\ "SETPENVIS" # "MOVEXY"
    BY <1>1, <2>1, <2>8
  <2> QED
    BY <1>1, <2>1, <2>9, FaithStep
<1>3. CASE ~whole
  BY <1>1, <1>3 DEF Faith
<1> QED
  BY <1>2, <1>3

\* A change of the pen that is recorded.
LEMMA PenFaith ==
  ASSUME Base, Faith, NEW ACTION r, NEW ACTION op, Recorded(r, op), op # "MOVEXY", UNCHANGED <<orig_vis, refresh_p, filled, whole, drawn>>,
         \A a \in Point : whole /\ ToldNow(rec, drawn, a)
           => penmode' = pen'.md /\ Told(r, filled, orig_vis, drawn, pen', penmode', a, a)
  PROVE  Faith'
<1>1. CASE whole
  <2>1. PICK a \in Point : ToldNow(rec, drawn, a)
    BY <1>1, NowTypes
  <2>2. penmode' = pen'.md /\ Told(r, filled, orig_vis, drawn', pen', penmode', a, a)
    BY <1>1, <2>1
  <2> QED
    BY <2>2, FaithStep
<1>2. CASE ~whole
  BY <1>2 DEF Faith
<1> QED
  BY <1>1, <1>2

LEMMA PenUpDownFaith == ASSUME Base, Faith, PenUpDown, ShortLabels, BigBuffers PROVE Faith'
<1>1. PICK v \in {0, -1} : pen' = [pen EXCEPT !.vis = v] /\ Recorded(SaveVis(rec, pen'), "SETPENVIS")
  BY DEF PenUpDown
<1>2. UNCHANGED <<orig_vis, refresh_p, filled, whole, drawn, penmode>>
  BY DEF PenUpDown, Placement, other
<1>3. v \in Visibility
  BY DEF Visibility
<1>4. ASSUME NEW a \in Point, whole, ToldNow(rec, drawn, a)
      PROVE  penmode' = pen'.md /\ Told(SaveVis(rec, pen'), filled, orig_vis, drawn, pen', penmode', a, a)
  <2>1. Told(rec, filled, orig_vis, drawn, pen, penmode, a, a) /\ pen \in PenRecord /\ penmode = pen.md /\ orig_vis \in Visibility
    BY <1>4, NowTypes DEF ToldNow
  <2>2. pen'.vis = v /\ pen'.md = pen.md
    BY <1>1, <2>1 DEF PenRecord
  <2>3. Told(Save(rec, <<"SETPENVIS", v>>), filled, orig_vis, drawn, [pen EXCEPT !.vis = v], penmode, a, a)
    BY <1>3, <2>1, ToldVis
  <2> QED
    BY <1>1, <1>2, <2>1, <2>2, <2>3 DEF SaveVis
<1>5. "SETPENVIS" # "MOVEXY"
  OBVIOUS
<1> QED
  BY <1>1, <1>2, <1>4, <1>5, PenFaith

LEMMA PenLookFaith == ASSUME Base, Faith, SetPenColor \/ SetPenSize, ShortLabels, BigBuffers PROVE Faith'
<1>0. UNCHANGED <<orig_vis, refresh_p, filled, whole, drawn, penmode>>
  BY DEF SetPenColor, SetPenSize, Placement, other
<1>1. ASSUME NEW a \in Point, whole, ToldNow(rec, drawn, a)
      PROVE  Told(rec, filled, orig_vis, drawn, pen, penmode, a, a) /\ pen \in PenRecord /\ penmode = pen.md /\ orig_vis \in Visibility
  BY <1>1, NowTypes DEF ToldNow
<1>2. CASE SetPenColor
  <2> DEFINE c == IF pen.color = 7 THEN 4 ELSE 7
  <2>1. pen' = [pen EXCEPT !.color = c] /\ Recorded(SaveColor(rec, pen'), "SETPENCOLOR") /\ c \in Int
    BY <1>2 DEF SetPenColor
  <2> HIDE DEF c
  <2>2. ASSUME NEW a \in Point, whole, ToldNow(rec, drawn, a)
        PROVE  penmode' = pen'.md /\ Told(SaveColor(rec, pen'), filled, orig_vis, drawn, pen', penmode', a, a)
    <3>1. pen'.color = c /\ pen'.md = pen.md
      BY <1>1, <2>1, <2>2 DEF PenRecord
    <3>2. Told(rec, filled, orig_vis, drawn, pen, penmode, a, a) /\ orig_vis \in Visibility /\ penmode = pen.md
      BY <1>1, <2>2
    <3>3. Told(Save(rec, <<"SETPENCOLOR", c>>), filled, orig_vis, drawn, [pen EXCEPT !.color = c], penmode, a, a)
      BY <2>1, <3>2, ToldColor
    <3> QED
      BY <1>0, <2>1, <3>1, <3>2, <3>3 DEF SaveColor
  <2>3. "SETPENCOLOR" # "MOVEXY"
    OBVIOUS
  <2> QED
    BY <1>0, <2>1, <2>2, <2>3, PenFaith
<1>3. CASE SetPenSize
  <2> DEFINE c == 3 - pen.size
  <2>1. pen' = [pen EXCEPT !.size = c] /\ Recorded(SaveSize(rec, pen'), "SETPENSIZE") /\ c \in Int
    <3>1. pen.size \in Int
      BY PenType DEF Base, PenTypes
    <3> QED
      BY <1>3, <3>1 DEF SetPenSize
  <2> HIDE DEF c
  <2>2. ASSUME NEW a \in Point, whole, ToldNow(rec, drawn, a)
        PROVE  penmode' = pen'.md /\ Told(SaveSize(rec, pen'), filled, orig_vis, drawn, pen', penmode', a, a)
    <3>1. pen'.size = c /\ pen'.md = pen.md
      BY <1>1, <2>1, <2>2 DEF PenRecord
    <3>2. Told(rec, filled, orig_vis, drawn, pen, penmode, a, a) /\ orig_vis \in Visibility /\ penmode = pen.md
      BY <1>1, <2>2
    <3>3. Told(Save(rec, <<"SETPENSIZE", c>>), filled, orig_vis, drawn, [pen EXCEPT !.size = c], penmode, a, a)
      BY <2>1, <3>2, ToldSize
    <3> QED
      BY <1>0, <2>1, <3>1, <3>2, <3>3 DEF SaveSize
  <2>3. "SETPENSIZE" # "MOVEXY"
    OBVIOUS
  <2> QED
    BY <1>0, <2>1, <2>2, <2>3, PenFaith
<1> QED
  BY <1>2, <1>3

LEMMA PenModeFaith == ASSUME Base, Faith, PenMode, ShortLabels, BigBuffers PROVE Faith'
<1>1. PICK m \in {"PAINT", "REVERSE"} :
        /\ penmode' = m /\ pen' = [pen EXCEPT !.md = m, !.vis = 0]
        /\ Recorded(SaveVis(SaveMode(rec, [pen EXCEPT !.md = m], m), pen'), "SETPENVIS")
  BY DEF PenMode
<1>2. UNCHANGED <<orig_vis, refresh_p, filled, whole, drawn>>
  BY DEF PenMode, Placement, other
<1>3. m \in Mode /\ 0 \in Visibility /\ pen \in PenRecord
  BY DEF Mode, Visibility, Base, PenTypes
<1> DEFINE h == [pen EXCEPT !.md = m]
<1>4. h \in PenRecord /\ h.md = m /\ h.color = pen.color /\ pen'.vis = 0 /\ pen'.md = m /\ [h EXCEPT !.vis = 0] = pen'
      /\ [[pen EXCEPT !.md = m] EXCEPT !.color = pen.color] = h
  BY <1>1, <1>3 DEF PenRecord
<1> HIDE DEF h
<1>5. ASSUME NEW a \in Point, whole, ToldNow(rec, drawn, a)
      PROVE  penmode' = pen'.md /\ Told(SaveVis(SaveMode(rec, h, m), pen'), filled, orig_vis, drawn, pen', penmode', a, a)
  <2>1. Told(rec, filled, orig_vis, drawn, pen, penmode, a, a) /\ orig_vis \in Visibility
    BY <1>5, NowTypes DEF ToldNow
  <2>2. Told(SaveMode(rec, h, m), filled, orig_vis, drawn, [[pen EXCEPT !.md = h.md] EXCEPT !.color = h.color], m, a, a)
    BY <1>3, <1>4, <2>1, ToldMode
  <2>3. Told(SaveMode(rec, h, m), filled, orig_vis, drawn, h, m, a, a)
    BY <1>4, <2>2
  <2>4. Told(Save(SaveMode(rec, h, m), <<"SETPENVIS", 0>>), filled, orig_vis, drawn, [h EXCEPT !.vis = 0], m, a, a)
    BY <1>3, <2>1, <2>3, ToldVis
  <2> QED
    BY <1>1, <1>4, <2>4 DEF SaveVis
<1>6. "SETPENVIS" # "MOVEXY"
  OBVIOUS
<1> QED
  BY <1>1, <1>2, <1>5, <1>6, PenFaith DEF h


LEMMA LabelFaith == ASSUME Base, Faith, Label, ShortLabels, BigBuffers PROVE Faith'
<1>1. PICK l \in LabelLens : Recorded(SaveString(rec, l), "LABEL")
  BY DEF Label
<1> DEFINE t == Tag(RecDev = dev)
           o == drawn \o Item(<<"label", dev, Ink(pen)>>, t)
<1>2. UNCHANGED <<orig_vis, refresh_p, filled, whole, pen, penmode>> /\ drawn' = o
  BY DEF Label, Placement, other
<1>3. CASE whole
  <2>1. dev \in Point /\ orig_vis \in Visibility /\ penmode = pen.md
    BY <1>3, NowTypes
  <2>2. PICK a \in Point : ToldNow(rec, drawn, a)
    BY <1>3, NowTypes
  <2>3. t \in {"", "stray"} /\ (t = "" => dev = a)
    BY <2>1, <2>2, RecDevIs DEF Tag
  <2> HIDE DEF t
  <2>4. Told(rec, filled, orig_vis, drawn, pen, penmode, a, a)
    BY <2>2 DEF ToldNow
  <2>5. Told(SaveString(rec, l), filled, orig_vis, o, pen, penmode, a, a)
    BY <2>1, <2>3, <2>4, ToldLabel
  <2>6. penmode' = pen'.md /\ Told(SaveString(rec, l), filled, orig_vis, drawn', pen', penmode', a, a) /\ "LABEL" # "MOVEXY"
    BY <1>2, <2>1, <2>5
  <2> QED
    BY <1>1, <1>2, <2>6, FaithStep
<1>4. CASE ~whole
  BY <1>2, <1>4 DEF Faith
<1> QED
  BY <1>3, <1>4

\* A redraw floods from where its turtle was before the move that FILL records.
LEMMA MoveSpot ==
  ASSUME NEW STATE a, ToldNow(rec, drawn, a), orig_vis \in Visibility, NEW STATE p, p \in Point, last_recorded # "MOVEXY", ShortLabels
  PROVE  St(SaveMove(rec, p), orig_vis).spot = a
<1> DEFINE e == <<"MOVEXY", p>>
           s == St(rec, orig_vis)
           u == St(Save(rec, e), orig_vis)
<1>1. Good(rec) /\ s.last = a /\ s \in State
  <2>1. Told(rec, filled, orig_vis, drawn, pen, penmode, a, a)
    BY DEF ToldNow
  <2> QED
    BY <2>1, ToldTypes
<1>2. e \in Entry /\ e[1] = "MOVEXY" /\ Plain(e)
  BY EntryMade DEF Plain
<1>3. SaveMove(rec, p) = Save(rec, e)
  <2>1. ~Retold(rec, SaveMove(rec, p), e)
    BY DEF Retold
  <2> QED
    BY <1>1, <2>1, SaveMoveIs
<1> HIDE DEF e
<1>4. u = Replay1(s, e)
  BY <1>1, <1>2, SaveSt
<1> HIDE DEF u, s
<1>5. Fields(u, s, e)
  BY <1>1, <1>2, <1>4, FieldsIs
<1>6. u.spot = s.last
  BY <1>2, <1>5 DEF Fields
<1> QED
  BY <1>1, <1>3, <1>6 DEF u

LEMMA FillFaith == ASSUME Base, Faith, Fill, ShortLabels, BigBuffers PROVE Faith'
<1> DEFINE t == Tag(RecDev = pos /\ spot = pos /\ last_recorded # "MOVEXY")
           r == SaveMove(rec, pos)
           s == St(r, orig_vis)
           o == drawn \o Item(<<"fill", spot, pen.color>>, t)
<1>1. Recorded(Save(r, <<"FILLERUP">>), "FILLERUP") /\ drawn' = o /\ UNCHANGED <<orig_vis, refresh_p, filled, whole, pen, penmode>>
  BY DEF Fill, Placement, other
<1>2. CASE whole
  <2>1. pos \in Point /\ spot \in Point /\ orig_vis \in Visibility /\ penmode = pen.md /\ MoveLast
    BY <1>2, NowTypes
  <2>2. PICK a \in Point : ToldNow(rec, drawn, a)
    BY <1>2, NowTypes
  <2>3. ToldNow(r, drawn, pos) /\ RecDev = a
    BY <2>1, <2>2, MoveTold, RecDevIs
  <2>4. t \in {"", "stray"}
    BY DEF Tag
  <2>5. Floods(s, spot, t)
    <3> SUFFICES ASSUME t = "" PROVE spot = s.spot
      BY DEF Floods
    <3>1. RecDev = pos /\ spot = pos /\ last_recorded # "MOVEXY"
      BY DEF Tag
    <3>2. s.spot = a
      BY <2>1, <2>2, <3>1, MoveSpot
    <3> QED
      BY <2>3, <3>1, <3>2
  <2> HIDE DEF t, r
  <2>6. Told(r, filled, orig_vis, drawn, pen, penmode, pos, pos)
    BY <2>3 DEF ToldNow
  <2>7. Told(Save(r, <<"FILLERUP">>), filled, orig_vis, o, pen, penmode, pos, pos)
    BY <2>1, <2>4, <2>5, <2>6, ToldFill
  <2>8. penmode' = pen'.md /\ Told(Save(r, <<"FILLERUP">>), filled, orig_vis, drawn', pen', penmode', pos, pos) /\ "FILLERUP" # "MOVEXY"
    BY <1>1, <2>1, <2>7
  <2> QED
    BY <1>1, <2>1, <2>8, FaithStep
<1>3. CASE ~whole
  BY <1>1, <1>3 DEF Faith
<1> QED
  BY <1>2, <1>3

\* FILLED: what is before STARTFILL is the record as it was.
LEMMA StartedAfter ==
  ASSUME NEW r, Good(r), Fits(r), NEW f, f.on = TRUE, f.cur = SafeToSave(r).cur, f.n = SafeToSave(r).n, ShortLabels, BigBuffers
  PROVE  Before(Save(r, Start(0)), f) = Entries(r)
<1> DEFINE q == Save(r, Start(0))
           s == SafeToSave(r)
           b == q.bufs[q.cur]
           u == UpTo(q.bufs, q.cur - 1)
           w == SubSeq(b, 1, f.n)
<1>1. Wrote(r, q, Start(0)) /\ Solid(q, f) /\ Entries(r) \in Seq(Entry) /\ Start(0) \in Entry
  BY StartMade, SaveWrites, StartedIs, EntriesType
<1>2. q = Put(s, Start(0))
  BY SaveIs
<1>3. q.cur = f.cur /\ q.n = f.n + 1 /\ f.n \in Nat
  <2>2. s = r \/ (s.cur = r.cur + 1 /\ s.n = 0 /\ \E c : s = [bufs |-> c, cur |-> r.cur + 1, n |-> 0])
    BY DEF SafeToSave
  <2>3. r = [bufs |-> r.bufs, cur |-> r.cur, n |-> r.n] /\ r.n \in Nat
    BY DEF Good, Record
  <2>4. \E c, k, n : s = [bufs |-> c, cur |-> k, n |-> n] /\ n \in Nat
    BY <2>2, <2>3
  <2>5. PICK c, k, n : s = [bufs |-> c, cur |-> k, n |-> n] /\ n \in Nat
    BY <2>4
  <2>6. f.cur = s.cur /\ f.n = s.n
    OBVIOUS
  <2> HIDE DEF q, s
  <2> QED
    BY <1>2, <2>5, <2>6, PutIs
<1> HIDE DEF q, s
<1>4. Good(q) /\ Entries(q) = Append(Entries(r), Start(0)) /\ q.n = Len(b) /\ b \in Seq(Entry) /\ b[q.n] = Start(0)
  BY <1>1 DEF Wrote, Good
<1>5. u \in Seq(Entry) /\ Entries(q) = u \o b
  BY <1>4, EntriesType
<1>6. w \in Seq(Entry) /\ b = Append(w, Start(0))
  <2>1. b # <<>> /\ Len(b) = f.n + 1
    BY <1>3, <1>4, EmptySeq
  <2> HIDE DEF b
  <2>2. PICK x \in Seq(Entry) : \E y \in Entry : b = Append(x, y) /\ SubSeq(b, 1, Len(b) - 1) = x /\ b[Len(b)] = y
    BY <1>4, <2>1, Popped
  <2>3. Len(b) - 1 = f.n
    BY <1>3, <2>1
  <2> QED
    BY <1>4, <2>2, <2>3
<1>7. u \o w \in Seq(Entry) /\ u \o Append(w, Start(0)) = Append(u \o w, Start(0))
  <2> HIDE DEF u, w
  <2> QED
    BY <1>1, <1>5, <1>6, ConcatAppend, ConcatProperties
<1>8. Before(q, f) = u \o w
  BY <1>3 DEF Before
<1> HIDE DEF u, w, b
<1>9. Append(Entries(r), Start(0)) = Append(u \o w, Start(0))
  BY <1>4, <1>5, <1>6, <1>7
<1>10. Entries(r) = u \o w
  <2> DEFINE es == Entries(r)
             x == u \o w
             e == Start(0)
  <2>1. es \in Seq(Entry) /\ x \in Seq(Entry) /\ e \in Entry /\ Append(es, e) = Append(x, e)
    BY <1>1, <1>7, <1>9
  <2> HIDE DEF es, x, e
  <2>2. Append(es, e) = Append(x, e) <=> es = x /\ e = e
    BY <2>1, AppendInjective
  <2>3. es = x
    BY <2>1, <2>2
  <2> QED
    BY <2>3 DEF es, x
<1> QED
  BY <1>8, <1>10 DEF q


LEMMA StartState ==
  ASSUME NEW s \in State, NEW u, u = Replay1(s, Start(0)), ShortLabels
  PROVE  /\ u \in State /\ u.on = TRUE /\ u.points = <<s.last>> /\ u.pen = s.pen /\ u.imode = s.imode
         /\ u.dev = s.dev /\ u.last = s.last /\ u.out = s.out
         /\ Replay1(s, Start(3)) = [u EXCEPT !.pcolor = 3]
<1> DEFINE z == <<s.last>>
<1>1. u = [s EXCEPT !.on = TRUE, !.points = z, !.pcolor = 0]
  BY DEF Replay1, Start
<1>2. Replay1(s, Start(3)) = [s EXCEPT !.on = TRUE, !.points = z, !.pcolor = 3]
  BY DEF Replay1, Start
<1>3. u \in State
  BY StartMade, Replay1Type
<1> HIDE DEF z
<1>4. /\ u.on = TRUE /\ u.points = z /\ u.pen = s.pen /\ u.imode = s.imode
      /\ u.dev = s.dev /\ u.last = s.last /\ u.out = s.out
  BY <1>1 DEF State
<1>5. [s EXCEPT !.on = TRUE, !.points = z, !.pcolor = 3] = [u EXCEPT !.pcolor = 3]
  BY <1>1 DEF State
<1> QED
  BY <1>2, <1>3, <1>4, <1>5 DEF z

LEMMA StartFilledFaith == ASSUME Base, Faith, StartFilled, ShortLabels, BigBuffers PROVE Faith'
<1> DEFINE q == Save(rec, Start(0))
           f == filled'
           b == RecDev = pos /\ RecDev = Replay(rec, 0).last
<1>1. /\ f = [on |-> TRUE, old |-> refresh_p, cur |-> SafeToSave(rec).cur, n |-> SafeToSave(rec).n, at |-> pos, tag |-> Tag(b)]
      /\ rec' = Put(SafeToSave(rec), Start(0)) /\ last_recorded' = "STARTFILL" /\ refresh_p' = TRUE
      /\ UNCHANGED <<pen, penmode, orig_vis, drawn, whole>>
  BY DEF StartFilled, device, Start
<1>2. rec' = q
  BY <1>1, SaveIs
<1> SUFFICES ASSUME whole PROVE Faith'
  BY <1>1 DEF Faith
<1>3. pos \in Point /\ orig_vis \in Visibility /\ penmode = pen.md /\ refresh_p
  BY NowTypes
<1>4. PICK a \in Point : ToldNow(rec, drawn, a)
  BY NowTypes
<1>5. Told(rec, filled, orig_vis, drawn, pen, penmode, a, a) /\ RecDev = a
  BY <1>3, <1>4, RecDevIs DEF ToldNow
<1>6. f.on = TRUE /\ f.old = refresh_p /\ f.cur = SafeToSave(rec).cur /\ f.n = SafeToSave(rec).n /\ f.at = pos
      /\ (f.tag = "" => pos = a)
  <2>1. f.tag = Tag(b)
    BY <1>1
  <2>2. f.tag = "" => pos = a
    BY <1>5, <2>1 DEF Tag
  <2> QED
    BY <1>1, <2>2
<1> DEFINE s == St(rec, orig_vis)
           u == St(q, orig_vis)
<1>7. s \in State /\ s.dev = a /\ s.last = a /\ s.pen = pen /\ s.imode = penmode /\ Same(drawn, s.out) /\ drawn \in Seq(Items)
      /\ Good(rec) /\ Fits(rec)
  BY <1>5 DEF Told, Shows, Solid
<1> HIDE DEF f, b
<1>8. Solid(q, f) /\ Before(q, f) = Entries(rec)
  BY <1>6, <1>7, StartedIs, StartedAfter
<1>9. u = Replay1(s, Start(0))
  BY <1>3, <1>7, StartMade, SaveSt
<1> HIDE DEF u
<1>10. /\ u \in State /\ u.on = TRUE /\ u.points = <<s.last>> /\ u.pen = s.pen /\ u.imode = s.imode
       /\ u.dev = s.dev /\ u.last = s.last /\ u.out = s.out
       /\ Replay1(s, Start(3)) = [u EXCEPT !.pcolor = 3]
  <2> HIDE DEF s
  <2> QED
    BY <1>7, <1>9, StartState
<1>11. Shows(u, f, drawn, pen, penmode, a, a)
  BY <1>6, <1>7, <1>10 DEF Shows
<1>12. InFill(q, f, orig_vis, <<>>)
  <2> DEFINE es == Entries(rec)
             h == Append(es, Start(0))
             k == Append(es, Start(3))
             o == <<Start(3)>>
  <2>1. es \in Seq(Entry) /\ Start(0) \in Entry /\ Start(3) \in Entry
    BY <1>7, EntriesType, StartMade
  <2>2. h \in Seq(Entry) /\ k \in Seq(Entry) /\ o \in Seq(Entry)
    <3> HIDE DEF es
    <3> QED
      BY <2>1, AppendProperties, One
  <2>3. h \o <<>> = h /\ k \o <<>> = k /\ o \o <<>> = o
    <3> HIDE DEF h, k, o
    <3> QED
      BY <2>2, ConcatEmptySeq
  <2>4. Entries(q) = h
    <3>1. Wrote(rec, q, Start(0))
      BY <1>7, <2>1, SaveWrites
    <3> QED
      BY <3>1 DEF Wrote
  <2>5. Run(k, orig_vis) = [u EXCEPT !.pcolor = 3]
    <3>1. Run(k, orig_vis) = Replay1(Run(es, orig_vis), Start(3))
      BY <1>3, <2>1, RunAppend
    <3> QED
      BY <1>10, <3>1 DEF St
  <2>6. Visited(o) = <<>>
    <3>1. <<>> \in Seq(Entry) /\ Append(<<>>, Start(3)) = o
      BY <2>1, EmptySeq
    <3>2. Start(3)[1] \notin {"LINEXY", "MOVEXY"}
      BY DEF Start
    <3>3. Visited(Append(<<>>, Start(3))) = Visited(<<>>)
      BY <2>1, <3>1, <3>2, VisitedAppend
    <3> QED
      BY <3>1, <3>3, VisitedEmpty
  <2>7. f.tag = "" => u.points = <<f.at>> \o <<>>
    <3>1. <<f.at>> \o <<>> = <<f.at>>
      <4>1. <<f.at>> \in Seq(Point)
        BY <1>3, <1>6, One
      <4> QED
        BY <4>1, ConcatEmptySeq
    <3> QED
      BY <1>6, <1>7, <1>10, <3>1
  <2> HIDE DEF h, k, o, es
  <2>8. Entries(q) = h \o <<>> /\ Run(k \o <<>>, orig_vis) = [u EXCEPT !.pcolor = 3]
        /\ (f.tag = "" => u.points = <<f.at>> \o Visited(o \o <<>>))
    BY <2>3, <2>4, <2>5, <2>6, <2>7
  <2> QED
    BY <1>8, <2>8 DEF InFill, u, h, k, o, es
<1>13. Midway(q, f, orig_vis)
  BY <1>12, EmptySeq DEF Midway
<1>14. Told(q, f, orig_vis, drawn, pen, penmode, a, a)
  BY <1>3, <1>6, <1>8, <1>11, <1>13 DEF Told, u
<1> HIDE DEF q
<1>15. Told(rec', filled', orig_vis', drawn', pen', penmode', a, a)
  BY <1>1, <1>2, <1>14 DEF f
<1>16. \E p \in Point : ToldNow(rec, drawn, p)'
  BY <1>15 DEF ToldNow
<1>17. refresh_p' /\ filled'.old /\ penmode' = pen'.md /\ MoveLast'
  BY <1>1, <1>3, <1>6 DEF MoveLast, f
<1> QED
  BY <1>16, <1>17 DEF Faith, Whole


LEMMA SubSeqAfter ==
  ASSUME NEW h \in Seq(Entry), NEW z \in Seq(Entry), z # <<>>
  PROVE  SubSeq(h \o z, Len(h) + 1, Len(h \o z)) = z
<1>1. Len(h) \in Nat /\ Len(z) \in Nat \ {0} /\ Len(h \o z) = Len(h) + Len(z)
  BY EmptySeq, ConcatProperties
<1> DEFINE m == Len(h) + 1
           n == Len(h) + Len(z)
<1>2. m \in Len(h) + 1 .. Len(h) + Len(z) /\ n \in Len(h) + 1 .. Len(h) + Len(z) /\ m - Len(h) = 1 /\ n - Len(h) = Len(z)
  BY <1>1
<1> HIDE DEF m, n
<1>3. SubSeq(h \o z, m, n) = SubSeq(z, m - Len(h), n - Len(h))
  BY <1>2, SubSeqOfConcat2
<1>4. SubSeq(z, 1, Len(z)) = z
  BY SubSeqFull
<1>5. SubSeq(h \o z, m, n) = z
  BY <1>2, <1>3, <1>4
<1> QED
  BY <1>1, <1>5 DEF m, n

\* The record when ENDFILL has been added to it: what came before STARTFILL, and
\* what came since.
Ended(t) == Append(<<Start(3)>> \o t, <<"ENDFILL">>)
DoneParts(t) ==
    /\ Entries(MarkOf(rec, filled)) = Append(Before(rec, filled), Start(3)) \o t
    /\ Since(Done) = Ended(t) /\ Visited(Ended(t)) = Visited(<<Start(3)>> \o t)

LEMMA EndedParts ==
  ASSUME Base, filled.on, NEW t \in Seq(Entry), InFill(rec, filled, orig_vis, t), ShortLabels, BigBuffers
  PROVE  DoneParts(t)
<1> DEFINE m == MarkOf(rec, filled)
           h == Before(rec, filled)
           o == <<Start(3)>>
           y == o \o t
           e == <<"ENDFILL">>
           z == Append(y, e)
<1>1. Good(rec) /\ Fits(rec) /\ FilledAt(rec, filled, 0)
  BY DEF Base, FillTypes, Solid
<1>2. DoneRight
  BY DoneIs
<1>3. e \in Entry /\ Start(3) \in Entry /\ o \in Seq(Entry) /\ h \in Seq(Entry)
  BY <1>1, StartMade, EntryMade, One, BeforeType
<1>4. Entries(m) = Append(h, Start(3)) \o t
  <2>1. Entries(rec) = Append(h, Start(0)) \o t
    BY DEF InFill
  <2> QED
    BY <1>1, <2>1, MarkIs
<1>5. Entries(Done) = Append(Entries(m), e)
  BY <1>2 DEF DoneRight, Wrote
<1> HIDE DEF m, h, o, e
<1>6. y \in Seq(Entry)
  BY <1>3, ConcatProperties
<1>7. Append(h, Start(3)) \o t = h \o y
  <2>1. Append(h, Start(3)) = h \o o
    BY <1>3, AppendIsConcat DEF o
  <2>2. (h \o o) \o t = h \o (o \o t)
    BY <1>3, ConcatAssociative
  <2> QED
    BY <2>1, <2>2
<1> HIDE DEF y
<1>8. h \o z = Append(h \o y, e) /\ z \in Seq(Entry) /\ z # <<>>
  <2>1. h \o Append(y, e) = Append(h \o y, e)
    BY <1>3, <1>6, ConcatAppend
  <2>2. Append(y, e) \in Seq(Entry) /\ Append(y, e) # <<>>
    BY <1>3, <1>6, AppendProperties
  <2> QED
    BY <2>1, <2>2
<1> HIDE DEF z
<1>9. Entries(Done) = h \o z
  BY <1>4, <1>5, <1>7, <1>8
<1>10. Entries(CutBack(Done)) = h
  <2>1. CutRight(Done, CutBack(Done), filled)
    BY <1>2, CutBackRight DEF DoneRight
  <2> QED
    BY <1>2, <2>1 DEF DoneRight, CutRight, h
<1>11. Since(Done) = z
  BY <1>3, <1>8, <1>9, <1>10, SubSeqAfter DEF Since
<1>12. Visited(Append(y, e)) = Visited(y)
  <2>1. e[1] \notin {"LINEXY", "MOVEXY"}
    BY DEF e
  <2> QED
    BY <1>3, <1>6, <2>1, VisitedAppend
<1> QED
  BY <1>4, <1>11, <1>12 DEF DoneParts, Ended, m, h, z, y, o, e

LEMMA EndState ==
  ASSUME NEW s \in State, NEW c, c = [s EXCEPT !.pcolor = 3], NEW u, u = Replay1(c, <<"ENDFILL">>), ShortLabels
  PROVE  /\ u \in State /\ u.on = FALSE /\ u.pen = s.pen /\ u.imode = s.imode /\ u.dev = s.dev /\ u.last = s.last
         /\ u.out = s.out \o Item(<<"polygon", s.points, 3, Ink(s.pen)>>, "")
<1>1. c \in State /\ c.points = s.points /\ c.pen = s.pen /\ c.out = s.out /\ c.pcolor = 3 /\ c.imode = s.imode
      /\ c.dev = s.dev /\ c.last = s.last
  BY DEF State
<1> DEFINE o == s.out \o Item(<<"polygon", s.points, 3, Ink(s.pen)>>, "")
<1>2. u = [c EXCEPT !.on = FALSE, !.out = o]
  BY <1>1 DEF Replay1
<1>3. u \in State
  BY <1>1, EntryMade, Replay1Type
<1> HIDE DEF o
<1>4. u.on = FALSE /\ u.out = o /\ u.pen = c.pen /\ u.imode = c.imode /\ u.dev = c.dev /\ u.last = c.last
  BY <1>1, <1>2 DEF State
<1> QED
  BY <1>1, <1>3, <1>4 DEF o

LEMMA EndFilledFaith == ASSUME Base, Faith, EndFilled, ShortLabels, BigBuffers PROVE Faith'
<1> DEFINE k == <<"polygon", Points(Done), 3, Ink(pen)>>
<1>1. filled.on /\ DoneRight
  BY DoneIs DEF EndFilled
<1>2. /\ rec' = IF filled.old THEN Done ELSE CutBack(Done)
      /\ drawn' = drawn \o Item(k, filled.tag) /\ last_recorded' = "ENDFILL"
      /\ refresh_p' = filled.old /\ filled' = Idle /\ UNCHANGED <<pen, penmode, orig_vis, whole>>
  <2>1. Save([rec EXCEPT !.bufs[filled.cur][filled.n + 1][2] = 3], <<"ENDFILL">>) = Done
    BY <1>1 DEF DoneRight
  <2> QED
    BY <2>1 DEF EndFilled
<1> SUFFICES ASSUME whole PROVE Faith'
  BY <1>2 DEF Faith
<1>3. pen \in PenRecord /\ orig_vis \in Visibility /\ penmode = pen.md /\ filled.old /\ filled.at \in Point
      /\ filled.tag \in {"", "stray"} /\ ~Idle.on
  BY <1>1, NowTypes, FillingIs DEF Faith, Whole, Base, FillTypes
<1>4. PICK a \in Point : ToldNow(rec, drawn, a)
  BY NowTypes
<1> DEFINE s == St(rec, orig_vis)
           c == [s EXCEPT !.pcolor = 3]
           u == St(Done, orig_vis)
<1>5. /\ s \in State /\ s.dev = a /\ s.last = a /\ s.pen = pen /\ s.imode = penmode /\ Same(drawn, s.out) /\ drawn \in Seq(Items)
      /\ Midway(rec, filled, orig_vis)
  BY <1>4 DEF ToldNow, Told, Shows
<1>6. PICK t \in Seq(Entry) : InFill(rec, filled, orig_vis, t)
  BY <1>1, <1>5 DEF Midway
<1>7. DoneParts(t)
  BY <1>1, <1>6, EndedParts
<1> DEFINE g == Append(Before(rec, filled), Start(3)) \o t
<1>8. Entries(Done) = Append(g, <<"ENDFILL">>) /\ Run(g, orig_vis) = c /\ g \in Seq(Entry)
  <2>1. Entries(Done) = Append(g, <<"ENDFILL">>)
    BY <1>1, <1>7 DEF DoneRight, Wrote, DoneParts
  <2>2. Run(g, orig_vis) = c
    BY <1>6 DEF InFill
  <2>3. Entries(MarkOf(rec, filled)) \in Seq(Entry)
    <3>1. Good(rec) /\ Fits(rec) /\ FilledAt(rec, filled, 0)
      BY <1>1 DEF Base, FillTypes, Solid
    <3>2. Good(MarkOf(rec, filled))
      BY <3>1, MarkIs
    <3> QED
      BY <3>2, EntriesType
  <2> QED
    BY <1>7, <2>1, <2>2, <2>3 DEF DoneParts
<1>9. u = Replay1(c, <<"ENDFILL">>)
  <2>1. <<"ENDFILL">> \in Entry
    BY EntryMade
  <2> HIDE DEF g, c
  <2>2. Run(Append(g, <<"ENDFILL">>), orig_vis) = Replay1(Run(g, orig_vis), <<"ENDFILL">>)
    BY <1>3, <1>8, <2>1, RunAppend
  <2> QED
    BY <1>8, <2>2 DEF St
<1> DEFINE w == <<"polygon", s.points, 3, Ink(s.pen)>>
           p == Item(w, "")
<1>10. /\ u \in State /\ u.on = FALSE /\ u.pen = s.pen /\ u.imode = s.imode /\ u.dev = s.dev /\ u.last = s.last
       /\ u.out = s.out \o p
  <2> HIDE DEF u, s
  <2> QED
    BY <1>5, <1>9, EndState
<1>11. k \in What /\ w \in What /\ k[1] = w[1] /\ (filled.tag = "" => k = w) /\ "" \in {"", "stray"}
  <2>1. Points(Done) = <<filled.at>> \o Visited(Since(Done)) /\ Points(Done) \in Seq(Point)
    BY <1>1, PointsType
  <2>2. Points(Done) = <<filled.at>> \o Visited(<<Start(3)>> \o t)
    BY <1>7, <2>1 DEF DoneParts
  <2>3. filled.tag = "" => s.points = Points(Done)
    BY <1>6, <2>2 DEF InFill
  <2>4. s.points \in Seq(Point) /\ Ink(pen) \in InkRecord /\ 3 \in Int
    <3>1. s.points \in Seq(Point)
      <4> HIDE DEF s
      <4> QED
        BY <1>5 DEF State
    <3>2. Ink(pen) \in InkRecord
      BY <1>3, PenType
    <3> QED
      BY <3>1, <3>2
  <2> QED
    BY <1>5, <2>1, <2>3, <2>4, WhatMade
<1>12. Same(drawn', u.out) /\ drawn' \in Seq(Items)
  <2> HIDE DEF k, w, u, s
  <2>1. Item(k, filled.tag) \in Seq(Items) /\ p \in Seq(Items)
    BY <1>3, <1>11, ItemType
  <2>2. Same(Item(k, filled.tag), p)
    BY <1>3, <1>11, SameItem
  <2>3. s.out \in Seq(Items)
    BY <1>5 DEF State
  <2> HIDE DEF p
  <2>4. Same(drawn \o Item(k, filled.tag), s.out \o p) /\ drawn \o Item(k, filled.tag) \in Seq(Items)
    BY <1>5, <2>1, <2>2, <2>3, SameConcat, ConcatProperties
  <2> QED
    BY <1>2, <1>10, <2>4
<1>13. Shows(u, Idle, drawn', pen, penmode, a, a)
  <2> HIDE DEF u, s
  <2> QED
    BY <1>3, <1>5, <1>10, <1>12 DEF Shows, Idle
<1>14. Told(Done, Idle, orig_vis, drawn', pen, penmode, a, a)
  BY <1>1, <1>3, <1>13 DEF Told, Solid, Midway, DoneRight, u
<1>15. Told(rec', filled', orig_vis', drawn', pen', penmode', a, a)
  BY <1>2, <1>3, <1>14
<1>16. \E q \in Point : ToldNow(rec, drawn, q)'
  BY <1>15 DEF ToldNow
<1>17. refresh_p' /\ ~filled'.on /\ penmode' = pen'.md /\ MoveLast'
  BY <1>2, <1>3 DEF MoveLast
<1> QED
  BY <1>16, <1>17 DEF Faith, Whole


\* The record that CLEAN begins says what the pen is, when PENMODE does.
LEMMA CleanTold ==
  ASSUME Base, ~filled.on, penmode = pen.md, NEW p \in Point, ShortLabels, BigBuffers
  PROVE  \E a \in Point : Told(Clean5(p), filled, pen.vis, <<>>, pen, penmode, a, a)
<1> DEFINE v == pen.vis
           k == [vis |-> v, md |-> "PAINT", color |-> 7, size |-> 1]
           k3 == [vis |-> v, md |-> penmode, color |-> IF penmode = "PAINT" THEN 7 ELSE pen.color, size |-> 1]
           k4 == [vis |-> v, md |-> penmode, color |-> pen.color, size |-> 1]
<1>1. pen \in PenRecord /\ penmode \in Mode /\ v \in Visibility /\ pen.color \in Int /\ pen.size \in Int /\ Center \in Point
      /\ filled.on = FALSE
  <2>1. pen \in PenRecord /\ penmode \in Mode
    BY DEF Base, PenTypes
  <2>2. filled.on \in BOOLEAN
    BY FillingIs DEF Base, FillTypes
  <2> QED
    BY <2>1, <2>2, PenType, CenterType
<1>2. Told(Clean0, filled, v, <<>>, k, "PAINT", Center, Center)
  <2>1. Solid(Clean0, filled) /\ Entries(Clean0) = <<>>
    BY CleanSolid, CleanEmpty
  <2>2. St(Clean0, v) = Fresh(v) /\ Fresh(v) \in State
    BY <1>1, <2>1, RunEmpty, FreshType DEF St
  <2>3. <<>> \in Seq(Items) /\ Same(<<>>, <<>>)
    BY EmptySeq, SameAgain
  <2>4. Fresh(v).pen = k /\ Fresh(v).imode = "PAINT" /\ Fresh(v).dev = Center /\ Fresh(v).last = Center /\ Fresh(v).out = <<>>
        /\ Fresh(v).on = FALSE
    BY DEF Fresh
  <2> HIDE DEF k, v
  <2>5. Shows(Fresh(v), filled, <<>>, k, "PAINT", Center, Center)
    BY <1>1, <2>2, <2>3, <2>4 DEF Shows
  <2> QED
    BY <1>1, <2>1, <2>2, <2>5 DEF Told, Midway
<1>3. k.vis = v /\ [k EXCEPT !.vis = v] = k /\ k \in PenRecord
  BY <1>1 DEF PenRecord, Mode
<1>4. PICK a \in Point : Told(Clean1(p), filled, v, <<>>, k, "PAINT", a, a)
  <2> HIDE DEF k, v
  <2>1. CASE p = Center
    BY <1>1, <1>2, <2>1 DEF Clean1
  <2>2. CASE p # Center
    <3>1. Told(Save(Clean0, <<"MOVEXY", p>>), filled, v, <<>>, k, "PAINT", p, p)
      BY <1>1, <1>2, ToldMove
    <3> QED
      BY <2>2, <3>1 DEF Clean1
  <2> QED
    BY <2>1, <2>2
<1>5. Told(Clean2(p), filled, v, <<>>, k, "PAINT", a, a)
  <2>1. Told(Save(Clean1(p), <<"SETPENVIS", v>>), filled, v, <<>>, k, "PAINT", a, a)
    <3> HIDE DEF k, v
    <3>1. Told(Save(Clean1(p), <<"SETPENVIS", v>>), filled, v, <<>>, [k EXCEPT !.vis = v], "PAINT", a, a)
      BY <1>1, <1>4, ToldVis
    <3> QED
      BY <1>3, <3>1
  <2> QED
    BY <1>4, <2>1 DEF Clean2, SaveVis
<1>6. Told(Clean3(p), filled, v, <<>>, k3, penmode, a, a)
  <2>1. CASE penmode = "PAINT"
    <3>1. k3 = k
      BY <2>1
    <3> HIDE DEF k, k3, v
    <3> QED
      BY <1>5, <2>1, <3>1 DEF Clean3
  <2>2. CASE penmode # "PAINT"
    <3>1. k3 = [[k EXCEPT !.md = pen.md] EXCEPT !.color = pen.color]
      <4>1. k3 = [vis |-> v, md |-> pen.md, color |-> pen.color, size |-> 1]
        BY <2>2
      <4>2. [k EXCEPT !.md = pen.md] = [vis |-> v, md |-> pen.md, color |-> 7, size |-> 1]
        OBVIOUS
      <4>3. [[vis |-> v, md |-> pen.md, color |-> 7, size |-> 1] EXCEPT !.color = pen.color]
              = [vis |-> v, md |-> pen.md, color |-> pen.color, size |-> 1]
        OBVIOUS
      <4> QED
        BY <4>1, <4>2, <4>3
    <3> HIDE DEF k, k3, v
    <3>2. Told(SaveMode(Clean2(p), pen, penmode), filled, v, <<>>, [[k EXCEPT !.md = pen.md] EXCEPT !.color = pen.color], penmode, a, a)
      BY <1>1, <1>5, ToldMode
    <3> QED
      BY <2>2, <3>1, <3>2 DEF Clean3
  <2> QED
    BY <2>1, <2>2
<1>7. Told(Clean4(p), filled, v, <<>>, k4, penmode, a, a)
  <2>1. k4 = [k3 EXCEPT !.color = pen.color] /\ (pen.color = 7 => k4 = k3)
    OBVIOUS
  <2> HIDE DEF k, k3, k4, v
  <2>2. Told(Save(Clean3(p), <<"SETPENCOLOR", pen.color>>), filled, v, <<>>, [k3 EXCEPT !.color = pen.color], penmode, a, a)
    BY <1>1, <1>6, ToldColor
  <2>3. CASE pen.color = 7
    BY <1>6, <2>1, <2>3 DEF Clean4
  <2>4. CASE pen.color # 7
    BY <2>1, <2>2, <2>4 DEF Clean4, SaveColor
  <2> QED
    BY <2>3, <2>4
<1>8. Told(Clean5(p), filled, v, <<>>, pen, penmode, a, a)
  <2>1. pen = [k4 EXCEPT !.size = pen.size] /\ (pen.size = 1 => pen = k4)
    BY <1>1 DEF PenRecord
  <2> HIDE DEF k, k3, k4, v
  <2>2. Told(Save(Clean4(p), <<"SETPENSIZE", pen.size>>), filled, v, <<>>, [k4 EXCEPT !.size = pen.size], penmode, a, a)
    BY <1>1, <1>7, ToldSize
  <2>3. CASE pen.size = 1
    BY <1>7, <2>1, <2>3 DEF Clean5
  <2>4. CASE pen.size # 1
    BY <2>1, <2>2, <2>4 DEF Clean5, SaveSize
  <2> QED
    BY <2>3, <2>4
<1> QED
  BY <1>8

LEMMA ClearFaith == ASSUME Base, Faith, Clear, ShortLabels, BigBuffers PROVE Faith'
<1> DEFINE r == CleanRec(pos')
<1>1. /\ ~filled.on /\ drawn' = <<>> /\ orig_vis' = pen.vis /\ UNCHANGED <<pen, penmode, refresh_p, filled>>
      /\ whole' = (refresh_p /\ penmode = pen.md)
      /\ (refresh_p => rec' = r /\ last_recorded' = IF r.n = 0 THEN "none" ELSE r.bufs[r.cur][r.n][1])
  BY DEF Clear, other
<1> SUFFICES ASSUME whole' PROVE Whole'
  BY DEF Faith
<1>2. refresh_p /\ penmode = pen.md
  BY <1>1
<1>3. pos' \in Point
  <2>1. pos' = Center \/ pos' = pos
    BY DEF Clear
  <2> QED
    BY <2>1, CenterType DEF Base, PlaceTypes
<1>4. r = Clean5(pos')
  BY CleanIs
<1> HIDE DEF r
<1>5. PICK a \in Point : Told(r, filled, pen.vis, <<>>, pen, penmode, a, a)
  BY <1>1, <1>2, <1>3, <1>4, CleanTold
<1>6. Told(rec', filled', orig_vis', drawn', pen', penmode', a, a)
  BY <1>1, <1>2, <1>5
<1>7. \E q \in Point : ToldNow(rec, drawn, q)'
  BY <1>6 DEF ToldNow
<1>8. MoveLast'
  <2> SUFFICES ASSUME last_recorded' = "MOVEXY" PROVE EndsInMove(rec')
    BY DEF MoveLast
  <2>1. r.n # 0 /\ r.bufs[r.cur][r.n][1] = "MOVEXY"
    BY <1>1, <1>2
  <2>2. Good(r)
    BY <1>5, ToldTypes
  <2>3. EndsInMove(r)
    BY <2>1, <2>2, LastIs DEF EndsInMove
  <2> QED
    BY <1>1, <1>2, <2>3
<1> QED
  BY <1>1, <1>2, <1>7, <1>8 DEF Whole

LEMMA SetBackgroundFaith == ASSUME Base, Faith, SetBackground, ShortLabels PROVE Faith'
<1>1. Redraw(rec) /\ UNCHANGED <<pen, orig_vis, rec, last_recorded, refresh_p, filled, whole>>
  BY DEF SetBackground, record, other
<1> SUFFICES ASSUME whole PROVE Faith'
  BY <1>1 DEF Faith
<1>2. orig_vis \in Visibility /\ refresh_p /\ penmode = pen.md /\ MoveLast /\ (filled.on => filled.old)
  BY NowTypes DEF Faith, Whole
<1>3. PICK a \in Point : ToldNow(rec, drawn, a)
  BY NowTypes
<1> DEFINE s == St(rec, orig_vis)
<1>4. Told(rec, filled, orig_vis, drawn, pen, penmode, a, a) /\ Shows(s, filled, drawn, pen, penmode, a, a) /\ Good(rec)
  BY <1>3 DEF ToldNow, Told, Solid
<1>5. Replay(rec, orig_vis) = s
  BY <1>2, <1>4, ReplayIs DEF St
<1>6. drawn' = s.out /\ penmode' = s.imode
  BY <1>1, <1>2, <1>5 DEF Redraw
<1> HIDE DEF s
<1>7. penmode' = penmode /\ Shows(s, filled, drawn', pen, penmode, a, a)
  <2>1. s.out \in Seq(Items) /\ Same(s.out, s.out) /\ s.imode = penmode
    BY <1>4, SameAgain DEF Shows, State
  <2> QED
    BY <1>4, <1>6, <2>1 DEF Shows
<1>8. Told(rec, filled, orig_vis, drawn', pen, penmode, a, a)
  BY <1>4, <1>7 DEF Told, s
<1>9. Told(rec', filled', orig_vis', drawn', pen', penmode', a, a)
  BY <1>1, <1>7, <1>8
<1>10. \E q \in Point : ToldNow(rec, drawn, q)'
  BY <1>9 DEF ToldNow
<1> QED
  BY <1>1, <1>2, <1>7, <1>10 DEF Faith, Whole, MoveLast

LEMMA RecordsFaith == ASSUME Base, Faith, Records, ShortLabels, BigBuffers PROVE Faith'
<1>1. CASE BreakFilled \/ LoadPict
  <2>1. whole' = FALSE
    BY <1>1 DEF BreakFilled, LoadPict
  <2> QED
    BY <2>1 DEF Faith
<1>2. CASE Refresh
  <2>1. whole' = (whole /\ refresh_p') /\ refresh_p' = ~refresh_p
    BY <1>2 DEF Refresh
  <2> QED
    BY <2>1 DEF Faith, Whole
<1>3. CASE SavePict
  <2>1. UNCHANGED <<rec, last_recorded, refresh_p, filled, orig_vis, drawn, pen, penmode, whole>>
    BY <1>3 DEF SavePict, device, record
  <2> QED
    BY <2>1, FaithSame
<1> QED
  BY <1>1, <1>2, <1>3, StartFilledFaith, EndFilledFaith, ClearFaith, SetBackgroundFaith DEF Records

LEMMA FaithNext == ASSUME Base, Faith, [Next]_vars, ShortLabels, BigBuffers PROVE Faith'
<1>1. CASE Advance
  BY <1>1, DrawFaith, JumpFaith, CrossFaith DEF Advance
<1>2. CASE Interrupted
  BY <1>2, InterruptedFaith
<1>3. CASE Draws
  BY <1>3, PenUpDownFaith, PenModeFaith, PenLookFaith, LabelFaith, FillFaith, ArcFaith DEF Draws
<1>4. CASE Moves
  BY <1>4, MovesFaith
<1>5. CASE Records
  BY <1>5, RecordsFaith
<1>6. CASE UNCHANGED vars
  <2>1. UNCHANGED <<rec, last_recorded, refresh_p, filled, orig_vis, drawn, pen, penmode, whole>>
    BY <1>6 DEF vars, device, record, other
  <2> QED
    BY <2>1, FaithSame
<1> QED
  BY <1>1, <1>2, <1>3, <1>4, <1>5, <1>6 DEF Next


\* The picture file has a record of what was drawn when it was written.
FileFaith == file.on /\ file.whole => Same(file.drawn, St(Picture(file), file.vis).out)

LEMMA FileKept == ASSUME [Next]_vars PROVE SavePict \/ file' = file
<1>1. CASE Advance \/ Interrupted
  BY <1>1 DEF Advance, Interrupted, Draw, Jump, Cross, RestOfMove, other
<1>2. CASE Draws
  BY <1>2 DEF Draws, PenUpDown, PenMode, SetPenColor, SetPenSize, Label, Fill, Arc, Placement, other
<1>3. CASE Moves
  BY <1>3 DEF Moves, RightTurn, Forward, SetXY, Home, Enclose, Window, other
<1>4. CASE StartFilled \/ EndFilled \/ BreakFilled
  BY <1>4 DEF StartFilled, EndFilled, BreakFilled
<1>5. CASE Clear \/ Refresh \/ SetBackground \/ LoadPict
  BY <1>5 DEF Clear, Refresh, SetBackground, LoadPict, other
<1>6. CASE UNCHANGED vars
  BY <1>6 DEF vars, other
<1> QED
  BY <1>1, <1>2, <1>3, <1>4, <1>5, <1>6 DEF Next, Records

LEMMA FileFaithNext == ASSUME Base, Faith, FileFaith, [Next]_vars, ShortLabels PROVE FileFaith'
<1>1. CASE file' = file
  BY <1>1 DEF FileFaith
<1>2. CASE SavePict
  <2> DEFINE f == file'
             q == [bufs |-> SubSeq(rec.bufs, 1, rec.cur), cur |-> rec.cur, n |-> rec.n]
  <2>1. f = [on |-> TRUE, bufs |-> SubSeq(rec.bufs, 1, rec.cur), n |-> rec.n,
             drawn |-> drawn, whole |-> whole, vis |-> orig_vis]
    BY <1>2 DEF SavePict
  <2>2. Good(rec) /\ Fits(rec)
    BY DEF Base, FillTypes, Solid
  <2>3. SameEntries(q, rec) /\ Len(q.bufs) = rec.cur
    BY <2>2, SavedIs
  <2>4. Picture(f) = q
    BY <2>1, <2>3 DEF Picture
  <2>5. f.drawn = drawn /\ f.whole = whole /\ f.vis = orig_vis
    BY <2>1
  <2> HIDE DEF q, f
  <2>6. ASSUME whole PROVE Same(drawn, St(q, orig_vis).out)
    <3>1. PICK a \in Point : ToldNow(rec, drawn, a)
      BY <2>6, NowTypes
    <3>2. Same(drawn, St(rec, orig_vis).out)
      BY <3>1 DEF ToldNow, Told, Shows
    <3> QED
      BY <2>3, <3>2 DEF SameEntries, St
  <2>7. f.whole => Same(f.drawn, St(Picture(f), f.vis).out)
    BY <2>4, <2>5, <2>6
  <2> QED
    BY <2>7 DEF FileFaith, f
<1> QED
  BY <1>1, <1>2, FileKept

LEMMA InitFaith == ASSUME Init, ShortLabels, BigBuffers PROVE Faith /\ FileFaith
<1>1. /\ pen = Fresh(0).pen /\ penmode = "PAINT" /\ orig_vis = 0 /\ rec = EmptyRec /\ last_recorded = "none" /\ refresh_p = TRUE
      /\ filled = Idle /\ drawn = <<>> /\ file = Idle
  BY DEF Init
<1>2. 0 \in Visibility /\ Center \in Point /\ ~Idle.on
  BY CenterType DEF Visibility, Idle
<1>3. Solid(rec, filled)
  BY InitBase DEF Base, FillTypes
<1>4. Entries(EmptyRec) = <<>>
  <2>1. EmptyRec \in Record /\ Fits(EmptyRec) /\ Len(EmptyRec.bufs) # 0
    BY <1>1, <1>3 DEF Solid, Good
  <2>2. EmptyRec.cur = 1 /\ EmptyRec.n = 0 /\ EmptyRec.bufs = <<<<>>>>
    BY DEF EmptyRec
  <2>3. EmptyRec = Changed(EmptyRec, 1, <<>>, 1, 0)
    BY DEF EmptyRec, Changed
  <2> QED
    BY <2>1, <2>3, EmptyGood
<1>5. St(rec, orig_vis) = Fresh(0) /\ Fresh(0) \in State
  BY <1>1, <1>2, <1>4, RunEmpty, FreshType DEF St
<1>6. Fresh(0).imode = "PAINT" /\ Fresh(0).dev = Center /\ Fresh(0).last = Center /\ Fresh(0).out = <<>>
      /\ Fresh(0).on = FALSE /\ Fresh(0).pen.md = "PAINT"
  BY DEF Fresh
<1>7. Idle.on = FALSE /\ <<>> \in Seq(Items) /\ Same(<<>>, <<>>)
  BY EmptySeq, SameAgain DEF Idle
<1>8. Shows(St(rec, orig_vis), filled, drawn, pen, penmode, Center, Center)
  BY <1>1, <1>5, <1>6, <1>7 DEF Shows
<1>9. ToldNow(rec, drawn, Center)
  BY <1>1, <1>2, <1>3, <1>8 DEF ToldNow, Told, Midway
<1>10. Whole
  BY <1>1, <1>2, <1>6, <1>9 DEF Whole, MoveLast
<1> QED
  BY <1>1, <1>2, <1>10 DEF Faith, FileFaith

\* The invariant of all that follows.
TurtleSound == Base /\ Bounded /\ Faith /\ FileFaith

\* The invariant above is one: no command, and no step of a walk that is
\* interrupted, breaks it.
THEOREM SoundHolds == ASSUME ShortLabels, BigBuffers PROVE Spec => []TurtleSound
<1>1. Init => TurtleSound
  BY InitBase, InitBounded, InitFaith DEF TurtleSound
<1>2. TurtleSound /\ [Next]_vars => TurtleSound'
  BY BaseNext, BoundedNext, FaithNext, FileFaithNext DEF TurtleSound
<1> QED
  BY <1>1, <1>2, PTL DEF Spec

LEMMA SoundShows == ASSUME Base, Faith, ShortLabels PROVE RedrawFaithful /\ ModesAgree
<1> SUFFICES ASSUME whole PROVE Same(drawn, Replay(rec, orig_vis).out) /\ penmode = pen.md
  BY DEF RedrawFaithful, ModesAgree
<1>1. PICK a \in Point : ToldNow(rec, drawn, a)
  BY NowTypes
<1>2. orig_vis \in Visibility /\ penmode = pen.md
  BY NowTypes
<1>3. Same(drawn, St(rec, orig_vis).out) /\ Good(rec)
  BY <1>1 DEF ToldNow, Told, Shows, Solid
<1>4. Replay(rec, orig_vis) = St(rec, orig_vis)
  BY <1>2, <1>3, ReplayIs DEF St
<1> QED
  BY <1>2, <1>3, <1>4

\* Outside FILLED, and while everything drawn has been recorded, redraw_graphics
\* draws what the commands drew, in the same order and with the same pen, but for
\* the place of the items that are known to be misplaced (Same in Turtle).
THEOREM RedrawIsFaithful == ASSUME ShortLabels, BigBuffers PROVE Spec => []RedrawFaithful
<1>1. TurtleSound => RedrawFaithful
  BY SoundShows DEF TurtleSound
<1> QED
  BY <1>1, SoundHolds, PTL

\* WRAP and FENCE keep the turtle on the screen, in the middle of a walk too; in
\* WRAP mode the place SETPOS will start from is the turtle's own on the torus;
\* and PENMODE says what the pen really does.
THEOREM TurtleInvHolds == ASSUME ShortLabels, BigBuffers PROVE Spec => []TurtleInv
<1>1. TurtleSound => TurtleInv
  BY SoundShows, BaseType DEF TurtleSound, TurtleInv, Bounded
<1> QED
  BY <1>1, SoundHolds, PTL

LEMMA LoadShows ==
  ASSUME TurtleSound, LoadPict, file.whole, file.vis = orig_vis, refresh_p, ShortLabels
  PROVE  Same(file.drawn, drawn')
<1>1. Redraw(Picture(file)) /\ Good(Picture(file)) /\ orig_vis \in Visibility
  BY LoadRight DEF TurtleSound, Base, PenTypes
<1>2. Replay(Picture(file), orig_vis) = St(Picture(file), orig_vis)
  BY <1>1, ReplayIs DEF St
<1>3. drawn' = St(Picture(file), orig_vis).out
  BY <1>1, <1>2 DEF Redraw
<1>4. file.on
  BY DEF LoadPict
<1> QED
  BY <1>3, <1>4 DEF TurtleSound, FileFaith

\* LOADPICT shows what was drawn when SAVEPICT wrote the file, if all of it had
\* been recorded and the redraw begins with the pen up or down as it did then.
THEOREM PicturesComeBack == ASSUME ShortLabels, BigBuffers PROVE Spec => PictureComesBack
<1>1. TurtleSound => [LoadPict /\ file.whole /\ file.vis = orig_vis /\ refresh_p => Same(file.drawn, drawn')]_vars
  BY LoadShows
<1> QED
  BY <1>1, SoundHolds, PTL DEF PictureComesBack
=============================================================================
