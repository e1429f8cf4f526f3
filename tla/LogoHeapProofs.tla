---------------------------- MODULE LogoHeapProofs ----------------------------
(***************************************************************************)
(* TLAPS proofs about the heap and what is kept in it. *)
(*  *)
(* Of LogoHeap, for heaps of any size, any segments, any number of *)
(* generations and any thresholds: the partition of the heap, memory *)
(* safety, the remembered set; then that LogoHeap implements LogoStore, *)
(* and that a full collection leaves what the registers reach. *)
(*  *)
(* Of Data, for any finite number of nodes, any words and variables: which *)
(* cells are in use, that without a primitive with a dot no value comes to *)
(* contain itself, that shared lists stay what they are, and that a *)
(* property changes by PPROP and REMPROP of its name only. *)
(***************************************************************************)
EXTENDS LogoHeapStore, MCData, FiniteSetTheorems, SequenceTheorems, WellFoundedInduction, TLAPS
----
(* Induction and recursion up to n. *)

LEMMA Least ==
  ASSUME NEW T \in SUBSET Nat, T # {} PROVE \E n \in T : \A m \in T : n <= m
<1> DEFINE R == OpToRel(<, Nat)
<1>1. IsWellFoundedOn(R, Nat) BY NatLessThanWellFounded
<1> HIDE DEF R
<1>2. PICK n \in T : \A m \in T : ~(<<m, n>> \in R) BY <1>1, WFMin
<1>3. \A m \in T : ~(m < n) BY <1>2 DEF OpToRel, R
<1> QED BY <1>3

LEMMA Upward ==
  ASSUME NEW n \in Nat, NEW S, 0 \in S, \A i \in 1 .. n : i - 1 \in S => i \in S
  PROVE  \A i \in 0 .. n : i \in S
<1> DEFINE T == {i \in 0 .. n : i \notin S}
<1> SUFFICES ASSUME T # {} PROVE FALSE OBVIOUS
<1>1. PICK m \in T : \A i \in T : m <= i
  <2>1. T \in SUBSET Nat OBVIOUS
  <2> HIDE DEF T
  <2> QED BY <2>1, Least
<1>2. m \in 1 .. n OBVIOUS
<1>3. m - 1 \in 0 .. n /\ m - 1 \notin T BY <1>1, <1>2
<1> QED BY <1>2, <1>3

\* A function that begins with c and goes on with the steps st.
Follows(f, n, c, st) == \A i \in 0 .. n : f[i] = IF i = 0 THEN c ELSE st[i][f[i - 1]]

LEMMA RecursionExists ==
  ASSUME NEW n \in Nat, NEW S, NEW c \in S, NEW st \in [1 .. n -> [S -> S]]
  PROVE  \E f \in [0 .. n -> S] : Follows(f, n, c, st)
<1> DEFINE Upto(m, f) == \A i \in 0 .. m : f[i] = IF i = 0 THEN c ELSE st[i][f[i - 1]]
           T == {m \in 0 .. n : \E f \in [0 .. m -> S] : Upto(m, f)}
<1>1. 0 \in T
  <2>1. Upto(0, [i \in 0 .. 0 |-> c]) /\ [i \in 0 .. 0 |-> c] \in [0 .. 0 -> S] OBVIOUS
  <2> HIDE DEF Upto
  <2> QED BY <2>1
<1>2. ASSUME NEW m \in 1 .. n, m - 1 \in T PROVE m \in T
  <2>1. PICK f \in [0 .. m - 1 -> S] : Upto(m - 1, f) BY <1>2
  <2> DEFINE g == [i \in 0 .. m |-> IF i = m THEN st[m][f[m - 1]] ELSE f[i]]
  <2>2. g \in [0 .. m -> S] OBVIOUS
  <2>3. ASSUME NEW i \in 0 .. m PROVE g[i] = IF i = 0 THEN c ELSE st[i][g[i - 1]]
    <3>1. CASE i = m
      <4>1. g[m - 1] = f[m - 1] /\ g[i] = st[m][f[m - 1]] /\ i # 0 BY <3>1
      <4> HIDE DEF g
      <4> QED BY <3>1, <4>1
    <3>2. CASE i # m
      <4>1. i \in 0 .. m - 1 /\ g[i] = f[i] BY <3>2
      <4>2. i # 0 => g[i - 1] = f[i - 1] BY <3>2
      <4> HIDE DEF g
      <4> QED BY <2>1, <4>1, <4>2
    <3> QED BY <3>1, <3>2
  <2>4. Upto(m, g) BY <2>3
  <2> HIDE DEF g, Upto
  <2> QED BY <2>2, <2>4
<1>3. n \in T
  <2> HIDE DEF T
  <2>1. \A m \in 1 .. n : m - 1 \in T => m \in T BY <1>2
  <2>2. \A m \in 0 .. n : m \in T BY <1>1, <2>1, Upward
  <2> QED BY <2>2
<1>4. PICK f \in [0 .. n -> S] : Upto(n, f)
  <2> HIDE DEF Upto
  <2> QED BY <1>3
<1> QED BY <1>4 DEF Follows
----
(* Data. *)

USE DataAssumption
----
(* What is found: the least closed set. *)

LEMMA FoundHas ==
  ASSUME NEW h, NEW S
  PROVE  /\ Found(h, S) \subseteq NODE
         /\ \A n \in S : n \in NODE => n \in Found(h, S)
         /\ \A n \in Found(h, S) : \A m \in Parts(h, n) : m \in NODE => m \in Found(h, S)
<1> DEFINE roots == S \cap NODE closed == {T \in SUBSET (NODE \ roots) : Closed(h, roots \cup T)}
<1>1. Found(h, S) = {n \in NODE : n \in roots \/ \A T \in closed : n \in T} BY DEF Found
<1>2. ASSUME NEW n \in Found(h, S), NEW m \in Parts(h, n), m \in NODE, m \notin roots, NEW T \in closed PROVE m \in T
  <2>1. n \in roots \cup T BY <1>1
  <2>2. Closed(h, roots \cup T) OBVIOUS
  <2> QED BY <1>2, <2>1, <2>2 DEF Closed
<1> QED BY <1>1, <1>2

LEMMA FoundLeast ==
  ASSUME NEW h, NEW S, NEW T, T \subseteq NODE, \A n \in S : n \in NODE => n \in T,
         \A n \in T : \A m \in Parts(h, n) : m \in NODE => m \in T
  PROVE  Found(h, S) \subseteq T
<1> DEFINE roots == S \cap NODE closed == {U \in SUBSET (NODE \ roots) : Closed(h, roots \cup U)}
<1>1. Found(h, S) = {n \in NODE : n \in roots \/ \A U \in closed : n \in U} BY DEF Found
<1>2. T \ roots \in SUBSET (NODE \ roots) /\ roots \cup (T \ roots) = T OBVIOUS
<1>3. Closed(h, T) BY DEF Closed
<1>4. T \ roots \in closed BY <1>2, <1>3
<1> QED BY <1>1, <1>4

LEMMA FoundIn ==
  ASSUME NEW h, NEW S, NEW U, \A n \in S : n \in NODE => n \in Found(h, U)
  PROVE  Found(h, S) \subseteq Found(h, U)
BY FoundHas, FoundLeast

\* What is found is found the same way in a heap that agrees about it.
LEMMA FoundFrame ==
  ASSUME NEW h, NEW g, NEW S, \A n \in Found(h, S) : Parts(g, n) = Parts(h, n)
  PROVE  Found(g, S) = Found(h, S)
<1>1. Found(g, S) \subseteq Found(h, S) BY FoundHas, FoundLeast
<1> DEFINE T == Found(h, S) \cap Found(g, S)
<1>2. T \subseteq NODE /\ \A n \in S : n \in NODE => n \in T BY FoundHas
<1>3. ASSUME NEW n \in T, NEW m \in Parts(h, n), m \in NODE PROVE m \in T BY <1>3, FoundHas
<1>4. Found(h, S) \subseteq T
  <2> HIDE DEF T
  <2> QED BY <1>2, <1>3, FoundLeast
<1> QED BY <1>1, <1>4

\* L is a set of nodes that has all that its members point to.
Shut(h, L) == L \subseteq NODE /\ \A n \in L : \A m \in Parts(h, n) : m \in NODE => m \in L
\* No node of L leads to itself.
Acyclic(h, L) == \A n \in L : n \notin Found(h, Parts(h, n))

LEMMA FoundShut == ASSUME NEW h, NEW S PROVE Shut(h, Found(h, S))
BY FoundHas DEF Shut

LEMMA PartsFound ==
  ASSUME NEW h, NEW L, Shut(h, L), NEW n \in L PROVE Found(h, Parts(h, n)) \subseteq L
BY FoundLeast DEF Shut

LEMMA AcyclicFrame ==
  ASSUME NEW h, NEW g, NEW L, Shut(h, L), Acyclic(h, L), \A n \in L : Parts(g, n) = Parts(h, n)
  PROVE  Shut(g, L) /\ Acyclic(g, L)
<1>1. ASSUME NEW n \in L PROVE n \notin Found(g, Parts(g, n))
  <2>1. Found(h, Parts(h, n)) \subseteq L BY PartsFound
  <2>2. Found(g, Parts(h, n)) = Found(h, Parts(h, n)) BY <2>1, FoundFrame
  <2> QED BY <2>2 DEF Acyclic
<1> QED BY <1>1 DEF Shut, Acyclic

\* One node is made to point to V too.  No way round comes of it when V does
\* not lead back to the node.
LEMMA AcyclicWrite ==
  ASSUME NEW h, NEW g, NEW L, NEW a \in L, NEW V,
         Shut(h, L), Acyclic(h, L), \A v \in V : v \in NODE => v \in L,
         a \notin Found(h, V),
         Parts(g, a) \subseteq Parts(h, a) \cup V,
         \A n \in NODE \ {a} : Parts(g, n) = Parts(h, n)
  PROVE  Shut(g, L) /\ Acyclic(g, L)
<1>1. Shut(g, L) BY DEF Shut
<1> DEFINE F(n) == Found(h, Parts(h, n)) G == Found(h, V)
<1>2. \A n \in L : F(n) \subseteq NODE /\ n \notin F(n) /\ (\A m \in Parts(h, n) : m \in NODE => m \in F(n))
                    /\ (\A k \in F(n) : \A m \in Parts(h, k) : m \in NODE => m \in F(n))
  BY FoundHas DEF Acyclic
<1>3. G \subseteq NODE /\ a \notin G /\ (\A m \in V : m \in NODE => m \in G)
      /\ (\A k \in G : \A m \in Parts(h, k) : m \in NODE => m \in G)
  BY FoundHas
<1>4. ASSUME NEW n \in L PROVE n \notin Found(g, Parts(g, n))
  <2>0. n \in NODE /\ a \in NODE BY DEF Shut
  <2>1. CASE n = a
    <3> DEFINE T == F(a) \cup G
    <3>1. T \subseteq NODE /\ a \notin T BY <1>2, <1>3
    <3>2. \A m \in Parts(g, a) : m \in NODE => m \in T BY <1>2, <1>3
    <3>3. \A k \in T : \A m \in Parts(g, k) : m \in NODE => m \in T BY <1>2, <1>3, <3>1
    <3> HIDE DEF T
    <3>4. Found(g, Parts(g, a)) \subseteq T BY <3>1, <3>2, <3>3, FoundLeast
    <3> QED BY <2>1, <3>1, <3>4
  <2>2. CASE n # a /\ a \notin F(n)
    <3>1. \A k \in F(n) : Parts(g, k) = Parts(h, k) BY <1>2, <2>2
    <3>2. Found(g, Parts(h, n)) = F(n) BY <3>1, FoundFrame
    <3> QED BY <1>2, <2>0, <2>2, <3>2
  <2>3. CASE n # a /\ a \in F(n)
    <3> DEFINE T == F(n) \cup G
    <3>1. T \subseteq NODE BY <1>2, <1>3
    <3>2. \A m \in Parts(g, n) : m \in NODE => m \in T BY <1>2, <1>3, <2>0, <2>3
    <3>3. \A k \in T : \A m \in Parts(g, k) : m \in NODE => m \in T
      <4>1. ASSUME NEW m \in Parts(h, a), m \in NODE PROVE m \in F(n) BY <1>2, <2>3, <4>1
      <4> QED BY <1>2, <1>3, <3>1, <4>1
    <3>4. n \notin G
      <4>1. n \in G => \A m \in Parts(h, n) : m \in NODE => m \in G BY <1>3
      <4>2. n \in G => F(n) \subseteq G BY <1>3, <4>1, FoundLeast
      <4> QED BY <1>3, <2>3, <4>2
    <3>5. n \notin T BY <1>2, <3>4
    <3> HIDE DEF T
    <3>6. Found(g, Parts(g, n)) \subseteq T BY <3>1, <3>2, <3>3, FoundLeast
    <3> QED BY <3>5, <3>6
  <2> QED BY <2>1, <2>2, <2>3
<1> QED BY <1>1, <1>4 DEF Acyclic

\* Fresh nodes D: none of them leads back to itself.
LEMMA AcyclicFresh ==
  ASSUME NEW h, NEW g, NEW L, NEW D, Shut(h, L), Acyclic(h, L), \A n \in L : Parts(g, n) = Parts(h, n),
         D \subseteq NODE, \A n \in D : \A m \in Parts(g, n) : m \in NODE => m \in L \cup D,
         \A n \in D : \E T : Shut(g, T) /\ n \notin T /\ \A m \in Parts(g, n) : m \in NODE => m \in T
  PROVE  Shut(g, L \cup D) /\ Acyclic(g, L \cup D)
<1>1. Shut(g, L) /\ Acyclic(g, L) BY AcyclicFrame
<1>2. ASSUME NEW n \in D PROVE n \notin Found(g, Parts(g, n))
  <2>1. PICK T : Shut(g, T) /\ n \notin T /\ \A m \in Parts(g, n) : m \in NODE => m \in T OBVIOUS
  <2>2. Found(g, Parts(g, n)) \subseteq T BY <2>1, FoundLeast DEF Shut
  <2> QED BY <2>1, <2>2
<1> QED BY <1>1, <1>2 DEF Shut, Acyclic
----
(* Cells. *)

LEMMA CellKinds ==
  ASSUME NEW c \in Cell
  PROVE  \/ c = Free /\ c.t = "free"
         \/ c.t = "cons" /\ c # Free /\ c.car \in Value /\ c.cdr \in NODE \cup {Nil} /\ c = Pair(c.car, c.cdr)
         \/ c.t = "array" /\ c # Free /\ c.items \in Seq(Value) /\ c = Array(c.items)
BY DEF Cell, Free, Pair, Array

LEMMA PairIs ==
  ASSUME NEW a, NEW d
  PROVE  /\ Pair(a, d).t = "cons" /\ Pair(a, d).car = a /\ Pair(a, d).cdr = d /\ Pair(a, d) # Free
         /\ a \in Value /\ d \in NODE \cup {Nil} => Pair(a, d) \in Cell
BY DEF Cell, Free, Pair

LEMMA ArrayIs ==
  ASSUME NEW s
  PROVE  /\ Array(s).t = "array" /\ Array(s).items = s /\ Array(s) # Free
         /\ s \in Seq(Value) => Array(s) \in Cell
BY DEF Cell, Free, Array

LEMMA FreeIs == Free.t = "free" /\ Free \in Cell
BY DEF Cell, Free

Heaps == [NODE -> Cell]

LEMMA PartsOf ==
  ASSUME NEW h, NEW v
  PROVE  /\ v \notin NODE => Parts(h, v) = {}
         /\ v \in NODE /\ h[v].t = "free" => Parts(h, v) = {}
         /\ v \in NODE /\ h[v].t = "cons" => Parts(h, v) = {h[v].car, h[v].cdr}
         /\ v \in NODE /\ h[v].t = "array" => Parts(h, v) = {h[v].items[i] : i \in DOMAIN h[v].items}
BY DEF Parts, IsCons, IsArray, Car, Cdr, ToSet

LEMMA PartsValue == ASSUME NEW h \in Heaps, NEW v PROVE Parts(h, v) \subseteq Value
<1>1. CASE v \notin NODE BY <1>1, PartsOf
<1>2. CASE v \in NODE
  <2>1. h[v] \in Cell BY <1>2 DEF Heaps
  <2>2. CASE h[v].t = "free" BY <1>2, <2>2, PartsOf
  <2>3. CASE h[v].t = "cons"
    <3>1. h[v].car \in Value /\ h[v].cdr \in Value BY <2>1, <2>3, CellKinds, FreeIs DEF Value
    <3> QED BY <1>2, <2>3, <3>1, PartsOf
  <2>4. CASE h[v].t = "array"
    <3>1. h[v].items \in Seq(Value) BY <2>1, <2>4, CellKinds, FreeIs
    <3>2. \A i \in DOMAIN h[v].items : h[v].items[i] \in Value BY <3>1
    <3> QED BY <1>2, <2>4, <3>2, PartsOf
  <2> QED BY <2>1, <2>2, <2>3, <2>4, CellKinds
<1> QED BY <1>1, <1>2
----
(* Spines: the conses that a loop over cdrs meets. *)

N == Cardinality(NODE)

LEMMA NNat == N \in Nat
BY FS_CardinalityType DEF N

IsSpine(h, v, c) ==
    /\ c \in Seq(NODE) /\ \A i \in 1 .. Len(c) : h[c[i]].t = "cons"
    /\ Len(c) > 0 => c[1] = v
    /\ \A i \in 1 .. Len(c) : i < Len(c) => c[i + 1] = h[c[i]].cdr
After(h, v, c) == IF Len(c) = 0 THEN v ELSE h[c[Len(c)]].cdr
FullSpine(h, v, c) == IsSpine(h, v, c) /\ ~IsCons(h, After(h, v, c))
Longer(h, v, c) == IF IsCons(h, After(h, v, c)) THEN Append(c, After(h, v, c)) ELSE c

LEMMA AfterIs ==
  ASSUME NEW h, NEW v, NEW c \in Seq(NODE)
  PROVE  (IF c = <<>> THEN v ELSE Cdr(h, Last(c))) = After(h, v, c)
<1>1. c = <<>> <=> Len(c) = 0 BY EmptySeq
<1> QED BY <1>1 DEF Cdr, Last, After

LEMMA LongerType ==
  ASSUME NEW h, NEW v, NEW c \in Seq(NODE) PROVE Longer(h, v, c) \in Seq(NODE)
BY DEF Longer, IsCons

LEMMA ConsesFollows ==
  ASSUME NEW h, NEW v
  PROVE  \E f \in [0 .. N + 1 -> Seq(NODE)] :
            f[0] = <<>> /\ (\A k \in 1 .. N + 1 : f[k] = Longer(h, v, f[k - 1])) /\ Conses(h, v) = f[N + 1]
<1> DEFINE n == N + 1 S == Seq(NODE) Body(c) == LET next == IF c = <<>> THEN v ELSE Cdr(h, Last(c))
                      IN IF IsCons(h, next) THEN Append(c, next) ELSE c
           Recursion(f) == f = [k \in 0 .. n |-> IF k = 0 THEN <<>> ELSE Body(f[k - 1])]
           st == [i \in 1 .. n |-> [c \in S |-> Longer(h, v, c)]]
           g == CHOOSE f : Recursion(f)
<1>0. n \in Nat /\ <<>> \in S BY NNat
<1>1. PICK f \in [0 .. n -> S] : Follows(f, n, <<>>, st)
  <2>1. st \in [1 .. n -> [S -> S]] BY LongerType
  <2> HIDE DEF st, S, n
  <2> QED BY <1>0, <2>1, RecursionExists
<1>2. \A c \in S : Body(c) = Longer(h, v, c) BY AfterIs DEF Longer
<1> HIDE DEF Body
<1>3. \A i \in 0 .. n : f[i] = IF i = 0 THEN <<>> ELSE Body(f[i - 1])
  <2> HIDE DEF S, n
  <2>1. \A i \in 1 .. n : i - 1 \in 0 .. n /\ f[i - 1] \in S BY <1>0
  <2>2. \A i \in 1 .. n : st[i][f[i - 1]] = Body(f[i - 1]) BY <1>2, <2>1
  <2> HIDE DEF st
  <2>3. \A i \in 0 .. n : i = 0 \/ i \in 1 .. n BY <1>0
  <2> QED BY <1>1, <2>2, <2>3 DEF Follows
<1>4. \E e : Recursion(e)
  <2>1. f = [i \in 0 .. n |-> f[i]] OBVIOUS
  <2>2. f = [i \in 0 .. n |-> IF i = 0 THEN <<>> ELSE Body(f[i - 1])] BY <1>3, <2>1, Zenon
  <2> QED BY <2>2, Zenon
<1>5. Recursion(g) BY <1>4, Zenon
<1>6. Conses(h, v) = g[n] BY Zenon DEF Conses, Body, N
<1> HIDE DEF g
<1>7. g[0] = <<>> /\ \A i \in 1 .. n : g[i] = Body(g[i - 1])
  <2>1. \A i \in 0 .. n : g[i] = IF i = 0 THEN <<>> ELSE Body(g[i - 1]) BY <1>5, Zenon
  <2> HIDE DEF n
  <2> QED BY <1>0, <2>1
<1>8. \A i \in 0 .. n : g[i] \in S
  <2> DEFINE T == {j \in 0 .. n : g[j] \in S}
  <2> HIDE DEF S, n
  <2>1. 0 \in T BY <1>0, <1>7
  <2>2. ASSUME NEW i \in 1 .. n, i - 1 \in T PROVE i \in T
    <3>1. g[i - 1] \in S BY <2>2
    <3>2. g[i] = Longer(h, v, g[i - 1]) BY <1>2, <1>7, <3>1
    <3>3. g[i] \in S BY <3>1, <3>2, LongerType DEF S
    <3> QED BY <1>0, <3>3
  <2>3. \A i \in 0 .. n : i \in T
    <3> HIDE DEF T
    <3> QED BY <1>0, <2>1, <2>2, Upward
  <2> QED BY <2>3
<1>9. g \in [0 .. n -> S]
  <2>1. g = [i \in 0 .. n |-> g[i]] BY <1>5, Zenon
  <2> HIDE DEF S, n
  <2> QED BY <1>8, <2>1
<1>10. \A i \in 1 .. n : g[i] = Longer(h, v, g[i - 1])
  <2> HIDE DEF S, n
  <2>1. \A i \in 1 .. n : i - 1 \in 0 .. n BY <1>0
  <2> QED BY <1>2, <1>7, <1>8, <2>1
<1> QED BY <1>6, <1>7, <1>9, <1>10

LEMMA EmptySpine == ASSUME NEW h, NEW v PROVE IsSpine(h, v, <<>>)
BY DEF IsSpine

LEMMA SpineLonger ==
  ASSUME NEW h, NEW v, NEW c, IsSpine(h, v, c)
  PROVE  /\ IsSpine(h, v, Longer(h, v, c))
         /\ Len(Longer(h, v, c)) = IF IsCons(h, After(h, v, c)) THEN Len(c) + 1 ELSE Len(c)
         /\ ~IsCons(h, After(h, v, c)) => Longer(h, v, c) = c
<1>1. CASE ~IsCons(h, After(h, v, c)) BY <1>1 DEF Longer
<1>2. CASE IsCons(h, After(h, v, c))
  <2> DEFINE x == After(h, v, c) d == Append(c, x) l == Len(c)
  <2>1. c \in Seq(NODE) /\ x \in NODE /\ h[x].t = "cons" /\ l \in Nat BY <1>2 DEF IsSpine, IsCons
  <2>2. d \in Seq(NODE) /\ Len(d) = l + 1 /\ d[l + 1] = x /\ \A i \in 1 .. l : d[i] = c[i]
    <3> HIDE DEF x
    <3> QED BY <2>1
  <2>3. /\ \A i \in 1 .. l : h[c[i]].t = "cons"
        /\ l > 0 => c[1] = v
        /\ \A i \in 1 .. l : i < l => c[i + 1] = h[c[i]].cdr
        /\ l = 0 => x = v
        /\ l > 0 => x = h[c[l]].cdr
    BY DEF IsSpine, After
  <2>4. Longer(h, v, c) = d BY <1>2 DEF Longer
  <2> HIDE DEF x, d, l
  <2>5. \A i \in 1 .. l + 1 : h[d[i]].t = "cons"
    <3>1. \A i \in 1 .. l + 1 : i \in 1 .. l \/ i = l + 1 BY <2>1
    <3> QED BY <2>1, <2>2, <2>3, <3>1
  <2>6. d[1] = v BY <2>1, <2>2, <2>3
  <2>7. ASSUME NEW i \in 1 .. l + 1, i < l + 1 PROVE d[i + 1] = h[d[i]].cdr
    <3>1. i \in 1 .. l BY <2>1, <2>7
    <3>2. CASE i < l
      <4>1. i + 1 \in 1 .. l BY <2>1, <3>1, <3>2
      <4> QED BY <2>2, <2>3, <3>1, <3>2, <4>1
    <3>3. CASE i = l BY <2>1, <2>2, <2>3, <3>1, <3>3
    <3> QED BY <2>1, <3>1, <3>2, <3>3
  <2>8. IsSpine(h, v, d) BY <2>2, <2>5, <2>6, <2>7 DEF IsSpine
  <2> QED BY <1>2, <2>2, <2>4, <2>8 DEF l, x
<1> QED BY <1>1, <1>2

LEMMA ConsesSpine ==
  ASSUME NEW h, NEW v
  PROVE  /\ IsSpine(h, v, Conses(h, v)) /\ Conses(h, v) \in Seq(NODE)
         /\ Len(Conses(h, v)) \in Nat /\ Len(Conses(h, v)) <= N + 1
         /\ Len(Conses(h, v)) <= N => FullSpine(h, v, Conses(h, v))
<1>1. PICK f \in [0 .. N + 1 -> Seq(NODE)] :
         f[0] = <<>> /\ (\A k \in 1 .. N + 1 : f[k] = Longer(h, v, f[k - 1])) /\ Conses(h, v) = f[N + 1]
  BY ConsesFollows
<1> DEFINE P(c, k) == IsSpine(h, v, c) /\ Len(c) <= k /\ (Len(c) < k => ~IsCons(h, After(h, v, c)))
           n == N + 1 T == {k \in 0 .. n : P(f[k], k)}
<1>0. n \in Nat BY NNat
<1>2. 0 \in T BY <1>0, <1>1, EmptySpine
<1>3. ASSUME NEW k \in 1 .. n, k - 1 \in T PROVE k \in T
  <2>1. P(f[k - 1], k - 1) /\ f[k] = Longer(h, v, f[k - 1]) BY <1>1, <1>3
  <2> DEFINE c == f[k - 1]
  <2>2. IsSpine(h, v, c) /\ Len(c) \in Nat BY <2>1 DEF IsSpine
  <2>3. /\ IsSpine(h, v, f[k])
        /\ Len(f[k]) = IF IsCons(h, After(h, v, c)) THEN Len(c) + 1 ELSE Len(c)
        /\ ~IsCons(h, After(h, v, c)) => f[k] = c
    BY <2>1, <2>2, SpineLonger
  <2> HIDE DEF c
  <2>4. P(f[k], k) BY <1>0, <2>1, <2>2, <2>3 DEF c
  <2> QED BY <1>0, <2>4
<1>4. \A k \in 0 .. n : k \in T
  <2> HIDE DEF T, n
  <2> QED BY <1>0, <1>2, <1>3, Upward
<1>5. P(f[n], n)
  <2> HIDE DEF P, n
  <2> QED BY <1>0, <1>4
<1>6. Conses(h, v) = f[n] BY <1>1
<1>7. P(Conses(h, v), n) BY <1>5, <1>6
<1>8. Conses(h, v) \in Seq(NODE) /\ Len(Conses(h, v)) \in Nat BY <1>7 DEF IsSpine
<1> QED BY <1>7, <1>8, NNat DEF FullSpine

\* Two spines from one value are the same as far as both go.
LEMMA SpinesAgree ==
  ASSUME NEW h, NEW v, NEW c, NEW d, IsSpine(h, v, c), IsSpine(h, v, d)
  PROVE  \A i \in 1 .. Len(c) : i <= Len(d) => c[i] = d[i]
<1> DEFINE l == Len(c) T == {i \in 0 .. l : i > 0 /\ i <= Len(d) => c[i] = d[i]}
<1>1. l \in Nat /\ Len(d) \in Nat BY DEF IsSpine
<1>2. 0 \in T BY <1>1
<1>3. ASSUME NEW i \in 1 .. l, i - 1 \in T PROVE i \in T
  <2>1. CASE i > Len(d) BY <1>1, <2>1
  <2>2. CASE i = 1 /\ i <= Len(d)
    <3>1. c[1] = v /\ d[1] = v BY <1>1, <2>2 DEF IsSpine
    <3> QED BY <1>1, <2>2, <3>1
  <2>3. CASE i > 1 /\ i <= Len(d)
    <3>1. c[i - 1] = d[i - 1] BY <1>1, <1>3, <2>3
    <3>2. i - 1 \in 1 .. l /\ i - 1 < l /\ (i - 1) + 1 = i /\ i - 1 \in 1 .. Len(d) /\ i - 1 < Len(d)
      BY <1>1, <2>3
    <3>3. c[i] = h[c[i - 1]].cdr /\ d[i] = h[d[i - 1]].cdr BY <3>2 DEF IsSpine
    <3>4. c[i] = d[i] BY <3>1, <3>3
    <3> QED BY <1>1, <3>4
  <2> QED BY <1>1, <2>1, <2>2, <2>3
<1>4. \A i \in 0 .. l : i \in T
  <2> HIDE DEF T, l
  <2> QED BY <1>1, <1>2, <1>3, Upward
<1> QED BY <1>1, <1>4

LEMMA ConsesIs ==
  ASSUME NEW h, NEW v, NEW c, FullSpine(h, v, c), Len(c) <= N + 1 PROVE Conses(h, v) = c
<1> DEFINE d == Conses(h, v)
<1>1. IsSpine(h, v, d) /\ d \in Seq(NODE) /\ Len(d) \in Nat /\ Len(d) <= N + 1 /\ (Len(d) <= N => FullSpine(h, v, d))
  BY ConsesSpine
<1>2. IsSpine(h, v, c) /\ c \in Seq(NODE) /\ Len(c) \in Nat /\ ~IsCons(h, After(h, v, c))
  BY DEF FullSpine, IsSpine
<1> HIDE DEF d
<1>3. (\A i \in 1 .. Len(c) : i <= Len(d) => c[i] = d[i]) BY <1>1, <1>2, SpinesAgree
<1>4. ASSUME NEW e, NEW b, IsSpine(h, v, e), IsSpine(h, v, b), \A i \in 1 .. Len(e) : i <= Len(b) => e[i] = b[i],
             Len(e) < Len(b)
      PROVE  IsCons(h, After(h, v, e))
  <2>1. e \in Seq(NODE) /\ b \in Seq(NODE) /\ Len(e) \in Nat /\ Len(b) \in Nat BY <1>4 DEF IsSpine
  <2>2. Len(e) + 1 \in 1 .. Len(b) BY <1>4, <2>1
  <2>3. b[Len(e) + 1] \in NODE /\ h[b[Len(e) + 1]].t = "cons" BY <1>4, <2>1, <2>2 DEF IsSpine
  <2>4. After(h, v, e) = b[Len(e) + 1]
    <3>1. CASE Len(e) = 0 BY <1>4, <2>1, <3>1 DEF IsSpine, After
    <3>2. CASE Len(e) > 0
      <4>1. Len(e) \in 1 .. Len(b) /\ Len(e) < Len(b) /\ Len(e) \in 1 .. Len(e) BY <1>4, <2>1, <3>2
      <4>2. b[Len(e) + 1] = h[b[Len(e)]].cdr /\ e[Len(e)] = b[Len(e)]
        BY <1>4, <2>1, <4>1 DEF IsSpine
      <4> QED BY <2>1, <3>2, <4>2 DEF After
    <3> QED BY <2>1, <3>1, <3>2
  <2> QED BY <2>3, <2>4 DEF IsCons
<1>5. ~(Len(c) < Len(d)) BY <1>1, <1>2, <1>3, <1>4
<1>6. ~(Len(d) < Len(c))
  <2>1. ASSUME Len(d) < Len(c) PROVE FALSE
    <3>1. Len(d) <= N BY <1>1, <1>2, <2>1, NNat
    <3>2. \A i \in 1 .. Len(d) : i <= Len(c) => d[i] = c[i] BY <1>1, <1>2, SpinesAgree
    <3>3. IsCons(h, After(h, v, d)) BY <1>1, <1>2, <1>4, <2>1, <3>2
    <3> QED BY <1>1, <3>1, <3>3 DEF FullSpine
  <2> QED BY <2>1
<1>7. Len(c) = Len(d) BY <1>1, <1>2, <1>5, <1>6
<1>8. \A i \in 1 .. Len(c) : c[i] = d[i] BY <1>1, <1>2, <1>3, <1>7
<1>9. c = d BY <1>1, <1>2, <1>7, <1>8, SeqEqual
<1> QED BY <1>9 DEF d

Distinct(c) == \A i, j \in 1 .. Len(c) : c[i] = c[j] => i = j

LEMMA DistinctFits ==
  ASSUME NEW c \in Seq(NODE), Distinct(c) PROVE Len(c) <= N
<1>1. c \in Injection(1 .. Len(c), NODE) BY DEF Distinct, Injection, IsInjective
<1>2. Len(c) \in Nat OBVIOUS
<1>3. Cardinality(1 .. Len(c)) <= N BY <1>1, FS_Injection DEF N
<1>4. Cardinality(1 .. Len(c)) = Len(c)
  <2> DEFINE l == Len(c)
  <2> HIDE DEF l
  <2>1. Cardinality(1 .. l) = IF 1 > l THEN 0 ELSE l - 1 + 1 BY <1>2, FS_Interval DEF l
  <2>2. l \in Nat BY <1>2 DEF l
  <2>3. Cardinality(1 .. l) = l BY <2>1, <2>2
  <2> QED BY <2>3 DEF l
<1> QED BY <1>3, <1>4

\* A spine that ends meets no cons twice.
LEMMA FullDistinct ==
  ASSUME NEW h, NEW v, NEW c, FullSpine(h, v, c)
  PROVE  Distinct(c) /\ c \in Seq(NODE) /\ Len(c) \in Nat /\ Len(c) <= N /\ Conses(h, v) = c
<1> DEFINE l == Len(c)
<1>1. c \in Seq(NODE) /\ l \in Nat /\ (\A i \in 1 .. l : h[c[i]].t = "cons" /\ c[i] \in NODE)
      /\ (\A i \in 1 .. l : i < l => c[i + 1] = h[c[i]].cdr)
  BY DEF FullSpine, IsSpine
<1>2. l > 0 => ~IsCons(h, h[c[l]].cdr) BY DEF FullSpine, After
<1> HIDE DEF l
<1>3. ASSUME NEW i \in 1 .. l, NEW j \in 1 .. l, i < j, c[i] = c[j] PROVE FALSE
  <2> DEFINE n == l - j T == {d \in 0 .. n : c[i + d] = c[j + d]}
  <2>0. n \in Nat BY <1>1
  <2>1. 0 \in T BY <1>1, <1>3, <2>0
  <2>2. ASSUME NEW d \in 1 .. n, d - 1 \in T PROVE d \in T
    <3>1. c[i + (d - 1)] = c[j + (d - 1)] BY <2>2
    <3>2. i + (d - 1) \in 1 .. l /\ i + (d - 1) < l /\ j + (d - 1) \in 1 .. l /\ j + (d - 1) < l
          /\ (i + (d - 1)) + 1 = i + d /\ (j + (d - 1)) + 1 = j + d
      BY <1>1, <1>3
    <3>3. c[i + d] = h[c[i + (d - 1)]].cdr BY <1>1, <3>2
    <3>4. c[j + d] = h[c[j + (d - 1)]].cdr BY <1>1, <3>2
    <3>5. c[i + d] = c[j + d] BY <3>1, <3>3, <3>4
    <3> QED BY <2>0, <3>5
  <2>3. \A d \in 0 .. n : d \in T
    <3> HIDE DEF T, n
    <3> QED BY <2>0, <2>1, <2>2, Upward
  <2>4. c[i + n] = c[j + n] BY <2>0, <2>3
  <2>5. j + n = l /\ i + n \in 1 .. l /\ i + n < l /\ (i + n) + 1 \in 1 .. l /\ l > 0 BY <1>1, <1>3
  <2>6. c[(i + n) + 1] = h[c[i + n]].cdr BY <1>1, <2>5
  <2>7. IsCons(h, c[(i + n) + 1]) BY <1>1, <2>5 DEF IsCons
  <2> HIDE DEF n
  <2>8. c[(i + n) + 1] = h[c[l]].cdr BY <2>4, <2>5, <2>6
  <2> QED BY <1>2, <2>5, <2>7, <2>8
<1>4. Distinct(c)
  <2> SUFFICES ASSUME NEW i \in 1 .. Len(c), NEW j \in 1 .. Len(c), c[i] = c[j], i # j PROVE FALSE
    BY DEF Distinct
  <2>1. i < j \/ j < i BY <1>1 DEF l
  <2> QED BY <1>3, <2>1 DEF l
<1>5. Len(c) <= N BY <1>1, <1>4, DistinctFits
<1>6. Conses(h, v) = c BY <1>1, <1>5, ConsesIs, NNat DEF l
<1> QED BY <1>1, <1>4, <1>5, <1>6 DEF l
----
(* Fresh nodes. *)

FreeNodes(h) == {n \in NODE : h[n] = Free}

LEMMA FreeCount == ASSUME NEW h PROVE IsFiniteSet(FreeNodes(h)) /\ Cardinality(FreeNodes(h)) \in Nat
<1>1. FreeNodes(h) \in SUBSET NODE BY DEF FreeNodes
<1>2. IsFiniteSet(FreeNodes(h)) BY <1>1, FS_Subset
<1> QED BY <1>2, FS_CardinalityType

LEMMA NewIsFree ==
  ASSUME NEW h, Cardinality(FreeNodes(h)) > 0 PROVE New(h) \in NODE /\ h[New(h)] = Free
<1>1. FreeNodes(h) # {} BY FS_EmptySet
<1>2. \E n \in NODE : h[n] = Free BY <1>1 DEF FreeNodes
<1> QED BY <1>2 DEF New

LEMMA MakeIs ==
  ASSUME NEW h \in Heaps, NEW cell \in Cell, cell # Free, Cardinality(FreeNodes(h)) > 0
  PROVE  LET n == New(h)
             r == Make(h, cell)
         IN /\ n \in NODE /\ h[n] = Free /\ r.v = n /\ r.h \in Heaps /\ r.h[n] = cell
            /\ \A m \in NODE : m # n => r.h[m] = h[m]
            /\ Cardinality(FreeNodes(r.h)) = Cardinality(FreeNodes(h)) - 1
<1> DEFINE n == New(h) g == [h EXCEPT ![n] = cell]
<1>1. n \in NODE /\ h[n] = Free BY NewIsFree
<1>2. Make(h, cell).h = g /\ Make(h, cell).v = n BY DEF Make, Result
<1> HIDE DEF n
<1>3. g \in Heaps /\ g[n] = cell /\ \A m \in NODE : m # n => g[m] = h[m] BY <1>1 DEF Heaps
<1> HIDE DEF g
<1>4. FreeNodes(g) = FreeNodes(h) \ {n} /\ n \in FreeNodes(h) BY <1>1, <1>3 DEF FreeNodes
<1>5. Cardinality(FreeNodes(g)) = Cardinality(FreeNodes(h)) - 1 BY <1>4, FreeCount, FS_RemoveElement
<1> QED BY <1>1, <1>2, <1>3, <1>5 DEF n

\* r is what has become of h when the last k elements of s are copied: e are
\* the fresh conses for them.
CopyOf(h, s, tail, r, k) ==
    \E e \in [Len(s) - k + 1 .. Len(s) -> NODE] :
       /\ r.h \in Heaps
       /\ \A i, j \in Len(s) - k + 1 .. Len(s) : e[i] = e[j] => i = j
       /\ \A i \in Len(s) - k + 1 .. Len(s) :
             h[e[i]] = Free /\ r.h[e[i]] = Pair(s[i], IF i = Len(s) THEN tail ELSE e[i + 1])
       /\ \A n \in NODE : (\A i \in Len(s) - k + 1 .. Len(s) : e[i] # n) => r.h[n] = h[n]
       /\ r.v = IF k = 0 THEN tail ELSE e[Len(s) - k + 1]
       /\ Cardinality(FreeNodes(r.h)) = Cardinality(FreeNodes(h)) - k

LEMMA CopyStart ==
  ASSUME NEW h \in Heaps, NEW s \in Seq(Value), NEW tail
  PROVE  CopyOf(h, s, tail, Result(h, tail), 0)
<1> DEFINE e == [i \in Len(s) - 0 + 1 .. Len(s) |-> h] l == Len(s)
<1>1. l \in Nat /\ \A i : i \notin l - 0 + 1 .. l BY LenProperties
<1>2. e \in [Len(s) - 0 + 1 .. Len(s) -> NODE] BY <1>1
<1>3. Result(h, tail).h = h /\ Result(h, tail).v = tail BY DEF Result
<1>4. Cardinality(FreeNodes(h)) = Cardinality(FreeNodes(h)) - 0 BY FreeCount
<1> HIDE DEF e
<1> QED BY <1>1, <1>2, <1>3, <1>4 DEF CopyOf

LEMMA CopyStep ==
  ASSUME NEW h \in Heaps, NEW s \in Seq(Value), NEW tail \in NODE \cup {Nil}, NEW r, NEW k \in 1 .. Len(s),
         CopyOf(h, s, tail, r, k - 1), Cardinality(FreeNodes(h)) >= Len(s)
  PROVE  LET t == Make(r.h, Pair(s[Len(s) - k + 1], r.v))
         IN CopyOf(h, s, tail, t, k) /\ t \in [h : Heaps, v : NODE \cup {Nil}]
<1> DEFINE l == Len(s) a == l - k + 1 t == Make(r.h, Pair(s[a], r.v)) n == New(r.h)
<1>1. l \in Nat /\ k \in Nat /\ a \in 1 .. l /\ s[a] \in Value /\ l - (k - 1) + 1 = a + 1 /\ k \in 1 .. l
  BY LenProperties, ElementOfSeq
<1> DEFINE b == Len(s) - (k - 1) + 1
<1>0. PICK e \in [b .. Len(s) -> NODE] :
       /\ r.h \in Heaps
       /\ \A i, j \in b .. Len(s) : e[i] = e[j] => i = j
       /\ \A i \in b .. Len(s) : h[e[i]] = Free /\ r.h[e[i]] = Pair(s[i], IF i = Len(s) THEN tail ELSE e[i + 1])
       /\ \A m \in NODE : (\A i \in b .. Len(s) : e[i] # m) => r.h[m] = h[m]
       /\ r.v = IF k - 1 = 0 THEN tail ELSE e[b]
       /\ Cardinality(FreeNodes(r.h)) = Cardinality(FreeNodes(h)) - (k - 1)
  BY DEF CopyOf
<1>00. b = a + 1 BY <1>1
<1> HIDE DEF l, a, b
<1>2. /\ e \in [a + 1 .. l -> NODE] /\ r.h \in Heaps
      /\ \A i, j \in a + 1 .. l : e[i] = e[j] => i = j
      /\ \A i \in a + 1 .. l : h[e[i]] = Free /\ r.h[e[i]] = Pair(s[i], IF i = l THEN tail ELSE e[i + 1])
      /\ \A m \in NODE : (\A i \in a + 1 .. l : e[i] # m) => r.h[m] = h[m]
      /\ r.v = IF k - 1 = 0 THEN tail ELSE e[a + 1]
      /\ Cardinality(FreeNodes(r.h)) = Cardinality(FreeNodes(h)) - (k - 1)
  BY <1>0, <1>00, Zenon DEF l
<1>3. Cardinality(FreeNodes(h)) \in Nat /\ Cardinality(FreeNodes(r.h)) \in Nat BY FreeCount
<1>4. Cardinality(FreeNodes(r.h)) > 0
  <2>1. Cardinality(FreeNodes(h)) >= l BY DEF l
  <2> DEFINE A == Cardinality(FreeNodes(h)) B == Cardinality(FreeNodes(r.h))
  <2>2. A \in Nat /\ B = A - (k - 1) /\ A >= l BY <1>2, <1>3, <2>1
  <2> HIDE DEF A, B
  <2>3. B > 0 BY <1>1, <2>2
  <2> QED BY <2>3 DEF B
<1>5. r.v \in NODE \cup {Nil}
  <2>1. CASE k = 1 BY <1>1, <1>2, <2>1
  <2>2. CASE k # 1
    <3>1. a + 1 \in a + 1 .. l BY <1>1, <2>2 DEF a
    <3> QED BY <1>1, <1>2, <2>2, <3>1
  <2> QED BY <2>1, <2>2
<1> DEFINE cell == Pair(s[a], r.v)
<1>6. cell \in Cell /\ cell # Free BY <1>1, <1>5, PairIs
<1>7. /\ n \in NODE /\ r.h[n] = Free /\ t.v = n /\ t.h \in Heaps /\ t.h[n] = cell
      /\ \A m \in NODE : m # n => t.h[m] = r.h[m]
      /\ Cardinality(FreeNodes(t.h)) = Cardinality(FreeNodes(r.h)) - 1
  <2> HIDE DEF cell
  <2>1. t = Make(r.h, cell) BY DEF cell
  <2> HIDE DEF t
  <2> QED BY <1>2, <1>4, <1>6, <2>1, MakeIs
<1>8. t = [h |-> t.h, v |-> t.v] BY DEF Make, Result
<1> HIDE DEF t, n
<1> DEFINE d == [i \in a .. l |-> IF i = a THEN n ELSE e[i]]
<1>9. \A i \in a .. l : i = a \/ i \in a + 1 .. l BY <1>1
<1>10. a \in a .. l /\ \A i \in a + 1 .. l : i \in a .. l /\ i # a BY <1>1
<1>11. d \in [a .. l -> NODE] /\ d[a] = n /\ \A i \in a + 1 .. l : d[i] = e[i]
  BY <1>2, <1>7, <1>9, <1>10
<1> HIDE DEF d
<1>12. ASSUME NEW i \in a + 1 .. l PROVE e[i] # n
  <2>1. r.h[e[i]] # Free BY <1>2, PairIs
  <2> QED BY <1>7, <2>1
<1>13. h[n] = Free BY <1>2, <1>7, <1>12
<1>14. ASSUME NEW i \in a .. l, NEW j \in a .. l, d[i] = d[j] PROVE i = j
  BY <1>2, <1>9, <1>11, <1>12, <1>14
<1>15. ASSUME NEW i \in a .. l
       PROVE  h[d[i]] = Free /\ t.h[d[i]] = Pair(s[i], IF i = l THEN tail ELSE d[i + 1])
  <2>1. CASE i = a
    <3>1. r.v = IF i = l THEN tail ELSE d[i + 1]
      <4>1. CASE a = l
        <5>1. k = 1 BY <1>1, <4>1 DEF a
        <5> QED BY <1>1, <1>2, <2>1, <4>1, <5>1
      <4>2. CASE a # l
        <5>1. k # 1 /\ a + 1 \in a + 1 .. l BY <1>1, <4>2 DEF a
        <5>2. k - 1 # 0 BY <1>1, <5>1
        <5> QED BY <1>2, <1>11, <2>1, <4>2, <5>1, <5>2
      <4> QED BY <4>1, <4>2
    <3> QED BY <1>7, <1>11, <1>13, <2>1, <3>1
  <2>2. CASE i \in a + 1 .. l
    <3>1. i # l => i + 1 \in a + 1 .. l BY <1>1, <2>2
    <3>2. e[i] \in NODE /\ d[i] = e[i] /\ e[i] # n BY <1>2, <1>11, <1>12, <2>2
    <3>3. t.h[d[i]] = r.h[e[i]] BY <1>7, <3>2
    <3>4. (IF i = l THEN tail ELSE d[i + 1]) = IF i = l THEN tail ELSE e[i + 1] BY <1>11, <3>1
    <3> QED BY <1>2, <2>2, <3>2, <3>3, <3>4
  <2> QED BY <1>9, <2>1, <2>2
<1>16. ASSUME NEW m \in NODE, \A i \in a .. l : d[i] # m PROVE t.h[m] = h[m]
  <2>1. m # n /\ \A i \in a + 1 .. l : e[i] # m BY <1>10, <1>11, <1>16
  <2> QED BY <1>2, <1>7, <2>1
<1>17. Cardinality(FreeNodes(t.h)) = Cardinality(FreeNodes(h)) - k
  <2> DEFINE A == Cardinality(FreeNodes(h)) B == Cardinality(FreeNodes(r.h))
             C == Cardinality(FreeNodes(t.h))
  <2>1. A \in Nat /\ B = A - (k - 1) /\ C = B - 1 BY <1>2, <1>3, <1>7
  <2> HIDE DEF A, B, C
  <2>2. C = A - k BY <1>1, <2>1
  <2> QED BY <2>2 DEF A, C
<1>18. t.v = IF k = 0 THEN tail ELSE d[a] BY <1>1, <1>7, <1>11
<1>19. \E q \in [a .. l -> NODE] :
       /\ t.h \in Heaps
       /\ \A i, j \in a .. l : q[i] = q[j] => i = j
       /\ \A i \in a .. l : h[q[i]] = Free /\ t.h[q[i]] = Pair(s[i], IF i = l THEN tail ELSE q[i + 1])
       /\ \A m \in NODE : (\A i \in a .. l : q[i] # m) => t.h[m] = h[m]
       /\ t.v = IF k = 0 THEN tail ELSE q[a]
       /\ Cardinality(FreeNodes(t.h)) = Cardinality(FreeNodes(h)) - k
  BY <1>7, <1>11, <1>14, <1>15, <1>16, <1>17, <1>18
<1>20. CopyOf(h, s, tail, t, k) BY <1>19 DEF CopyOf, a, l
<1>21. t \in [h : Heaps, v : NODE \cup {Nil}] BY <1>7, <1>8
<1> QED BY <1>20, <1>21 DEF t, a, l

LEMMA CopiedFollows ==
  ASSUME NEW h \in Heaps, NEW s \in Seq(Value), NEW tail \in NODE \cup {Nil}, Cardinality(FreeNodes(h)) >= Len(s)
  PROVE  CopyOf(h, s, tail, Copied(h, s, tail), Len(s))
<1> DEFINE n == Len(s) S == [h : Heaps, v : NODE \cup {Nil}] c == Result(h, tail)
           Step(k, r) == Make(r.h, Pair(s[Len(s) - k + 1], r.v)) P(r, k) == CopyOf(h, s, tail, r, k)
           Recursion(f) == f = [k \in 0 .. n |-> IF k = 0 THEN c ELSE Step(k, f[k - 1])]
           st == [k \in 1 .. n |-> [r \in S |-> IF Step(k, r) \in S THEN Step(k, r) ELSE r]]
           g == CHOOSE f : Recursion(f)
<1>1. n \in Nat /\ c \in S BY LenProperties DEF Result
<1>2. P(c, 0) /\ \A k \in 1 .. n : \A r : P(r, k - 1) => P(Step(k, r), k) /\ Step(k, r) \in S
  <2>1. P(c, 0) BY CopyStart
  <2>2. ASSUME NEW k \in 1 .. n, NEW r, P(r, k - 1) PROVE P(Step(k, r), k) /\ Step(k, r) \in S
    BY <2>2, CopyStep
  <2> QED BY <2>1, <2>2
<1>3. Copied(h, s, tail) = g[n] BY Zenon DEF Copied
<1> HIDE DEF n, S, c, Step, P
<1>4. PICK f \in [0 .. n -> S] : Follows(f, n, c, st)
  <2>1. st \in [1 .. n -> [S -> S]] OBVIOUS
  <2> HIDE DEF st
  <2> QED BY <1>1, <2>1, RecursionExists
<1>5. \A i \in 1 .. n : i - 1 \in 0 .. n BY <1>1
<1>6. \A i \in 1 .. n : f[i] = IF Step(i, f[i - 1]) \in S THEN Step(i, f[i - 1]) ELSE f[i - 1]
  <2>1. \A i \in 1 .. n : i \in 0 .. n /\ i # 0 /\ f[i - 1] \in S BY <1>1, <1>5
  <2>2. \A i \in 1 .. n : f[i] = st[i][f[i - 1]] BY <1>4, <2>1 DEF Follows
  <2> QED BY <2>1, <2>2
<1>7. f[0] = c
  <2>1. 0 \in 0 .. n BY <1>1
  <2> QED BY <1>4, <2>1 DEF Follows
<1>8. \A i \in 0 .. n : P(f[i], i)
  <2> DEFINE T == {i \in 0 .. n : P(f[i], i)}
  <2>1. 0 \in T BY <1>1, <1>2, <1>7
  <2>2. ASSUME NEW i \in 1 .. n, i - 1 \in T PROVE i \in T
    <3>1. P(f[i - 1], i - 1) BY <2>2
    <3>2. P(Step(i, f[i - 1]), i) /\ Step(i, f[i - 1]) \in S BY <1>2, <3>1
    <3>3. f[i] = Step(i, f[i - 1]) BY <1>6, <3>2
    <3> QED BY <1>1, <3>2, <3>3
  <2>3. \A i \in 0 .. n : i \in T
    <3> HIDE DEF T
    <3> QED BY <1>1, <2>1, <2>2, Upward
  <2> QED BY <2>3
<1>9. \A i \in 0 .. n : f[i] = IF i = 0 THEN c ELSE Step(i, f[i - 1])
  <2>1. \A i \in 0 .. n : i = 0 \/ i \in 1 .. n BY <1>1
  <2>2. ASSUME NEW i \in 1 .. n PROVE f[i] = Step(i, f[i - 1]) BY <1>2, <1>5, <1>6, <1>8
  <2> QED BY <1>7, <2>1, <2>2
<1>10. \E e : Recursion(e)
  <2>1. f = [i \in 0 .. n |-> f[i]] OBVIOUS
  <2>2. f = [i \in 0 .. n |-> IF i = 0 THEN c ELSE Step(i, f[i - 1])] BY <1>9, <2>1, Zenon
  <2> QED BY <2>2, Zenon
<1>11. Recursion(g) BY <1>10, Zenon
<1> HIDE DEF g
<1>12. g[0] = c /\ \A i \in 1 .. n : g[i] = Step(i, g[i - 1])
  <2>1. \A i \in 0 .. n : g[i] = IF i = 0 THEN c ELSE Step(i, g[i - 1]) BY <1>11, Zenon
  <2> QED BY <1>1, <2>1
<1>13. \A i \in 0 .. n : P(g[i], i)
  <2> DEFINE T == {i \in 0 .. n : P(g[i], i)}
  <2>1. 0 \in T BY <1>1, <1>2, <1>12
  <2>2. ASSUME NEW i \in 1 .. n, i - 1 \in T PROVE i \in T BY <1>1, <1>2, <1>12, <2>2
  <2>3. \A i \in 0 .. n : i \in T
    <3> HIDE DEF T
    <3> QED BY <1>1, <2>1, <2>2, Upward
  <2> QED BY <2>3
<1>14. P(g[n], n) BY <1>1, <1>13
<1> QED BY <1>3, <1>14 DEF P, n

\* Copied makes as many fresh conses c as s has elements, and changes no other
\* node.
Copies(h, s, tail, r, c) ==
    /\ c \in Seq(NODE) /\ Len(c) = Len(s) /\ Distinct(c) /\ r.h \in Heaps
    /\ \A i \in 1 .. Len(s) :
          h[c[i]] = Free /\ r.h[c[i]] = Pair(s[i], IF i = Len(s) THEN tail ELSE c[i + 1])
    /\ \A n \in NODE : (\A i \in 1 .. Len(s) : c[i] # n) => r.h[n] = h[n]
    /\ r.v = IF Len(s) = 0 THEN tail ELSE c[1]

LEMMA CopiedIs ==
  ASSUME NEW h \in Heaps, NEW s \in Seq(Value), NEW tail \in NODE \cup {Nil}, Cardinality(FreeNodes(h)) >= Len(s)
  PROVE  LET r == Copied(h, s, tail)
         IN \E c : Copies(h, s, tail, r, c)
<1> DEFINE r == Copied(h, s, tail) a == Len(s) - Len(s) + 1
<1>1. CopyOf(h, s, tail, r, Len(s)) BY CopiedFollows
<1>2. PICK e \in [a .. Len(s) -> NODE] :
       /\ r.h \in Heaps
       /\ \A i, j \in a .. Len(s) : e[i] = e[j] => i = j
       /\ \A i \in a .. Len(s) : h[e[i]] = Free /\ r.h[e[i]] = Pair(s[i], IF i = Len(s) THEN tail ELSE e[i + 1])
       /\ \A n \in NODE : (\A i \in a .. Len(s) : e[i] # n) => r.h[n] = h[n]
       /\ r.v = IF Len(s) = 0 THEN tail ELSE e[a]
       /\ Cardinality(FreeNodes(r.h)) = Cardinality(FreeNodes(h)) - Len(s)
  BY <1>1 DEF CopyOf
<1> HIDE DEF r
<1>3. Len(s) \in Nat BY LenProperties
<1> DEFINE l == Len(s)
<1>4. a = 1 BY <1>3
<1> HIDE DEF a
<1>5. e \in Seq(NODE) /\ Len(e) = Len(s)
  <2> HIDE DEF l
  <2>1. e \in [1 .. l -> NODE] BY <1>2, <1>4 DEF l
  <2>2. l \in Nat BY <1>3 DEF l
  <2>3. e \in Seq(NODE) /\ Len(e) = l BY <2>1, <2>2
  <2> QED BY <2>3 DEF l
<1>6. Distinct(e) BY <1>2, <1>4, <1>5 DEF Distinct
<1>7. /\ \A i \in 1 .. Len(s) : h[e[i]] = Free /\ r.h[e[i]] = Pair(s[i], IF i = Len(s) THEN tail ELSE e[i + 1])
      /\ \A n \in NODE : (\A i \in 1 .. Len(s) : e[i] # n) => r.h[n] = h[n]
      /\ r.v = IF Len(s) = 0 THEN tail ELSE e[1]
  BY <1>2, <1>4, Zenon
<1>8. Copies(h, s, tail, r, e) BY <1>2, <1>5, <1>6, <1>7 DEF Copies
<1> QED BY <1>8 DEF r
----
(* What every heap of the program is like: g is one that has not been *)
(* swept yet, x the variables, p the property list, c its conses, and I a *)
(* set of nodes that has all that the program can get hold of. *)

Vals(x) == {x[v] : v \in Var} \cup Word \cup {Nil}
Used(h) == {n \in NODE : h[n] # Free}
Cars(h, c) == {h[c[i]].car : i \in 1 .. Len(c)}
Inside(h, x, c) == Found(h, Vals(x) \cup Cars(h, c))

ListsEnd(h) == \A n \in NODE : h[n].t = "cons" => IsList(h, h[n].cdr)
PlistOK(h, p, c) ==
    /\ FullSpine(h, p, c) /\ IsList(h, p) /\ Len(c) % 2 = 0
    /\ \A i \in 1 .. Len(c) : i % 2 = 1 => h[c[i]].car \in Word

Right(g, x, p, c, I) ==
    /\ g \in Heaps /\ x \in [Var -> Value] /\ p \in NODE \cup {Nil}
    /\ ListsEnd(g) /\ PlistOK(g, p, c)
    /\ Shut(g, Used(g)) /\ Shut(g, I) /\ I \subseteq Used(g)
    /\ \A v \in Var : x[v] \in NODE => x[v] \in I
    /\ \A i \in 1 .. Len(c) : c[i] \notin I /\ (g[c[i]].car \in NODE => g[c[i]].car \in I)

LEMMA UsedIs ==
  ASSUME NEW h \in Heaps, NEW n PROVE n \in Used(h) <=> n \in NODE /\ h[n].t # "free"
<1>1. n \in NODE => h[n] \in Cell BY DEF Heaps
<1> QED BY <1>1, CellKinds, FreeIs DEF Used

LEMMA SameParts == ASSUME NEW h, NEW g, NEW n, g[n] = h[n] PROVE Parts(g, n) = Parts(h, n)
BY DEF Parts, IsCons, IsArray, Car, Cdr

LEMMA NotNode == /\ \A w \in Word : w \notin NODE
                 /\ Nil \notin NODE /\ Nil \notin Word
                 /\ \A v \in Value : v \in NODE \/ v \in Word \/ v = Nil
BY DEF Value

\* A list lies where its first cons does.
LEMMA SpineIn ==
  ASSUME NEW h \in Heaps, NEW v, NEW c, NEW I, IsSpine(h, v, c), Shut(h, I), v \in NODE => v \in I
  PROVE  \A i \in 1 .. Len(c) : /\ c[i] \in I /\ c[i] \in NODE /\ h[c[i]].car \in Value
                                /\ h[c[i]].car \in NODE => h[c[i]].car \in I
<1> DEFINE l == Len(c) T == {i \in 0 .. l : i > 0 => c[i] \in I}
<1>1. l \in Nat /\ \A i \in 1 .. l : c[i] \in NODE /\ h[c[i]].t = "cons" BY DEF IsSpine
<1>2. l > 0 => c[1] = v BY DEF IsSpine
<1>3. \A i \in 1 .. l : i < l => c[i + 1] = h[c[i]].cdr BY DEF IsSpine
<1> HIDE DEF l
<1>4. ASSUME NEW i \in 1 .. l
      PROVE  /\ h[c[i]].car \in Value /\ Parts(h, c[i]) = {h[c[i]].car, h[c[i]].cdr}
  <2>1. h[c[i]] \in Cell BY <1>1 DEF Heaps
  <2>2. h[c[i]].car \in Value BY <1>1, <2>1, CellKinds, FreeIs
  <2> QED BY <1>1, <2>2, PartsOf
<1>5. 0 \in T BY <1>1
<1>6. ASSUME NEW i \in 1 .. l, i - 1 \in T PROVE i \in T
  <2>1. CASE i = 1 BY <1>1, <1>2, <2>1
  <2>2. CASE i # 1
    <3>1. i - 1 \in 1 .. l /\ i - 1 < l /\ (i - 1) + 1 = i /\ i - 1 > 0 BY <1>1, <2>2
    <3>2. c[i - 1] \in I /\ c[i] = h[c[i - 1]].cdr /\ c[i] \in NODE BY <1>1, <1>3, <1>6, <3>1
    <3>3. c[i] \in Parts(h, c[i - 1]) BY <1>4, <3>1, <3>2
    <3>4. c[i] \in I BY <3>2, <3>3 DEF Shut
    <3> QED BY <1>1, <3>4
  <2> QED BY <2>1, <2>2
<1>7. \A i \in 0 .. l : i \in T
  <2> HIDE DEF T
  <2> QED BY <1>1, <1>5, <1>6, Upward
<1>8. \A i \in 1 .. l : c[i] \in I BY <1>1, <1>7
<1>9. ASSUME NEW i \in 1 .. l, h[c[i]].car \in NODE PROVE h[c[i]].car \in I
  BY <1>4, <1>8, <1>9 DEF Shut
<1> QED BY <1>1, <1>4, <1>8, <1>9 DEF l

LEMMA ElementsAre ==
  ASSUME NEW h, NEW v
  PROVE  LET c == Conses(h, v)
         IN /\ Elements(h, v) = [i \in 1 .. Len(c) |-> h[c[i]].car]
            /\ DOMAIN Elements(h, v) = 1 .. Len(c)
            /\ (\A i \in 1 .. Len(c) : h[c[i]].car \in Value) =>
                  Elements(h, v) \in Seq(Value) /\ Len(Elements(h, v)) = Len(c)
<1> DEFINE c == Conses(h, v) l == Len(c)
<1>1. DOMAIN c = 1 .. l /\ l \in Nat BY ConsesSpine
<1>2. Elements(h, v) = [i \in 1 .. l |-> h[c[i]].car] BY <1>1 DEF Elements, Car
<1> HIDE DEF c, l
<1>3. ASSUME \A i \in 1 .. l : h[c[i]].car \in Value
      PROVE  Elements(h, v) \in Seq(Value) /\ Len(Elements(h, v)) = l
  <2>1. Elements(h, v) \in [1 .. l -> Value] BY <1>2, <1>3
  <2> QED BY <1>1, <2>1
<1> QED BY <1>2, <1>3 DEF c, l

LEMMA ToRight ==
  ASSUME DataTypeOK, PlistIsPrivate
  PROVE  LET c == Conses(heap, plist)
         IN Right(heap, val, plist, c, Inside(heap, val, c)) /\ Used(heap) = Found(heap, Values \cup {plist})
<1> DEFINE c == Conses(heap, plist) l == Len(c) I == Inside(heap, val, c)
           L == Found(heap, Values \cup {plist})
<1>1. heap \in Heaps /\ val \in [Var -> Value] /\ plist \in NODE \cup {Nil} BY DEF DataTypeOK, Heaps
<1>2. Used(heap) = L
  <2>1. \A n \in NODE : n \in L <=> heap[n] # Free BY DEF DataTypeOK
  <2>2. L \subseteq NODE BY FoundHas
  <2> QED BY <2>1, <2>2 DEF Used
<1>3. ListsEnd(heap) BY DEF DataTypeOK, ListsEnd, IsCons, Cdr
<1>4. FullSpine(heap, plist, c) /\ IsSpine(heap, plist, c) /\ c \in Seq(NODE) /\ l \in Nat /\ IsList(heap, plist)
  BY ConsesSpine DEF DataTypeOK, Ends, N, FullSpine
<1>5. Shut(heap, L) /\ plist \in NODE => plist \in L BY FoundHas
<1>6. \A i \in 1 .. l : /\ c[i] \in L /\ c[i] \in NODE /\ heap[c[i]].car \in Value
                        /\ heap[c[i]].car \in NODE => heap[c[i]].car \in L
  <2>1. Shut(heap, L) BY FoundShut
  <2>2. plist \in NODE => plist \in L BY FoundHas
  <2> HIDE DEF c, L
  <2> QED BY <1>1, <1>4, <2>1, <2>2, SpineIn
<1>7. Elements(heap, plist) = [i \in 1 .. l |-> heap[c[i]].car] /\ DOMAIN Elements(heap, plist) = 1 .. l
      /\ Len(Elements(heap, plist)) = l
  BY <1>6, ElementsAre
<1> HIDE DEF c
<1>8. PlistOK(heap, plist, c)
  <2>1. l % 2 = 0 BY <1>7 DEF DataTypeOK
  <2>2. \A i \in 1 .. l : i % 2 = 1 => heap[c[i]].car \in Word BY <1>7 DEF DataTypeOK
  <2> QED BY <1>4, <2>1, <2>2 DEF PlistOK
<1>9. ToSet(Elements(heap, plist)) = Cars(heap, c) /\ Values = Vals(val)
  <2>1. ToSet(Elements(heap, plist)) = {Elements(heap, plist)[i] : i \in 1 .. l} BY <1>7 DEF ToSet
  <2>2. \A i \in 1 .. l : Elements(heap, plist)[i] = heap[c[i]].car BY <1>7
  <2>3. {Elements(heap, plist)[i] : i \in 1 .. l} = {heap[c[i]].car : i \in 1 .. l} BY <2>2
  <2> QED BY <2>1, <2>3 DEF Cars, Values, Vals
<1>10. I = Found(heap, Values \cup ToSet(Elements(heap, plist))) BY <1>9 DEF Inside
<1>11. ToSet(c) \cap I = {} BY <1>10 DEF PlistIsPrivate, c
<1>12. \A i \in 1 .. l : c[i] \in ToSet(c)
  <2>1. DOMAIN c = 1 .. l BY <1>4
  <2> QED BY <2>1 DEF ToSet
<1>13. Shut(heap, L) /\ Shut(heap, I) BY FoundShut DEF Inside
<1>14. I \subseteq L
  <2>1. ASSUME NEW n \in Vals(val) \cup Cars(heap, c), n \in NODE PROVE n \in L
    <3>1. CASE n \in Vals(val) BY <1>9, <2>1, <3>1, FoundHas
    <3>2. CASE n \in Cars(heap, c) BY <1>6, <2>1, <3>2 DEF Cars
    <3> QED BY <3>1, <3>2
  <2> QED BY <2>1, FoundIn DEF Inside
<1>15. \A v \in Var : val[v] \in NODE => val[v] \in I
  <2>1. \A v \in Var : val[v] \in Vals(val) BY DEF Vals
  <2> QED BY <2>1, FoundHas DEF Inside
<1>16. \A i \in 1 .. l : heap[c[i]].car \in NODE => heap[c[i]].car \in I
  <2>1. \A i \in 1 .. l : heap[c[i]].car \in Cars(heap, c) BY DEF Cars
  <2> QED BY <2>1, FoundHas DEF Inside
<1>17. Right(heap, val, plist, c, I)
  <2> HIDE DEF I, L
  <2>1. \A i \in 1 .. l : c[i] \notin I BY <1>11, <1>12
  <2>2. Shut(heap, Used(heap)) /\ I \subseteq Used(heap) BY <1>2, <1>13, <1>14
  <2> QED BY <1>1, <1>3, <1>8, <1>13, <1>15, <1>16, <2>1, <2>2 DEF Right
<1> QED BY <1>2, <1>17 DEF c

\* What sweeping leaves: everything that is found is as it was, the rest is
\* free, and the heap is again one in which what is used is what is found.
LEMMA SweptIs ==
  ASSUME NEW g, NEW x, NEW p, NEW c, NEW I, Right(g, x, p, c, I)
  PROVE  LET f == Swept(g, x, p)
             L == Found(g, Vals(x) \cup {p})
         IN /\ f \in Heaps /\ L \subseteq Used(g) /\ Shut(g, L) /\ Used(f) = L
            /\ (\A n \in L : f[n] = g[n]) /\ (\A n \in NODE \ L : f[n] = Free)
            /\ (p \in NODE => p \in L) /\ \A v \in Var : x[v] \in NODE => x[v] \in L
            /\ \A S : Found(g, S) \subseteq L => Found(f, S) = Found(g, S)
<1> DEFINE f == Swept(g, x, p) L == Found(g, Vals(x) \cup {p}) R == {x[v] : v \in Var} \cup {p}
<1>1. g \in Heaps /\ Shut(g, Used(g)) /\ I \subseteq Used(g) /\ p \in NODE \cup {Nil}
      /\ (\A v \in Var : x[v] \in NODE => x[v] \in I) /\ IsList(g, p)
  BY DEF Right, PlistOK
<1>2. p \in NODE => p \in Used(g) BY <1>1, UsedIs, NotNode DEF IsList, IsCons
<1>3. L \subseteq Used(g)
  <2>1. ASSUME NEW n \in Vals(x) \cup {p}, n \in NODE PROVE n \in Used(g)
    BY <1>1, <1>2, <2>1, NotNode DEF Vals
  <2> QED BY <1>1, <2>1, FoundLeast DEF Shut
<1>4. Found(g, R) = L
  <2>1. Found(g, R) \subseteq L
    <3>1. \A n \in R : n \in Vals(x) \cup {p} BY DEF Vals
    <3> QED BY <3>1, FoundHas, FoundIn
  <2>2. L \subseteq Found(g, R)
    <3>1. \A n \in Vals(x) \cup {p} : n \in NODE => n \in R BY NotNode DEF Vals
    <3> HIDE DEF R
    <3> QED BY <3>1, FoundHas, FoundIn
  <2> QED BY <2>1, <2>2
<1>5. f = [n \in NODE |-> IF n \in L THEN g[n] ELSE Free] BY <1>4, Zenon DEF Swept, R
<1>6. L \subseteq NODE /\ Shut(g, L) /\ (\A n \in Vals(x) \cup {p} : n \in NODE => n \in L)
  BY FoundShut, FoundHas
<1> HIDE DEF L, f
<1>7. f \in Heaps BY <1>1, <1>5, FreeIs DEF Heaps
<1>8. (\A n \in L : f[n] = g[n]) /\ (\A n \in NODE \ L : f[n] = Free) BY <1>5, <1>6
<1>9. Used(f) = L
  <2>1. \A n \in L : g[n] # Free BY <1>3 DEF Used
  <2> QED BY <1>6, <1>8, <2>1 DEF Used
<1>10. ASSUME NEW S, Found(g, S) \subseteq L PROVE Found(f, S) = Found(g, S)
  <2>1. \A n \in Found(g, S) : Parts(f, n) = Parts(g, n) BY <1>8, <1>10, SameParts
  <2> QED BY <2>1, FoundFrame
<1>11. (p \in NODE => p \in L) /\ \A v \in Var : x[v] \in NODE => x[v] \in L BY <1>6 DEF Vals
<1> QED BY <1>3, <1>6, <1>7, <1>8, <1>9, <1>10, <1>11 DEF f, L

\* A spine is found from its first cons, and is one in a heap that agrees.
LEMMA SpineFrame ==
  ASSUME NEW g \in Heaps, NEW f \in Heaps, NEW v, NEW c, NEW L, FullSpine(g, v, c), Shut(g, L), v \in NODE => v \in L,
         \A n \in L : f[n] = g[n], v \in NODE /\ g[v].t # "cons" => f[v].t # "cons"
  PROVE  FullSpine(f, v, c) /\ (\A i \in 1 .. Len(c) : c[i] \in L /\ f[c[i]] = g[c[i]])
<1> DEFINE l == Len(c)
<1>1. IsSpine(g, v, c) /\ ~IsCons(g, After(g, v, c)) /\ c \in Seq(NODE) /\ l \in Nat
  BY DEF FullSpine, IsSpine
<1>2. \A i \in 1 .. l : c[i] \in L /\ f[c[i]] = g[c[i]] BY <1>1, SpineIn
<1>3. IsSpine(f, v, c) BY <1>1, <1>2 DEF IsSpine
<1>4. ~IsCons(f, After(f, v, c))
  <2>1. CASE l = 0 BY <1>1, <2>1 DEF After, IsCons
  <2>2. CASE l # 0
    <3>1. l \in 1 .. l BY <1>1, <2>2
    <3>2. After(f, v, c) = After(g, v, c) /\ After(g, v, c) = g[c[l]].cdr
      BY <1>2, <2>2, <3>1 DEF After
    <3>3. g[c[l]].cdr \in NODE => g[c[l]].cdr \in L
      <4>1. Parts(g, c[l]) = {g[c[l]].car, g[c[l]].cdr}
        <5>1. c[l] \in NODE /\ g[c[l]].t = "cons" BY <1>1, <3>1 DEF IsSpine
        <5> QED BY <5>1, PartsOf
      <4>2. c[l] \in L BY <1>2, <3>1
      <4> HIDE DEF l
      <4> QED BY <4>1, <4>2 DEF Shut
    <3> DEFINE d == After(g, v, c)
    <3>4. d \in NODE => d \in L BY <3>2, <3>3
    <3> QED BY <1>1, <3>2, <3>4 DEF IsCons
  <2> QED BY <2>1, <2>2
<1> QED BY <1>2, <1>3, <1>4 DEF FullSpine

\* What sweeping brings back.
RightAgain(f, x, p, c) ==
    /\ f \in Heaps /\ (\A n \in NODE : n \in Found(f, Vals(x) \cup {p}) <=> f[n] # Free)
    /\ ListsEnd(f) /\ PlistOK(f, p, c)
    /\ \A i \in 1 .. Len(c) : c[i] \notin Inside(f, x, c)
SameCells(h, g, c) == \A i \in 1 .. Len(c) : g[c[i]] = h[c[i]]
\* No way round comes of it.
StaysAcyclic(h, g) == Acyclic(h, Used(h)) => Acyclic(g, Used(g))

LEMMA FromRight ==
  ASSUME NEW g, NEW x, NEW p, NEW c, NEW I, Right(g, x, p, c, I), NEW f, f = Swept(g, x, p)
  PROVE  RightAgain(f, x, p, c) /\ SameCells(g, f, c) /\ StaysAcyclic(g, f)
<1> DEFINE L == Found(g, Vals(x) \cup {p})
<1> DEFINE s == Swept(g, x, p)
<1>a. /\ s \in Heaps /\ L \subseteq Used(g) /\ Shut(g, L) /\ Used(s) = L
      /\ (\A n \in L : s[n] = g[n]) /\ (\A n \in NODE \ L : s[n] = Free)
      /\ (p \in NODE => p \in L) /\ (\A v \in Var : x[v] \in NODE => x[v] \in L)
      /\ \A S : Found(g, S) \subseteq L => Found(s, S) = Found(g, S)
  BY SweptIs
<1>b. f = s OBVIOUS
<1> HIDE DEF s
<1>1. /\ f \in Heaps /\ L \subseteq Used(g) /\ Shut(g, L) /\ Used(f) = L
      /\ (\A n \in L : f[n] = g[n]) /\ (\A n \in NODE \ L : f[n] = Free)
      /\ (p \in NODE => p \in L) /\ (\A v \in Var : x[v] \in NODE => x[v] \in L)
      /\ \A S : Found(g, S) \subseteq L => Found(f, S) = Found(g, S)
  BY <1>a, <1>b
<1>2. Found(f, Vals(x) \cup {p}) = L BY <1>1
<1>3. /\ g \in Heaps /\ ListsEnd(g) /\ PlistOK(g, p, c) /\ Shut(g, I) /\ p \in NODE \cup {Nil}
      /\ (\A v \in Var : x[v] \in NODE => x[v] \in I)
      /\ \A i \in 1 .. Len(c) : c[i] \notin I /\ (g[c[i]].car \in NODE => g[c[i]].car \in I)
  BY DEF Right
<1> HIDE DEF L
<1>4. \A n \in NODE : n \in L <=> f[n] # Free BY <1>1 DEF Used
<1>5. \A n \in NODE : f[n].t # "free" => n \in L BY <1>1, FreeIs
<1>6. ListsEnd(f)
  <2> SUFFICES ASSUME NEW n \in NODE, f[n].t = "cons" PROVE IsList(f, f[n].cdr) BY DEF ListsEnd
  <2>1. n \in L /\ f[n] = g[n] BY <1>1, <1>5
  <2>2. IsList(g, g[n].cdr) /\ Parts(g, n) = {g[n].car, g[n].cdr}
    BY <1>3, <2>1, PartsOf DEF ListsEnd
  <2>3. g[n].cdr = Nil \/ (g[n].cdr \in NODE /\ g[g[n].cdr].t = "cons" /\ g[n].cdr \in L)
    BY <1>1, <2>1, <2>2 DEF IsList, IsCons, Shut
  <2> QED BY <1>1, <2>1, <2>3 DEF IsList, IsCons
<1>7. FullSpine(f, p, c) /\ \A i \in 1 .. Len(c) : c[i] \in L /\ f[c[i]] = g[c[i]]
  <2>1. FullSpine(g, p, c) BY <1>3 DEF PlistOK
  <2>2. p \in NODE /\ g[p].t # "cons" => f[p].t # "cons" BY <1>1
  <2>3. /\ f \in Heaps /\ Shut(g, L) /\ (\A n \in L : f[n] = g[n]) /\ (p \in NODE => p \in L)
        /\ g \in Heaps
    BY <1>1, <1>3
  <2> QED BY <2>1, <2>2, <2>3, SpineFrame
<1>8. PlistOK(f, p, c)
  <2>1. IsList(f, p) BY <1>1, <1>3 DEF PlistOK, IsList, IsCons
  <2> QED BY <1>3, <1>7, <2>1 DEF PlistOK
<1>9. Cars(f, c) = Cars(g, c) BY <1>7 DEF Cars
<1>10. \A i \in 1 .. Len(c) : c[i] \notin Inside(f, x, c)
  <2> DEFINE S == Vals(x) \cup Cars(g, c)
  <2>1. Found(g, S) \subseteq I
    <3>1. ASSUME NEW n \in S, n \in NODE PROVE n \in I BY <1>3, <3>1, NotNode DEF Vals, Cars
    <3> QED BY <1>3, <3>1, FoundLeast DEF Shut
  <2>2. Found(g, S) \subseteq L
    <3>1. ASSUME NEW n \in S, n \in NODE PROVE n \in L
      <4>1. CASE n \in Vals(x) BY <1>1, <3>1, <4>1, NotNode DEF Vals
      <4>2. CASE n \in Cars(g, c)
        <5>1. PICK i \in 1 .. Len(c) : n = g[c[i]].car BY <4>2 DEF Cars
        <5>2. c[i] \in NODE /\ g[c[i]].t = "cons" BY <1>3 DEF PlistOK, FullSpine, IsSpine
        <5>3. n \in Parts(g, c[i]) BY <5>1, <5>2, PartsOf
        <5> QED BY <1>1, <1>7, <3>1, <5>3 DEF Shut
      <4> QED BY <4>1, <4>2
    <3> QED BY <1>1, <3>1, FoundLeast DEF Shut
  <2>3. Inside(f, x, c) = Found(g, S) BY <1>1, <1>9, <2>2 DEF Inside
  <2> QED BY <1>3, <2>1, <2>3
<1>11. ASSUME Acyclic(g, Used(g)) PROVE Acyclic(f, Used(f))
  <2>1. Acyclic(g, L) BY <1>1, <1>11 DEF Acyclic
  <2>2. \A n \in L : Parts(f, n) = Parts(g, n) BY <1>1, SameParts
  <2> QED BY <1>1, <2>1, <2>2, AcyclicFrame
<1> QED
  BY <1>1, <1>2, <1>4, <1>6, <1>7, <1>8, <1>10, <1>11 DEF RightAgain, SameCells, StaysAcyclic, L
----
(* Primitives that output something: fresh nodes D, and nothing else, are *)
(* written, and they point to each other and to what the program has. *)

Output(h, I, r) ==
    /\ r.h \in Heaps /\ ListsEnd(r.h)
    /\ \E D \in SUBSET FreeNodes(h) :
          /\ \A n \in NODE \ D : r.h[n] = h[n]
          /\ \A n \in D : /\ r.h[n] # Free
                          /\ \A m \in Parts(r.h, n) : m \in NODE => m \in I \cup D
                          /\ \E T : Shut(r.h, T) /\ n \notin T /\ \A m \in Parts(r.h, n) : m \in NODE => m \in T
          /\ r.v \in Value /\ (r.v \in NODE => r.v \in I \cup D)

\* What may be given to a primitive: a value that leads to nothing but I.
Held(I, v) == v \in Value /\ (v \in NODE => v \in I)

LEMMA PlistFrame ==
  ASSUME NEW h \in Heaps, NEW g \in Heaps, NEW p, NEW c, PlistOK(h, p, c), Shut(h, Used(h)),
         \A n \in Used(h) : g[n] = h[n]
  PROVE  PlistOK(g, p, c) /\ (\A i \in 1 .. Len(c) : c[i] \in Used(h) /\ g[c[i]] = h[c[i]])
<1> DEFINE U == Used(h)
<1>1. FullSpine(h, p, c) /\ (p \in NODE => p \in U) BY UsedIs, NotNode DEF PlistOK, IsList, IsCons
<1>2. p \in NODE => g[p] = h[p] BY <1>1
<1>3. Shut(h, U) /\ \A n \in U : g[n] = h[n] OBVIOUS
<1> HIDE DEF U
<1>4. FullSpine(g, p, c) /\ \A i \in 1 .. Len(c) : c[i] \in U /\ g[c[i]] = h[c[i]]
  BY <1>1, <1>2, <1>3, SpineFrame
<1>5. IsList(g, p) BY <1>2 DEF PlistOK, IsList, IsCons
<1> QED BY <1>4, <1>5 DEF PlistOK, U

LEMMA OutputRight ==
  ASSUME NEW h, NEW x, NEW p, NEW c, NEW I, Right(h, x, p, c, I), NEW r, Output(h, I, r), NEW w \in Var
  PROVE  \E J : /\ Right(r.h, [x EXCEPT ![w] = r.v], p, c, J) /\ I \subseteq J
                /\ \A n \in NODE : h[n] # Free => r.h[n] = h[n]
                /\ Acyclic(h, Used(h)) => Acyclic(r.h, Used(r.h))
<1>1. PICK D \in SUBSET FreeNodes(h) :
          /\ \A n \in NODE \ D : r.h[n] = h[n]
          /\ \A n \in D : /\ r.h[n] # Free
                          /\ \A m \in Parts(r.h, n) : m \in NODE => m \in I \cup D
                          /\ \E T : Shut(r.h, T) /\ n \notin T /\ \A m \in Parts(r.h, n) : m \in NODE => m \in T
          /\ r.v \in Value /\ (r.v \in NODE => r.v \in I \cup D)
  BY DEF Output
<1> DEFINE g == r.h y == [x EXCEPT ![w] = r.v] J == I \cup D
<1>2. g \in Heaps /\ ListsEnd(g) BY DEF Output
<1>3. /\ h \in Heaps /\ x \in [Var -> Value] /\ p \in NODE \cup {Nil}
      /\ ListsEnd(h) /\ PlistOK(h, p, c)
      /\ Shut(h, Used(h)) /\ Shut(h, I) /\ I \subseteq Used(h)
      /\ (\A v \in Var : x[v] \in NODE => x[v] \in I)
      /\ \A i \in 1 .. Len(c) : c[i] \notin I /\ (h[c[i]].car \in NODE => h[c[i]].car \in I)
  BY DEF Right
<1>4. /\ \A n \in Used(h) : g[n] = h[n] /\ n \notin D /\ n \in NODE
      /\ \A n \in I : g[n] = h[n] /\ n \notin D /\ n \in NODE
      /\ D \subseteq NODE /\ (\A n \in D : g[n] # Free /\ h[n] = Free)
  BY <1>1, <1>3 DEF Used, FreeNodes
<1>5. \A n \in NODE : h[n] # Free => g[n] = h[n] BY <1>4 DEF Used
<1>6. Used(g) = Used(h) \cup D BY <1>1, <1>4 DEF Used
<1> DEFINE U == Used(h)
<1>7. \A n \in NODE : h[n] # Free => n \in U BY DEF Used
<1> HIDE DEF U
<1>8. \A n \in U : Parts(g, n) = Parts(h, n) BY <1>4, SameParts DEF U
<1>9. Shut(g, U) /\ Shut(g, I)
  <2>1. \A n \in I : Parts(g, n) = Parts(h, n) BY <1>4, SameParts
  <2> QED BY <1>3, <1>8, <2>1 DEF Shut, U
<1>10. Shut(g, Used(g)) /\ Shut(g, J)
  <2>1. I \subseteq U BY <1>3 DEF U
  <2>2. ASSUME NEW n \in D, NEW m \in Parts(g, n), m \in NODE PROVE m \in J BY <1>1, <2>2
  <2>3. Shut(g, J) BY <1>4, <1>9, <2>2 DEF Shut
  <2>4. Shut(g, U \cup D) BY <1>4, <1>9, <2>1, <2>2 DEF Shut
  <2> QED BY <1>6, <2>3, <2>4 DEF U
<1>11. PlistOK(g, p, c) /\ (\A i \in 1 .. Len(c) : c[i] \in U /\ g[c[i]] = h[c[i]])
  <2> HIDE DEF g
  <2> QED BY <1>2, <1>3, <1>4, PlistFrame DEF U
<1>13. y \in [Var -> Value] /\ \A v \in Var : y[v] \in NODE => y[v] \in J BY <1>1, <1>3
<1>14. \A i \in 1 .. Len(c) : c[i] \notin J /\ (g[c[i]].car \in NODE => g[c[i]].car \in J)
  <2>1. \A i \in 1 .. Len(c) : c[i] \notin D BY <1>4, <1>11 DEF U
  <2> QED BY <1>3, <1>11, <2>1
<1>15. J \subseteq Used(g) BY <1>3, <1>6
<1>16. Right(g, y, p, c, J)
  <2> HIDE DEF g, y, J
  <2> QED BY <1>2, <1>3, <1>10, <1>11, <1>13, <1>14, <1>15 DEF Right
<1>17. ASSUME Acyclic(h, U) PROVE Acyclic(g, Used(g))
  <2>1. \A n \in D : \A m \in Parts(g, n) : m \in NODE => m \in U \cup D BY <1>1, <1>3 DEF U
  <2>2. Shut(h, U) BY <1>3 DEF U
  <2>3. \A n \in D : \E T : Shut(g, T) /\ n \notin T /\ \A m \in Parts(g, n) : m \in NODE => m \in T
    BY <1>1
  <2>4. Acyclic(g, U \cup D) BY <1>4, <1>8, <1>17, <2>1, <2>2, <2>3, AcyclicFresh
  <2> QED BY <1>6, <2>4 DEF U
<1> QED BY <1>5, <1>16, <1>17 DEF U

LEMMA PlainOutput ==
  ASSUME NEW h \in Heaps, ListsEnd(h), NEW I, NEW v, Held(I, v)
  PROVE  Output(h, I, Result(h, v))
<1>1. Result(h, v).h = h /\ Result(h, v).v = v BY DEF Result
<1>2. {} \in SUBSET FreeNodes(h) OBVIOUS
<1> QED BY <1>1, <1>2 DEF Output, Held

LEMMA MakeOutput ==
  ASSUME NEW h \in Heaps, ListsEnd(h), NEW I, Shut(h, I), I \subseteq Used(h), Shut(h, Used(h)),
         NEW cell \in Cell, cell # Free, Cardinality(FreeNodes(h)) > 0,
         cell.t = "cons" => Held(I, cell.car) /\ Held(I, cell.cdr) /\ IsList(h, cell.cdr),
         cell.t = "array" => \A i \in DOMAIN cell.items : Held(I, cell.items[i])
  PROVE  Output(h, I, Make(h, cell))
<1> DEFINE n == New(h) r == Make(h, cell) g == r.h
<1>1. /\ n \in NODE /\ h[n] = Free /\ r.v = n /\ g \in Heaps /\ g[n] = cell
      /\ \A m \in NODE : m # n => g[m] = h[m]
  BY MakeIs
<1> HIDE DEF n, r
<1>2. n \notin Used(h) BY <1>1 DEF Used
<1>3. \A m \in Parts(g, n) : m \in NODE => m \in I
  <2>1. CASE cell.t = "cons" BY <1>1, <2>1, PartsOf DEF Held
  <2>2. CASE cell.t = "array" BY <1>1, <2>2, PartsOf DEF Held
  <2> QED BY <2>1, <2>2, CellKinds
<1> HIDE DEF g
<1>4. Shut(g, I) /\ n \notin I
  <2>1. \A m \in I : m # n /\ m \in NODE BY <1>2 DEF Used
  <2>2. \A m \in I : Parts(g, m) = Parts(h, m) BY <1>1, <2>1, SameParts
  <2> QED BY <2>1, <2>2 DEF Shut
<1>5. ListsEnd(g)
  <2> SUFFICES ASSUME NEW m \in NODE, g[m].t = "cons" PROVE IsList(g, g[m].cdr) BY DEF ListsEnd
  <2>1. ASSUME NEW d, IsList(h, d) PROVE IsList(g, d)
    <3>1. d # n BY <1>1, <2>1, FreeIs, NotNode DEF IsList, IsCons
    <3> QED BY <1>1, <2>1, <3>1 DEF IsList, IsCons
  <2>2. CASE m = n BY <1>1, <2>1, <2>2
  <2>3. CASE m # n BY <1>1, <2>1, <2>3 DEF ListsEnd
  <2> QED BY <2>2, <2>3
<1> DEFINE D == {n}
<1>6. D \in SUBSET FreeNodes(h) BY <1>1 DEF FreeNodes
<1>7. /\ \A m \in NODE \ D : g[m] = h[m]
      /\ \A k \in D : /\ g[k] # Free
                      /\ \A m \in Parts(g, k) : m \in NODE => m \in I \cup D
                      /\ \E T : Shut(g, T) /\ k \notin T /\ \A m \in Parts(g, k) : m \in NODE => m \in T
      /\ r.v \in Value /\ (r.v \in NODE => r.v \in I \cup D)
  BY <1>1, <1>3, <1>4 DEF Value
<1> HIDE DEF D
<1>8. Output(h, I, r) BY <1>1, <1>5, <1>6, <1>7 DEF Output, g
<1> QED BY <1>8 DEF r

LEMMA CopyOutput ==
  ASSUME NEW h \in Heaps, ListsEnd(h), NEW I, Shut(h, I), I \subseteq Used(h), Shut(h, Used(h)),
         NEW s \in Seq(Value), \A i \in 1 .. Len(s) : Held(I, s[i]),
         NEW tail \in NODE \cup {Nil}, Held(I, tail), IsList(h, tail), Cardinality(FreeNodes(h)) >= Len(s)
  PROVE  Output(h, I, Copied(h, s, tail))
<1> DEFINE r == Copied(h, s, tail) g == r.h l == Len(s)
<1>0. PICK c : Copies(h, s, tail, r, c) BY CopiedIs
<1> HIDE DEF r, l
<1>1. g \in Heaps /\ l \in Nat BY <1>0, LenProperties DEF Copies, l
<1>2. /\ c \in Seq(NODE) /\ Len(c) = Len(s) /\ Distinct(c)
      /\ \A i \in 1 .. Len(s) :
            h[c[i]] = Free /\ r.h[c[i]] = Pair(s[i], IF i = Len(s) THEN tail ELSE c[i + 1])
      /\ \A n \in NODE : (\A i \in 1 .. Len(s) : c[i] # n) => r.h[n] = h[n]
      /\ r.v = IF Len(s) = 0 THEN tail ELSE c[1]
  BY <1>0 DEF Copies
<1>3. \A i \in 1 .. Len(c) : c[i] \in NODE BY <1>2
<1>4. /\ Len(c) = l /\ (\A i, j \in 1 .. l : c[i] = c[j] => i = j)
      /\ \A i \in 1 .. l : c[i] \in NODE /\ h[c[i]] = Free
                           /\ g[c[i]] = Pair(s[i], IF i = l THEN tail ELSE c[i + 1])
      /\ \A n \in NODE : (\A i \in 1 .. l : c[i] # n) => g[n] = h[n]
      /\ r.v = IF l = 0 THEN tail ELSE c[1]
  BY <1>2, <1>3 DEF l, Distinct
<1>5. \A i \in 1 .. l : Held(I, s[i]) BY DEF l
<1> HIDE DEF g
<1> DEFINE D == {c[i] : i \in 1 .. l} next(i) == IF i = l THEN tail ELSE c[i + 1]
<1>6. D \in SUBSET FreeNodes(h) BY <1>4 DEF FreeNodes
<1>7. \A n \in NODE \ D : g[n] = h[n] BY <1>4
<1>8. \A i \in 1 .. l : /\ g[c[i]].t = "cons" /\ g[c[i]].car = s[i] /\ g[c[i]].cdr = next(i) /\ g[c[i]] # Free
                        /\ Parts(g, c[i]) = {s[i], next(i)}
  <2>1. \A i \in 1 .. l : g[c[i]].t = "cons" /\ g[c[i]].car = s[i] /\ g[c[i]].cdr = next(i) /\ g[c[i]] # Free
    BY <1>4, PairIs
  <2> HIDE DEF next
  <2> QED BY <1>4, <2>1, PartsOf
<1>9. I \subseteq NODE /\ \A n \in I : n \notin D /\ g[n] = h[n] BY <1>4, <1>7 DEF Used
<1>10. Shut(g, I) BY <1>9, SameParts DEF Shut
<1>11. \A i \in 1 .. l : i # l => i + 1 \in 1 .. l BY <1>1
<1>12. ASSUME NEW d, IsList(h, d) PROVE IsList(g, d)
  <2>1. d \notin D BY <1>4, <1>12, FreeIs, NotNode DEF IsList, IsCons
  <2> QED BY <1>7, <1>12, <2>1 DEF IsList, IsCons
<1>13. ListsEnd(g)
  <2> SUFFICES ASSUME NEW n \in NODE, g[n].t = "cons" PROVE IsList(g, g[n].cdr) BY DEF ListsEnd
  <2>1. CASE n \notin D BY <1>7, <1>12, <2>1 DEF ListsEnd
  <2>2. ASSUME NEW i \in 1 .. l, n = c[i] PROVE IsList(g, g[n].cdr)
    <3>1. CASE i = l BY <1>8, <1>12, <2>2, <3>1
    <3>2. CASE i # l
      <4>1. i + 1 \in 1 .. l /\ g[n].cdr = c[i + 1] BY <1>8, <1>11, <2>2, <3>2
      <4> QED BY <1>4, <1>8, <4>1 DEF IsList, IsCons
    <3> QED BY <3>1, <3>2
  <2> QED BY <2>1, <2>2
<1>14. ASSUME NEW i \in 1 .. l
       PROVE  /\ \A m \in Parts(g, c[i]) : m \in NODE => m \in I \cup D
              /\ \E T : Shut(g, T) /\ c[i] \notin T /\ \A m \in Parts(g, c[i]) : m \in NODE => m \in T
  <2> DEFINE T == I \cup {c[j] : j \in i + 1 .. l}
  <2>1. ASSUME NEW j \in 1 .. l, j >= i, NEW m \in Parts(g, c[j]), m \in NODE PROVE m \in T
    <3>1. m = s[j] \/ m = next(j)
      <4>1. m \in {s[j], next(j)}
        <5> HIDE DEF next
        <5> QED BY <1>8, <2>1
      <4> HIDE DEF next
      <4> QED BY <4>1
    <3>2. CASE m = s[j] BY <1>5, <2>1, <3>2 DEF Held
    <3>3. CASE m = next(j) /\ j = l BY <2>1, <3>3 DEF Held
    <3>4. CASE m = next(j) /\ j # l
      <4>1. j + 1 \in i + 1 .. l BY <1>1, <2>1, <3>4
      <4> QED BY <3>4, <4>1
    <3> QED BY <3>1, <3>2, <3>3, <3>4
  <2>2. \A j \in i + 1 .. l : j \in 1 .. l /\ j >= i /\ j # i BY <1>1
  <2>3. T \subseteq NODE /\ T \subseteq I \cup D BY <1>4, <1>9, <2>2
  <2>4. Shut(g, T)
    <3>1. ASSUME NEW n \in T, NEW m \in Parts(g, n), m \in NODE PROVE m \in T
      <4>1. CASE n \in I BY <1>10, <3>1, <4>1 DEF Shut
      <4>2. CASE \E j \in i + 1 .. l : n = c[j]
        <5>1. PICK j \in i + 1 .. l : n = c[j] BY <4>2
        <5>2. j \in 1 .. l /\ j >= i BY <2>2
        <5> HIDE DEF T
        <5> QED BY <2>1, <3>1, <5>1, <5>2
      <4> QED BY <4>1, <4>2
    <3> QED BY <2>3, <3>1 DEF Shut
  <2>5. c[i] \notin T BY <1>4, <1>9, <2>2
  <2>6. i >= i BY <1>1
  <2>7. \A m \in Parts(g, c[i]) : m \in NODE => m \in T
    <3> HIDE DEF T
    <3> QED BY <2>1, <2>6
  <2> HIDE DEF T
  <2> QED BY <2>3, <2>4, <2>5, <2>7
<1>15. r.v \in Value /\ (r.v \in NODE => r.v \in I \cup D)
  <2>1. CASE l = 0 BY <1>4, <2>1 DEF Held
  <2>2. CASE l # 0
    <3>1. 1 \in 1 .. l BY <1>1, <2>2
    <3> QED BY <1>4, <2>2, <3>1 DEF Value
  <2> QED BY <2>1, <2>2
<1>16. \A n \in D : /\ g[n] # Free
                    /\ \A m \in Parts(g, n) : m \in NODE => m \in I \cup D
                    /\ \E T : Shut(g, T) /\ n \notin T /\ \A m \in Parts(g, n) : m \in NODE => m \in T
  BY <1>8, <1>14
<1> HIDE DEF D
<1>17. Output(h, I, r) BY <1>1, <1>6, <1>7, <1>13, <1>15, <1>16 DEF Output, g
<1> QED BY <1>17 DEF r
----
(* The primitives output what Output says. *)

LEMMA RightHas ==
  ASSUME NEW h, NEW x, NEW p, NEW c, NEW I, Right(h, x, p, c, I)
  PROVE  h \in Heaps /\ ListsEnd(h) /\ Shut(h, I) /\ I \subseteq Used(h) /\ Shut(h, Used(h))
BY DEF Right

LEMMA ValuesHeld ==
  ASSUME NEW h, NEW p, NEW c, NEW I, Right(h, val, p, c, I), NEW a \in Values PROVE Held(I, a)
BY NotNode DEF Right, Values, Held, Value

\* What a cons or an array in I has is held.
LEMMA PartsHeld ==
  ASSUME NEW h \in Heaps, NEW I, Shut(h, I), NEW a, Held(I, a), NEW m \in Parts(h, a)
  PROVE  Held(I, m)
<1>1. m \in Value BY PartsValue
<1>2. a \in NODE BY PartsOf
<1> QED BY <1>1, <1>2 DEF Held, Shut

LEMMA ConsHeld ==
  ASSUME NEW h \in Heaps, ListsEnd(h), NEW I, Shut(h, I), NEW a, Held(I, a), IsCons(h, a)
  PROVE  Held(I, Car(h, a)) /\ Held(I, Cdr(h, a)) /\ IsList(h, Cdr(h, a))
<1>1. Parts(h, a) = {Car(h, a), Cdr(h, a)} BY PartsOf DEF IsCons, Car, Cdr
<1>2. IsList(h, Cdr(h, a)) BY DEF ListsEnd, IsCons, Cdr
<1> QED BY <1>1, <1>2, PartsHeld

LEMMA ArrayHeld ==
  ASSUME NEW h \in Heaps, NEW I, Shut(h, I), NEW a, Held(I, a), IsArray(h, a)
  PROVE  /\ h[a].items \in Seq(Value) /\ Len(h[a].items) \in Nat /\ DOMAIN h[a].items = 1 .. Len(h[a].items)
         /\ \A i \in DOMAIN h[a].items : Held(I, h[a].items[i])
<1>1. a \in NODE /\ h[a].t = "array" /\ h[a] \in Cell BY DEF IsArray, Heaps
<1>2. h[a].items \in Seq(Value) BY <1>1, CellKinds, FreeIs
<1>3. Parts(h, a) = {h[a].items[i] : i \in DOMAIN h[a].items} BY <1>1, PartsOf
<1>4. \A i \in DOMAIN h[a].items : Held(I, h[a].items[i]) BY <1>3, PartsHeld
<1>5. Len(h[a].items) \in Nat /\ DOMAIN h[a].items = 1 .. Len(h[a].items) BY <1>2, LenProperties
<1> QED BY <1>2, <1>4, <1>5

LEMMA ListHeld ==
  ASSUME NEW h \in Heaps, NEW I, Shut(h, I), NEW a, Held(I, a)
  PROVE  LET d == Conses(h, a)
             e == Elements(h, a)
         IN /\ e \in Seq(Value) /\ Len(e) = Len(d) /\ Len(d) \in Nat /\ DOMAIN e = 1 .. Len(d) /\ DOMAIN d = 1 .. Len(d)
            /\ \A i \in 1 .. Len(d) : /\ Held(I, e[i]) /\ Held(I, d[i]) /\ IsCons(h, d[i]) /\ e[i] = Car(h, d[i])
<1> DEFINE d == Conses(h, a) e == Elements(h, a) l == Len(d)
<1>1. IsSpine(h, a, d) /\ d \in Seq(NODE) /\ l \in Nat BY ConsesSpine
<1>2. \A i \in 1 .. l : /\ d[i] \in I /\ d[i] \in NODE /\ h[d[i]].car \in Value
                        /\ h[d[i]].car \in NODE => h[d[i]].car \in I
  <2> HIDE DEF d
  <2>1. a \in NODE => a \in I BY DEF Held
  <2> QED BY <1>1, <2>1, SpineIn
<1>3. e = [i \in 1 .. l |-> h[d[i]].car] /\ DOMAIN e = 1 .. l /\ e \in Seq(Value) /\ Len(e) = l
  BY <1>2, ElementsAre
<1>4. \A i \in 1 .. l : h[d[i]].t = "cons" BY <1>1 DEF IsSpine
<1>5. DOMAIN d = 1 .. l BY <1>1
<1> HIDE DEF d, e, l
<1>6. \A i \in 1 .. l : Held(I, e[i]) /\ Held(I, d[i]) /\ IsCons(h, d[i]) /\ e[i] = Car(h, d[i])
  BY <1>2, <1>3, <1>4 DEF Held, Value, IsCons, Car
<1> QED BY <1>1, <1>3, <1>5, <1>6 DEF d, e, l

LEMMA RoomIs == ASSUME NEW k, Room(k) PROVE Cardinality(FreeNodes(heap)) >= k
BY DEF Room, FreeNodes

LEMMA RoomForOne == ASSUME Room(1) PROVE Cardinality(FreeNodes(heap)) > 0
<1>1. Cardinality(FreeNodes(heap)) \in Nat BY FreeCount
<1> QED BY <1>1, RoomIs

LEMMA NilHeld == ASSUME NEW h, NEW I PROVE Held(I, Nil) /\ IsList(h, Nil) /\ Nil \in NODE \cup {Nil}
BY NotNode DEF Held, Value, IsList

LEMMA ListType == ASSUME NEW h, NEW a, IsList(h, a) PROVE a \in NODE \cup {Nil}
BY DEF IsList, IsCons

LEMMA BuildOutput ==
  ASSUME NEW p, NEW c, NEW I, Right(heap, val, p, c, I), NEW w \in Var, Build(w)
  PROVE  \E r : Output(heap, I, r) /\ Outputs(w, r)
<1>0. heap \in Heaps /\ ListsEnd(heap) /\ Shut(heap, I) /\ I \subseteq Used(heap) /\ Shut(heap, Used(heap))
  BY RightHas
<1>1. PICK a \in Values, b \in Values :
        \/ IsList(heap, b) /\ Room(1) /\ Outputs(w, Fput(heap, a, b))
        \/ Ends(heap, b) /\ Room(Len(Conses(heap, b)) + 1) /\ Outputs(w, Lput(heap, a, b))
        \/ Room(2) /\ Outputs(w, ListOf(heap, a, b))
        \/ /\ \A v \in {a, b} : ~IsArray(heap, v)
           /\ IsList(heap, a) => Ends(heap, a)
           /\ Room(Len(Words(heap, a)) + IF IsList(heap, b) THEN 0 ELSE 1)
           /\ Outputs(w, Sentence(heap, a, b))
  BY DEF Build
<1>2. Held(I, a) /\ Held(I, b) /\ a \in Value /\ b \in Value BY ValuesHeld DEF Held
<1>3. ASSUME NEW s \in Seq(Value), \A i \in 1 .. Len(s) : Held(I, s[i]), NEW v \in Value, Held(I, v)
      PROVE  /\ Append(s, v) \in Seq(Value) /\ Len(Append(s, v)) = Len(s) + 1
             /\ \A i \in 1 .. Len(Append(s, v)) : Held(I, Append(s, v)[i])
  BY <1>3
<1>4. CASE IsList(heap, b) /\ Room(1) /\ Outputs(w, Fput(heap, a, b))
  <2> DEFINE cell == Pair(a, b)
  <2>1. cell \in Cell /\ cell # Free /\ cell.t = "cons" /\ cell.car = a /\ cell.cdr = b
    BY <1>2, <1>4, ListType, PairIs
  <2>2. Cardinality(FreeNodes(heap)) > 0 BY <1>4, RoomForOne
  <2> HIDE DEF cell
  <2>3. Output(heap, I, Make(heap, cell)) BY <1>0, <1>2, <1>4, <2>1, <2>2, MakeOutput
  <2> QED BY <1>4, <2>3 DEF Fput, cell
<1>5. CASE Ends(heap, b) /\ Room(Len(Conses(heap, b)) + 1) /\ Outputs(w, Lput(heap, a, b))
  <2> DEFINE e == Elements(heap, b) s == Append(e, a)
  <2>1. e \in Seq(Value) /\ Len(e) = Len(Conses(heap, b)) /\ \A i \in 1 .. Len(e) : Held(I, e[i])
    BY <1>0, <1>2, ListHeld
  <2> HIDE DEF e
  <2>2. s \in Seq(Value) /\ Len(s) = Len(e) + 1 /\ \A i \in 1 .. Len(s) : Held(I, s[i])
    BY <1>2, <1>3, <2>1
  <2>3. Cardinality(FreeNodes(heap)) >= Len(s) BY <1>5, <2>1, <2>2, RoomIs
  <2> HIDE DEF s
  <2>4. Output(heap, I, Copied(heap, s, Nil)) BY <1>0, <2>2, <2>3, NilHeld, CopyOutput
  <2> QED BY <1>5, <2>4 DEF Lput, s, e
<1>6. CASE Room(2) /\ Outputs(w, ListOf(heap, a, b))
  <2> DEFINE s == <<a, b>>
  <2>1. s \in Seq(Value) /\ Len(s) = 2 /\ \A i \in 1 .. Len(s) : Held(I, s[i]) BY <1>2
  <2>2. Cardinality(FreeNodes(heap)) >= Len(s) BY <1>6, <2>1, RoomIs
  <2> HIDE DEF s
  <2>3. Output(heap, I, Copied(heap, s, Nil)) BY <1>0, <2>1, <2>2, NilHeld, CopyOutput
  <2> QED BY <1>6, <2>3 DEF ListOf, s
<1>7. CASE /\ Room(Len(Words(heap, a)) + IF IsList(heap, b) THEN 0 ELSE 1)
           /\ Outputs(w, Sentence(heap, a, b))
  <2> DEFINE ws == Words(heap, a)
  <2>1. ws \in Seq(Value) /\ Len(ws) \in Nat /\ \A i \in 1 .. Len(ws) : Held(I, ws[i])
    <3>1. CASE IsList(heap, a)
      <4>1. ws = Elements(heap, a) BY <3>1 DEF Words
      <4> HIDE DEF ws
      <4> QED BY <1>0, <1>2, <4>1, ListHeld
    <3>2. CASE ~IsList(heap, a)
      <4>1. ws = <<a>> BY <3>2 DEF Words
      <4> HIDE DEF ws
      <4> QED BY <1>2, <4>1
    <3> QED BY <3>1, <3>2
  <2> HIDE DEF ws
  <2>2. CASE IsList(heap, b)
    <3>1. Cardinality(FreeNodes(heap)) >= Len(ws)
      <4>1. Room(Len(ws) + 0) BY <1>7, <2>2 DEF ws
      <4>2. Len(ws) + 0 = Len(ws) BY <2>1
      <4> QED BY <4>1, <4>2, RoomIs
    <3>2. Output(heap, I, Copied(heap, ws, b)) BY <1>0, <1>2, <2>1, <2>2, <3>1, ListType, CopyOutput
    <3> QED BY <1>7, <2>2, <3>2 DEF Sentence, ws
  <2>3. CASE ~IsList(heap, b)
    <3> DEFINE s == Append(ws, b)
    <3>1. s \in Seq(Value) /\ Len(s) = Len(ws) + 1 /\ \A i \in 1 .. Len(s) : Held(I, s[i])
      BY <1>2, <1>3, <2>1
    <3>2. Room(Len(ws) + 1) BY <1>7, <2>3 DEF ws
    <3>3. Cardinality(FreeNodes(heap)) >= Len(s) BY <3>1, <3>2, RoomIs
    <3> HIDE DEF s
    <3>4. Output(heap, I, Copied(heap, s, Nil)) BY <1>0, <3>1, <3>3, NilHeld, CopyOutput
    <3> QED BY <1>7, <2>3, <3>4 DEF Sentence, ws, s
  <2> QED BY <2>2, <2>3
<1> QED BY <1>1, <1>4, <1>5, <1>6, <1>7

LEMMA MakeArrayOutput ==
  ASSUME NEW p, NEW c, NEW I, Right(heap, val, p, c, I), NEW w \in Var, MakeArray(w)
  PROVE  \E r : Output(heap, I, r) /\ Outputs(w, r)
<1>0. heap \in Heaps /\ ListsEnd(heap) /\ Shut(heap, I) /\ I \subseteq Used(heap) /\ Shut(heap, Used(heap))
  BY RightHas
<1>1. PICK len \in 1 .. 2 : Room(1) /\ Outputs(w, NewArray(heap, len)) BY DEF MakeArray
<1> DEFINE s == [i \in 1 .. len |-> Nil] cell == Array(s)
<1>2. s \in Seq(Value) /\ \A i \in DOMAIN s : s[i] = Nil BY DEF Value
<1> HIDE DEF s
<1>3. cell \in Cell /\ cell # Free /\ cell.t = "array" /\ cell.items = s BY <1>2, ArrayIs
<1>4. Cardinality(FreeNodes(heap)) > 0 BY <1>1, RoomForOne
<1> HIDE DEF cell
<1>5. \A i \in DOMAIN cell.items : Held(I, cell.items[i]) BY <1>2, <1>3, NilHeld
<1>6. Output(heap, I, Make(heap, cell)) BY <1>0, <1>3, <1>4, <1>5, MakeOutput
<1> QED BY <1>1, <1>6 DEF NewArray, cell, s

\* An index that is the least of its kind.
LEMMA LeastOf ==
  ASSUME NEW n \in Nat, NEW at \in SUBSET (1 .. n), at # {}
  PROVE  LET i == CHOOSE i \in at : \A j \in at : i <= j
         IN i \in at /\ \A j \in at : i <= j
<1>1. at \in SUBSET Nat OBVIOUS
<1>2. \E i \in at : \A j \in at : i <= j BY <1>1, Least
<1> QED BY <1>2

LEMMA MemberIs ==
  ASSUME NEW h, NEW a, NEW l
  PROVE  LET c == Conses(h, l)
             at == {i \in 1 .. Len(c) : Equalp(h, a, Car(h, c[i]))}
         IN \/ at = {} /\ Member(h, a, l) = Nil
            \/ \E i \in at : Member(h, a, l) = c[i] /\ \A j \in at : i <= j
<1> DEFINE c == Conses(h, l) at == {i \in 1 .. Len(c) : Equalp(h, a, Car(h, c[i]))}
           k == CHOOSE i \in at : \A j \in at : i <= j
<1>1. DOMAIN c = 1 .. Len(c) /\ Len(c) \in Nat BY ConsesSpine
<1>2. Member(h, a, l) = IF at = {} THEN Nil ELSE c[k] BY <1>1 DEF Member
<1>3. at # {} => k \in at /\ \A j \in at : k <= j BY <1>1, LeastOf
<1> QED BY <1>2, <1>3

LEMMA ChooseOutput ==
  ASSUME NEW p, NEW c, NEW I, Right(heap, val, p, c, I), NEW w \in Var, Choose(w)
  PROVE  \E r : Output(heap, I, r) /\ Outputs(w, r)
<1>0. heap \in Heaps /\ ListsEnd(heap) /\ Shut(heap, I) /\ I \subseteq Used(heap) /\ Shut(heap, Used(heap))
  BY RightHas
<1>1. PICK a \in Values :
        \/ IsCons(heap, a) /\ Outputs(w, Result(heap, First(heap, a)))
        \/ IsCons(heap, a) /\ Outputs(w, Result(heap, ButFirst(heap, a)))
        \/ IsCons(heap, a) /\ Ends(heap, a) /\ Outputs(w, Result(heap, LastOf(heap, a)))
        \/ IsCons(heap, a) /\ Ends(heap, a) /\ Room(Len(Conses(heap, a))) /\ Outputs(w, ButLast(heap, a))
        \/ IsArray(heap, a) /\ \E i \in DOMAIN heap[a].items : Outputs(w, Result(heap, Item(heap, i, a)))
        \/ \E b \in Values : Outputs(w, Result(heap, Member(heap, b, a)))
  BY DEF Choose
<1>2. Held(I, a) BY ValuesHeld
<1>3. ASSUME NEW v, Held(I, v), Outputs(w, Result(heap, v)) PROVE \E r : Output(heap, I, r) /\ Outputs(w, r)
  BY <1>0, <1>3, PlainOutput
<1> DEFINE d == Conses(heap, a) e == Elements(heap, a)
<1>4. /\ e \in Seq(Value) /\ Len(e) = Len(d) /\ Len(d) \in Nat
      /\ \A i \in 1 .. Len(d) : Held(I, e[i]) /\ Held(I, d[i])
  BY <1>0, <1>2, ListHeld
<1>5. IsCons(heap, a) => Len(d) > 0
  <2>1. IsSpine(heap, a, d) /\ (Len(d) <= N => FullSpine(heap, a, d)) BY ConsesSpine
  <2>2. Len(d) = 0 => ~IsCons(heap, a) BY <2>1, NNat DEF FullSpine, After
  <2> QED BY <1>4, <2>2
<1> HIDE DEF d, e
<1>6. CASE IsCons(heap, a) /\ Outputs(w, Result(heap, First(heap, a)))
  BY <1>0, <1>2, <1>3, <1>6, ConsHeld DEF First
<1>7. CASE IsCons(heap, a) /\ Outputs(w, Result(heap, ButFirst(heap, a)))
  BY <1>0, <1>2, <1>3, <1>7, ConsHeld DEF ButFirst
<1>8. CASE IsCons(heap, a) /\ Outputs(w, Result(heap, LastOf(heap, a)))
  <2>1. Len(d) \in 1 .. Len(d) BY <1>4, <1>5, <1>8
  <2>2. LastOf(heap, a) = e[Len(d)] BY <1>4 DEF LastOf, Last, e
  <2>3. Held(I, LastOf(heap, a)) BY <1>4, <2>1, <2>2
  <2> QED BY <1>3, <1>8, <2>3
<1>9. CASE IsCons(heap, a) /\ Room(Len(d)) /\ Outputs(w, ButLast(heap, a))
  <2> DEFINE s == Front(e)
  <2>1. s \in Seq(Value) /\ Len(s) = Len(d) - 1 /\ \A i \in 1 .. Len(s) : s[i] = e[i] /\ i \in 1 .. Len(d)
    <3>1. Len(d) - 1 \in Nat BY <1>4, <1>5, <1>9
    <3>2. s = SubSeq(e, 1, Len(d) - 1) BY <1>4 DEF Front
    <3> HIDE DEF s
    <3>3. s \in Seq(Value) /\ Len(s) = Len(d) - 1 BY <1>4, <3>1, <3>2
    <3>4. \A i \in 1 .. Len(s) : s[i] = e[i] BY <1>4, <3>1, <3>2, <3>3
    <3> QED BY <1>4, <3>1, <3>3, <3>4
  <2> HIDE DEF s
  <2>2. \A i \in 1 .. Len(s) : Held(I, s[i]) BY <1>4, <2>1
  <2>3. Cardinality(FreeNodes(heap)) >= Len(s)
    <3>1. Cardinality(FreeNodes(heap)) \in Nat /\ Cardinality(FreeNodes(heap)) >= Len(d)
      BY <1>9, FreeCount, RoomIs
    <3> QED BY <1>4, <2>1, <3>1
  <2>4. Output(heap, I, Copied(heap, s, Nil)) BY <1>0, <2>1, <2>2, <2>3, NilHeld, CopyOutput
  <2> QED BY <1>9, <2>4 DEF ButLast, s, e
<1>10. CASE IsArray(heap, a) /\ \E i \in DOMAIN heap[a].items : Outputs(w, Result(heap, Item(heap, i, a)))
  <2>1. PICK i \in DOMAIN heap[a].items : Outputs(w, Result(heap, Item(heap, i, a))) BY <1>10
  <2>2. Held(I, Item(heap, i, a)) BY <1>0, <1>2, <1>10, ArrayHeld DEF Item
  <2> QED BY <1>3, <2>1, <2>2
<1>11. CASE \E b \in Values : Outputs(w, Result(heap, Member(heap, b, a)))
  <2>1. PICK b \in Values : Outputs(w, Result(heap, Member(heap, b, a))) BY <1>11
  <2>2. Member(heap, b, a) = Nil \/ \E i \in 1 .. Len(d) : Member(heap, b, a) = d[i]
    BY MemberIs DEF d
  <2>3. Held(I, Member(heap, b, a)) BY <1>4, <2>2, NilHeld
  <2> QED BY <1>3, <2>1, <2>3
<1> QED BY <1>1, <1>6, <1>7, <1>8, <1>9, <1>10, <1>11 DEF d

LEMMA ConvertOutput ==
  ASSUME NEW p, NEW c, NEW I, Right(heap, val, p, c, I), NEW w \in Var, Convert(w)
  PROVE  \E r : Output(heap, I, r) /\ Outputs(w, r)
<1>0. heap \in Heaps /\ ListsEnd(heap) /\ Shut(heap, I) /\ I \subseteq Used(heap) /\ Shut(heap, Used(heap))
  BY RightHas
<1>1. PICK a \in Values :
        \/ Ends(heap, a) /\ Room(1) /\ Outputs(w, ListToArray(heap, a))
        \/ IsArray(heap, a) /\ Room(Len(heap[a].items)) /\ Outputs(w, ArrayToList(heap, a))
        \/ /\ IsCons(heap, a) /\ Ends(heap, a) /\ Room(Len(Conses(heap, a)))
           /\ \A e \in ToSet(Elements(heap, a)) : IsCons(heap, e)
           /\ (Outputs(w, Firsts(heap, a)) \/ Outputs(w, ButFirsts(heap, a)))
  BY DEF Convert
<1>2. Held(I, a) BY ValuesHeld
<1> DEFINE d == Conses(heap, a) e == Elements(heap, a)
<1>3. /\ e \in Seq(Value) /\ Len(e) = Len(d) /\ Len(d) \in Nat /\ DOMAIN e = 1 .. Len(d)
      /\ \A i \in 1 .. Len(d) : Held(I, e[i]) /\ Held(I, d[i])
  BY <1>0, <1>2, ListHeld
<1> HIDE DEF d, e
<1>4. CASE Room(1) /\ Outputs(w, ListToArray(heap, a))
  <2> DEFINE cell == Array(e)
  <2>1. cell \in Cell /\ cell # Free /\ cell.t = "array" /\ cell.items = e BY <1>3, ArrayIs
  <2>2. Cardinality(FreeNodes(heap)) > 0 BY <1>4, RoomForOne
  <2> HIDE DEF cell
  <2>3. \A i \in DOMAIN cell.items : Held(I, cell.items[i]) BY <1>3, <2>1
  <2>4. Output(heap, I, Make(heap, cell)) BY <1>0, <2>1, <2>2, <2>3, MakeOutput
  <2> QED BY <1>4, <2>4 DEF ListToArray, cell, e
<1>5. CASE IsArray(heap, a) /\ Room(Len(heap[a].items)) /\ Outputs(w, ArrayToList(heap, a))
  <2> DEFINE s == heap[a].items
  <2>1. s \in Seq(Value) /\ \A i \in 1 .. Len(s) : Held(I, s[i]) BY <1>0, <1>2, <1>5, ArrayHeld
  <2>2. Cardinality(FreeNodes(heap)) >= Len(s) BY <1>5, RoomIs
  <2> HIDE DEF s
  <2>3. Output(heap, I, Copied(heap, s, Nil)) BY <1>0, <2>1, <2>2, NilHeld, CopyOutput
  <2> QED BY <1>5, <2>3 DEF ArrayToList, s
<1>6. CASE /\ Room(Len(d)) /\ \A v \in ToSet(e) : IsCons(heap, v)
           /\ (Outputs(w, Firsts(heap, a)) \/ Outputs(w, ButFirsts(heap, a)))
  <2>1. \A i \in 1 .. Len(d) : IsCons(heap, e[i]) /\ Held(I, Car(heap, e[i])) /\ Held(I, Cdr(heap, e[i]))
    <3>1. \A i \in 1 .. Len(d) : e[i] \in ToSet(e) BY <1>3 DEF ToSet
    <3>2. \A i \in 1 .. Len(d) : IsCons(heap, e[i]) BY <1>6, <3>1
    <3> QED BY <1>0, <1>3, <3>2, ConsHeld
  <2>2. Cardinality(FreeNodes(heap)) >= Len(d) BY <1>6, RoomIs
  <2>3. ASSUME NEW s, s \in [1 .. Len(d) -> Value], \A i \in 1 .. Len(d) : Held(I, s[i])
        PROVE  Output(heap, I, Copied(heap, s, Nil))
    <3>1. s \in Seq(Value) /\ Len(s) = Len(d) BY <1>3, <2>3
    <3> QED BY <1>0, <2>2, <2>3, <3>1, NilHeld, CopyOutput
  <2>4. CASE Outputs(w, Firsts(heap, a))
    <3> DEFINE s == [i \in DOMAIN e |-> First(heap, e[i])]
    <3>1. s = [i \in 1 .. Len(d) |-> Car(heap, e[i])] BY <1>3 DEF First
    <3>2. s \in [1 .. Len(d) -> Value] /\ \A i \in 1 .. Len(d) : Held(I, s[i])
      BY <2>1, <3>1 DEF Held
    <3>3. Firsts(heap, a) = Copied(heap, s, Nil) BY DEF Firsts, e
    <3> HIDE DEF s
    <3> QED BY <2>3, <2>4, <3>2, <3>3
  <2>5. CASE Outputs(w, ButFirsts(heap, a))
    <3> DEFINE s == [i \in DOMAIN e |-> ButFirst(heap, e[i])]
    <3>1. s = [i \in 1 .. Len(d) |-> Cdr(heap, e[i])] BY <1>3 DEF ButFirst
    <3>2. s \in [1 .. Len(d) -> Value] /\ \A i \in 1 .. Len(d) : Held(I, s[i])
      BY <2>1, <3>1 DEF Held
    <3>3. ButFirsts(heap, a) = Copied(heap, s, Nil) BY DEF ButFirsts, e
    <3> HIDE DEF s
    <3> QED BY <2>3, <2>5, <3>2, <3>3
  <2> QED BY <1>6, <2>4, <2>5
<1> QED BY <1>1, <1>4, <1>5, <1>6 DEF d, e

LEMMA PlistOutput ==
  ASSUME NEW I, Right(heap, val, plist, Conses(heap, plist), I), Room(Len(Conses(heap, plist)))
  PROVE  Output(heap, I, Plist(heap, plist))
<1>0. heap \in Heaps /\ ListsEnd(heap) /\ Shut(heap, I) /\ I \subseteq Used(heap) /\ Shut(heap, Used(heap))
  BY RightHas
<1> DEFINE d == Conses(heap, plist) e == Elements(heap, plist) l == Len(d)
<1>1. IsSpine(heap, plist, d) /\ l \in Nat BY ConsesSpine
<1>2. \A i \in 1 .. l : heap[d[i]].car \in Value
  <2>1. plist \in NODE => plist \in Used(heap) BY UsedIs, NotNode DEF Right, PlistOK, IsList, IsCons
  <2> HIDE DEF d
  <2> QED BY <1>0, <1>1, <2>1, SpineIn
<1>3. e = [i \in 1 .. l |-> heap[d[i]].car] /\ e \in Seq(Value) /\ Len(e) = l BY <1>2, ElementsAre
<1>4. \A i \in 1 .. l : heap[d[i]].car \in NODE => heap[d[i]].car \in I BY DEF Right
<1> HIDE DEF d, e, l
<1>5. \A i \in 1 .. Len(e) : Held(I, e[i]) BY <1>2, <1>3, <1>4 DEF Held
<1>6. Cardinality(FreeNodes(heap)) >= Len(e) BY <1>3, RoomIs DEF l, d
<1>7. Output(heap, I, Copied(heap, e, Nil)) BY <1>0, <1>3, <1>5, <1>6, NilHeld, CopyOutput
<1> QED BY <1>7 DEF Plist, e
----
(* Primitives that write into a cell. *)

\* One cell a is written and stays of its kind; it may point to V from then on.
Written(h, g, a, V) ==
    /\ g \in Heaps /\ a \in Used(h) /\ \A n \in NODE \ {a} : g[n] = h[n]
    /\ g[a].t = h[a].t /\ (g[a].t = "cons" => IsList(h, g[a].cdr))
    /\ Parts(g, a) \subseteq Parts(h, a) \cup V

LEMMA WriteSame ==
  ASSUME NEW h \in Heaps, NEW g, NEW a, NEW V, Written(h, g, a, V), ListsEnd(h), Shut(h, Used(h)),
         \A v \in V : v \in NODE => v \in Used(h)
  PROVE  /\ Used(g) = Used(h) /\ ListsEnd(g) /\ Shut(g, Used(g))
         /\ \A n \in NODE : g[n].t = h[n].t
         /\ \A v : (IsCons(g, v) <=> IsCons(h, v)) /\ (IsList(g, v) <=> IsList(h, v))
         /\ a \notin Found(h, V) /\ Acyclic(h, Used(h)) => Acyclic(g, Used(g))
<1>0. /\ g \in Heaps /\ a \in Used(h) /\ \A n \in NODE \ {a} : g[n] = h[n]
      /\ g[a].t = h[a].t /\ (g[a].t = "cons" => IsList(h, g[a].cdr))
      /\ Parts(g, a) \subseteq Parts(h, a) \cup V
  BY DEF Written
<1>1. \A n \in NODE : g[n].t = h[n].t BY <1>0
<1>2. \A v : (IsCons(g, v) <=> IsCons(h, v)) /\ (IsList(g, v) <=> IsList(h, v))
  BY <1>1 DEF IsCons, IsList
<1>3. Used(g) = Used(h)
  <2>1. \A n : n \in Used(g) <=> n \in Used(h) BY <1>0, <1>1, UsedIs
  <2> QED BY <2>1
<1>4. ListsEnd(g)
  <2> SUFFICES ASSUME NEW n \in NODE, g[n].t = "cons" PROVE IsList(h, g[n].cdr) BY <1>2 DEF ListsEnd
  <2> QED BY <1>0, <1>1 DEF ListsEnd
<1>5. \A n \in NODE \ {a} : Parts(g, n) = Parts(h, n) BY <1>0, SameParts
<1> DEFINE U == Used(h)
<1>6. a \in U /\ Shut(h, U) /\ \A v \in V : v \in NODE => v \in U BY <1>0
<1> HIDE DEF U
<1>7. Shut(g, U) BY <1>0, <1>5, <1>6 DEF Shut
<1>8. ASSUME a \notin Found(h, V), Acyclic(h, U) PROVE Acyclic(g, U)
  BY <1>0, <1>5, <1>6, <1>8, AcyclicWrite
<1> QED BY <1>1, <1>2, <1>3, <1>4, <1>7, <1>8 DEF U

LEMMA SpineSame ==
  ASSUME NEW h, NEW g, NEW p, NEW c, FullSpine(h, p, c), \A n \in NODE : g[n].t = h[n].t,
         \A i \in 1 .. Len(c) : g[c[i]].cdr = h[c[i]].cdr
  PROVE  FullSpine(g, p, c)
<1>1. c \in Seq(NODE) /\ Len(c) \in Nat BY DEF FullSpine, IsSpine
<1>2. IsSpine(g, p, c)
  <2>1. \A i \in 1 .. Len(c) : c[i] \in NODE BY <1>1
  <2> QED BY <2>1 DEF FullSpine, IsSpine
<1>3. After(g, p, c) = After(h, p, c)
  <2>1. CASE Len(c) = 0 BY <2>1 DEF After
  <2>2. CASE Len(c) # 0
    <3>1. Len(c) \in 1 .. Len(c) BY <1>1, <2>2
    <3> QED BY <2>2, <3>1 DEF After
  <2> QED BY <2>1, <2>2
<1> QED BY <1>2, <1>3 DEF FullSpine, IsCons

LEMMA WriteValue ==
  ASSUME NEW h, NEW x, NEW p, NEW c, NEW I, Right(h, x, p, c, I), NEW g, NEW a \in I, NEW V,
         Written(h, g, a, V), \A v \in V : Held(I, v)
  PROVE  /\ Right(g, x, p, c, I) /\ \A n \in NODE \ {a} : g[n] = h[n]
         /\ a \notin Found(h, V) /\ Acyclic(h, Used(h)) => Acyclic(g, Used(g))
<1>0. /\ h \in Heaps /\ x \in [Var -> Value] /\ p \in NODE \cup {Nil}
      /\ ListsEnd(h) /\ PlistOK(h, p, c)
      /\ Shut(h, Used(h)) /\ Shut(h, I) /\ I \subseteq Used(h)
      /\ (\A v \in Var : x[v] \in NODE => x[v] \in I)
      /\ \A i \in 1 .. Len(c) : c[i] \notin I /\ (h[c[i]].car \in NODE => h[c[i]].car \in I)
  BY DEF Right
<1>1. \A v \in V : v \in NODE => v \in I /\ v \in Used(h) BY <1>0 DEF Held
<1>2. /\ Used(g) = Used(h) /\ ListsEnd(g) /\ Shut(g, Used(g))
      /\ \A n \in NODE : g[n].t = h[n].t
      /\ \A v : (IsCons(g, v) <=> IsCons(h, v)) /\ (IsList(g, v) <=> IsList(h, v))
      /\ a \notin Found(h, V) /\ Acyclic(h, Used(h)) => Acyclic(g, Used(g))
  BY <1>0, <1>1, WriteSame
<1>3. g \in Heaps /\ (\A n \in NODE \ {a} : g[n] = h[n]) /\ Parts(g, a) \subseteq Parts(h, a) \cup V
  BY DEF Written
<1>4. Shut(g, I)
  <2>1. \A n \in I \ {a} : Parts(g, n) = Parts(h, n) BY <1>0, <1>3, SameParts DEF Shut
  <2> QED BY <1>0, <1>1, <1>3, <2>1 DEF Shut
<1>5. \A i \in 1 .. Len(c) : c[i] \in NODE /\ g[c[i]] = h[c[i]]
  <2>1. \A i \in 1 .. Len(c) : c[i] \in NODE BY <1>0 DEF PlistOK, FullSpine, IsSpine
  <2> QED BY <1>0, <1>3, <2>1
<1>6. FullSpine(g, p, c)
  <2>1. FullSpine(h, p, c) BY <1>0 DEF PlistOK
  <2> QED BY <1>2, <1>5, <2>1, SpineSame
<1>7. PlistOK(g, p, c) BY <1>0, <1>2, <1>5, <1>6 DEF PlistOK
<1>8. Right(g, x, p, c, I) BY <1>0, <1>2, <1>3, <1>4, <1>5, <1>7 DEF Right
<1> QED BY <1>2, <1>3, <1>8

\* The value of a property is written.
PropWritten(h, g, c, I, j, a, v) ==
    /\ j \in 1 .. Len(c) /\ j % 2 = 0 /\ Held(I, v) /\ a = c[j]
    /\ Written(h, g, a, {v}) /\ g[a].car = v /\ g[a].cdr = h[a].cdr

LEMMA WriteProperty ==
  ASSUME NEW h, NEW x, NEW p, NEW c, NEW I, Right(h, x, p, c, I), NEW g, NEW j, NEW a, NEW v,
         PropWritten(h, g, c, I, j, a, v)
  PROVE  /\ Right(g, x, p, c, I) /\ \A n \in NODE \ {a} : g[n] = h[n]
         /\ StaysAcyclic(h, g)
<1>a. /\ j \in 1 .. Len(c) /\ j % 2 = 0 /\ Held(I, v) /\ a = c[j]
      /\ Written(h, g, a, {v}) /\ g[a].car = v /\ g[a].cdr = h[a].cdr
  BY DEF PropWritten
<1>0. /\ h \in Heaps /\ x \in [Var -> Value] /\ p \in NODE \cup {Nil}
      /\ ListsEnd(h) /\ PlistOK(h, p, c)
      /\ Shut(h, Used(h)) /\ Shut(h, I) /\ I \subseteq Used(h)
      /\ (\A w \in Var : x[w] \in NODE => x[w] \in I)
      /\ \A i \in 1 .. Len(c) : c[i] \notin I /\ (h[c[i]].car \in NODE => h[c[i]].car \in I)
  BY DEF Right
<1>1. \A w \in {v} : w \in NODE => w \in I /\ w \in Used(h) BY <1>a, <1>0 DEF Held
<1>2. /\ Used(g) = Used(h) /\ ListsEnd(g) /\ Shut(g, Used(g))
      /\ \A n \in NODE : g[n].t = h[n].t
      /\ \A w : (IsCons(g, w) <=> IsCons(h, w)) /\ (IsList(g, w) <=> IsList(h, w))
      /\ a \notin Found(h, {v}) /\ Acyclic(h, Used(h)) => Acyclic(g, Used(g))
  BY <1>a, <1>0, <1>1, WriteSame
<1>3. g \in Heaps /\ (\A n \in NODE \ {a} : g[n] = h[n]) BY <1>a DEF Written
<1>4. a \notin I BY <1>a, <1>0
<1>5. Shut(g, I)
  <2>1. \A n \in I : Parts(g, n) = Parts(h, n) BY <1>0, <1>3, <1>4, SameParts DEF Shut
  <2> QED BY <1>0, <2>1 DEF Shut
<1>6. a \notin Found(h, {v})
  <2>1. Found(h, {v}) \subseteq I BY <1>a, <1>0, FoundLeast DEF Held, Shut
  <2> QED BY <1>4, <2>1
<1>7. FullSpine(h, p, c) /\ c \in Seq(NODE) /\ \A i \in 1 .. Len(c) : c[i] \in NODE
  BY <1>0 DEF PlistOK, FullSpine, IsSpine
<1>8. \A i \in 1 .. Len(c) : c[i] = a => i = j BY <1>a, <1>7, FullDistinct DEF Distinct
<1>9. \A i \in 1 .. Len(c) : g[c[i]].cdr = h[c[i]].cdr BY <1>a, <1>3, <1>7
<1>10. FullSpine(g, p, c) BY <1>2, <1>7, <1>9, SpineSame
<1>11. \A i \in 1 .. Len(c) : i # j => g[c[i]] = h[c[i]] BY <1>3, <1>7, <1>8
<1>12. PlistOK(g, p, c)
  <2>1. \A i \in 1 .. Len(c) : i % 2 = 1 => i # j BY <1>a
  <2>2. \A i \in 1 .. Len(c) : i % 2 = 1 => g[c[i]].car \in Word BY <1>0, <1>11, <2>1 DEF PlistOK
  <2> QED BY <1>0, <1>2, <1>10, <2>2 DEF PlistOK
<1>13. \A i \in 1 .. Len(c) : c[i] \notin I /\ (g[c[i]].car \in NODE => g[c[i]].car \in I)
  BY <1>a, <1>0, <1>11 DEF Held
<1>14. Right(g, x, p, c, I) BY <1>0, <1>2, <1>3, <1>5, <1>12, <1>13 DEF Right
<1> QED BY <1>2, <1>3, <1>6, <1>14 DEF StaysAcyclic

LEMMA ArrayWritten ==
  ASSUME NEW h \in Heaps, NEW a, IsArray(h, a), NEW i \in DOMAIN h[a].items, NEW v \in Value
  PROVE  LET g == [h EXCEPT ![a].items[i] = v] IN Written(h, g, a, {v}) /\ Parts(g, a) \subseteq Parts(h, a) \cup {v}
<1> DEFINE s == h[a].items r == [s EXCEPT ![i] = v] g == [h EXCEPT ![a].items[i] = v]
<1>1. a \in NODE /\ h[a].t = "array" /\ h[a] \in Cell /\ h[a] = Array(s) /\ s \in Seq(Value)
  BY CellKinds, FreeIs DEF IsArray, Heaps
<1>2. r \in Seq(Value) /\ DOMAIN r = DOMAIN s /\ r[i] = v /\ \A j \in DOMAIN s : j # i => r[j] = s[j]
  <2> DEFINE l == Len(s)
  <2>1. s \in [1 .. l -> Value] /\ l \in Nat /\ DOMAIN s = 1 .. l BY <1>1
  <2> HIDE DEF s, l
  <2>2. r \in [1 .. l -> Value] /\ DOMAIN r = DOMAIN s /\ r[i] = v /\ \A j \in DOMAIN s : j # i => r[j] = s[j]
    BY <2>1 DEF s
  <2> HIDE DEF r
  <2> QED BY <2>1, <2>2
<1>3. [h[a] EXCEPT !.items[i] = v] = Array(r)
  <2>1. \A b : [Array(b) EXCEPT !.items[i] = v] = Array([b EXCEPT ![i] = v]) BY DEF Array
  <2> QED BY <1>1, <2>1, Zenon
<1>4. g = [h EXCEPT ![a] = Array(r)] BY <1>1, <1>3 DEF Heaps
<1> HIDE DEF g, r
<1>5. Array(r) \in Cell /\ Array(r).t = "array" /\ Array(r).items = r BY <1>2, ArrayIs
<1>6. g \in Heaps /\ g[a] = Array(r) /\ \A n \in NODE \ {a} : g[n] = h[n]
  BY <1>1, <1>4, <1>5 DEF Heaps
<1>7. Parts(h, a) = {s[j] : j \in DOMAIN s} BY <1>1, PartsOf
<1>8. Parts(g, a) = {r[j] : j \in DOMAIN r} BY <1>1, <1>5, <1>6, PartsOf
<1> HIDE DEF s
<1>9. Parts(g, a) \subseteq Parts(h, a) \cup {v} BY <1>2, <1>7, <1>8
<1>10. a \in Used(h) /\ g[a].t = h[a].t /\ g[a].t # "cons" BY <1>1, <1>5, <1>6, UsedIs
<1>11. Written(h, g, a, {v}) BY <1>6, <1>9, <1>10 DEF Written
<1> QED BY <1>9, <1>11 DEF g, s

\* A cons is written in one of its fields.
OneField(h, g, a, v) ==
    /\ g \in Heaps /\ g[a].t = "cons" /\ \A n \in NODE \ {a} : g[n] = h[n]
    /\ \/ g[a].car = v /\ g[a].cdr = h[a].cdr
       \/ g[a].car = h[a].car /\ g[a].cdr = v /\ IsList(h, v)

LEMMA ConsWritten ==
  ASSUME NEW h \in Heaps, ListsEnd(h), NEW a, IsCons(h, a), NEW v, NEW g, OneField(h, g, a, v)
  PROVE  Written(h, g, a, {v})
<1>1. a \in NODE /\ h[a].t = "cons" /\ IsList(h, h[a].cdr) BY DEF IsCons, ListsEnd
<1>2. Parts(h, a) = {h[a].car, h[a].cdr} /\ Parts(g, a) = {g[a].car, g[a].cdr}
  BY <1>1, PartsOf DEF OneField
<1>3. a \in Used(h) BY <1>1, UsedIs
<1> QED BY <1>1, <1>2, <1>3 DEF OneField, Written

LEMMA ConsFields ==
  ASSUME NEW h \in Heaps, NEW a, IsCons(h, a), NEW v \in Value
  PROVE  /\ OneField(h, [h EXCEPT ![a].car = v], a, v) /\ [h EXCEPT ![a].car = v][a].car = v
            /\ [h EXCEPT ![a].car = v][a].cdr = h[a].cdr
         /\ IsList(h, v) => /\ OneField(h, [h EXCEPT ![a].cdr = v], a, v) /\ [h EXCEPT ![a].cdr = v][a].cdr = v
                            /\ [h EXCEPT ![a].cdr = v][a].car = h[a].car
<1>1. a \in NODE /\ h[a].t = "cons" /\ h[a] \in Cell /\ h[a] = Pair(h[a].car, h[a].cdr) /\ h[a].car \in Value
      /\ h[a].cdr \in NODE \cup {Nil}
  BY CellKinds, FreeIs DEF IsCons, Heaps
<1> DEFINE y == h[a].car z == h[a].cdr g == [h EXCEPT ![a].car = v] f == [h EXCEPT ![a].cdr = v]
<1>2. [h[a] EXCEPT !.car = v] = Pair(v, z) /\ [h[a] EXCEPT !.cdr = v] = Pair(y, v) BY <1>1 DEF Pair
<1>3. g = [h EXCEPT ![a] = Pair(v, z)] /\ f = [h EXCEPT ![a] = Pair(y, v)] BY <1>1, <1>2 DEF Heaps
<1>4. y \in Value /\ z \in NODE \cup {Nil} BY <1>1
<1> HIDE DEF y, z, g, f
<1>5. Pair(v, z) \in Cell /\ Pair(v, z).t = "cons" /\ Pair(v, z).car = v /\ Pair(v, z).cdr = z
  BY <1>4, PairIs
<1>6. g \in Heaps /\ g[a] = Pair(v, z) /\ \A n \in NODE \ {a} : g[n] = h[n]
  BY <1>1, <1>3, <1>5 DEF Heaps
<1>7. OneField(h, g, a, v) /\ g[a].car = v /\ g[a].cdr = z BY <1>5, <1>6 DEF OneField, z
<1>8. ASSUME IsList(h, v) PROVE OneField(h, f, a, v) /\ f[a].car = y /\ f[a].cdr = v
  <2>1. Pair(y, v) \in Cell /\ Pair(y, v).t = "cons" /\ Pair(y, v).car = y /\ Pair(y, v).cdr = v
    BY <1>4, <1>8, ListType, PairIs
  <2>2. f \in Heaps /\ f[a] = Pair(y, v) /\ \A n \in NODE \ {a} : f[n] = h[n]
    BY <1>1, <1>3, <2>1 DEF Heaps
  <2> QED BY <1>8, <2>1, <2>2 DEF OneField, y
<1> QED BY <1>7, <1>8 DEF g, f, y, z

\* What a step that writes into a cell that a variable leads to does.
WriteStep(I, g) ==
    \E v : \E a \in I : Held(I, v) /\ Written(heap, g, a, {v}) /\ Changed(g)

LEMMA SetItemWrites ==
  ASSUME NEW p, NEW c, NEW I, Right(heap, val, p, c, I), SetItem
  PROVE  \E g, v : \E a \in I :
                            /\ Held(I, v) /\ Written(heap, g, a, {v}) /\ Changed(g)
                            /\ a \notin Found(heap, {v}) /\ IsArray(heap, a)
<1>1. PICK a \in Values, v \in Values : IsArray(heap, a) /\ ~Circular(heap, a, v)
                  /\ \E i \in DOMAIN heap[a].items : Changed([heap EXCEPT ![a].items[i] = v])
  BY DEF SetItem
<1>2. PICK i \in DOMAIN heap[a].items : Changed([heap EXCEPT ![a].items[i] = v]) BY <1>1
<1>3. Held(I, a) /\ Held(I, v) /\ heap \in Heaps BY ValuesHeld, RightHas
<1>4. a \in I /\ v \in Value BY <1>1, <1>3 DEF Held, IsArray
<1> DEFINE g == [heap EXCEPT ![a].items[i] = v]
<1>5. Written(heap, g, a, {v}) BY <1>1, <1>3, <1>4, ArrayWritten
<1>6. a \notin Found(heap, {v}) BY <1>1 DEF Circular
<1>7. Changed(g) BY <1>2
<1> HIDE DEF g
<1> QED BY <1>1, <1>3, <1>4, <1>5, <1>6, <1>7

LEMMA DottedWrites ==
  ASSUME NEW p, NEW c, NEW I, Right(heap, val, p, c, I), Dotted PROVE \E g : WriteStep(I, g)
<1>1. PICK a \in Values, v \in Values :
        \/ IsArray(heap, a) /\ \E i \in DOMAIN heap[a].items : Changed([heap EXCEPT ![a].items[i] = v])
        \/ IsCons(heap, a) /\ Changed([heap EXCEPT ![a].car = v])
        \/ IsCons(heap, a) /\ IsList(heap, v) /\ Changed([heap EXCEPT ![a].cdr = v])
  BY DEF Dotted
<1>2. Held(I, a) /\ Held(I, v) /\ heap \in Heaps /\ ListsEnd(heap) BY ValuesHeld, RightHas
<1>3. a \in I /\ v \in Value BY <1>1, <1>2 DEF Held, IsArray, IsCons
<1>4. CASE IsArray(heap, a) /\ \E i \in DOMAIN heap[a].items : Changed([heap EXCEPT ![a].items[i] = v])
  <2>1. PICK i \in DOMAIN heap[a].items : Changed([heap EXCEPT ![a].items[i] = v]) BY <1>4
  <2>2. Written(heap, [heap EXCEPT ![a].items[i] = v], a, {v}) BY <1>2, <1>3, <1>4, ArrayWritten
  <2> QED BY <1>2, <1>3, <2>1, <2>2 DEF WriteStep
<1>5. CASE IsCons(heap, a) /\ Changed([heap EXCEPT ![a].car = v])
  <2> DEFINE g == [heap EXCEPT ![a].car = v]
  <2>1. OneField(heap, g, a, v) BY <1>2, <1>3, <1>5, ConsFields, Zenon
  <2>2. Changed(g) BY <1>5
  <2> HIDE DEF g
  <2>3. Written(heap, g, a, {v}) BY <1>2, <1>5, <2>1, ConsWritten
  <2> QED BY <1>2, <1>3, <2>2, <2>3 DEF WriteStep
<1>6. CASE IsCons(heap, a) /\ IsList(heap, v) /\ Changed([heap EXCEPT ![a].cdr = v])
  <2> DEFINE g == [heap EXCEPT ![a].cdr = v]
  <2>1. OneField(heap, g, a, v) BY <1>2, <1>3, <1>6, ConsFields, Zenon
  <2>2. Changed(g) BY <1>6
  <2> HIDE DEF g
  <2>3. Written(heap, g, a, {v}) BY <1>2, <1>6, <2>1, ConsWritten
  <2> QED BY <1>2, <1>3, <2>2, <2>3 DEF WriteStep
<1> QED BY <1>1, <1>4, <1>5, <1>6
----
(* Properties. *)

\* The place of the first name like n, or that there is none.
IsFirst(h, c, n, i) ==
    /\ i \in 1 .. Len(c) /\ i % 2 = 1 /\ SameWord(n, h[c[i]].car)
    /\ \A j \in 1 .. Len(c) : j % 2 = 1 /\ SameWord(n, h[c[j]].car) => i <= j
NoneOf(h, c, n) == \A j \in 1 .. Len(c) : j % 2 = 1 => ~SameWord(n, h[c[j]].car)

GotNone(h, p, c, n) == NoneOf(h, c, n) /\ GetProp(h, p, n, FALSE) = Nil /\ GetProp(h, p, n, TRUE) = Nil
GotAt(h, p, c, n, i) ==
    /\ IsFirst(h, c, n, i) /\ GetProp(h, p, n, FALSE) = c[i]
    /\ GetProp(h, p, n, TRUE) = IF i = 1 THEN Nil ELSE c[i - 2]

LEMMA GetPropIs ==
  ASSUME NEW h, NEW p, NEW n, NEW c, FullSpine(h, p, c)
  PROVE  GotNone(h, p, c, n) \/ \E i : GotAt(h, p, c, n, i)
<1> DEFINE at == {i \in 1 .. Len(c) : i % 2 = 1 /\ SameWord(n, h[c[i]].car)}
           k == CHOOSE i \in at : \A j \in at : i <= j
<1>1. Conses(h, p) = c /\ c \in Seq(NODE) /\ DOMAIN c = 1 .. Len(c) /\ Len(c) \in Nat
  <2>1. Conses(h, p) = c /\ c \in Seq(NODE) /\ Len(c) \in Nat BY FullDistinct
  <2> QED BY <2>1
<1>2. \A b \in BOOLEAN : GetProp(h, p, n, b) = IF at = {} THEN Nil ELSE IF ~b THEN c[k] ELSE IF k = 1 THEN Nil ELSE c[k - 2]
  BY <1>1 DEF GetProp, Car
<1>3. CASE at = {}
  <2>1. NoneOf(h, c, n) BY <1>3 DEF NoneOf
  <2> HIDE DEF at, k
  <2>2. \A b \in BOOLEAN : GetProp(h, p, n, b) = Nil BY <1>2, <1>3
  <2> QED BY <2>1, <2>2 DEF GotNone
<1>4. CASE at # {}
  <2>1. k \in at /\ \A j \in at : k <= j BY <1>1, <1>4, LeastOf
  <2> HIDE DEF k
  <2>2. IsFirst(h, c, n, k) BY <2>1 DEF IsFirst
  <2> HIDE DEF at
  <2>3. GetProp(h, p, n, FALSE) = c[k] /\ GetProp(h, p, n, TRUE) = IF k = 1 THEN Nil ELSE c[k - 2]
    BY <1>2, <1>4
  <2> QED BY <2>2, <2>3 DEF GotAt
<1> QED BY <1>3, <1>4

\* Every name has its value behind it.
LEMMA NextIs ==
  ASSUME NEW h, NEW p, NEW c, PlistOK(h, p, c)
  PROVE  /\ c \in Seq(NODE) /\ Len(c) \in Nat /\ Distinct(c)
         /\ \A i \in 1 .. Len(c) : c[i] \in NODE /\ IsCons(h, c[i]) /\ (i < Len(c) => h[c[i]].cdr = c[i + 1])
         /\ \A i \in 1 .. Len(c) : i % 2 = 1 => i + 1 \in 1 .. Len(c) /\ (i + 1) % 2 = 0 /\ h[c[i]].cdr = c[i + 1]
         /\ Len(c) > 0 => p = c[1]
<1>1. c \in Seq(NODE) /\ Len(c) \in Nat /\ Distinct(c) BY FullDistinct DEF PlistOK
<1>2. /\ \A i \in 1 .. Len(c) : h[c[i]].t = "cons" /\ (i < Len(c) => h[c[i]].cdr = c[i + 1])
      /\ Len(c) > 0 => p = c[1]
  BY DEF PlistOK, FullSpine, IsSpine
<1>3. \A i \in 1 .. Len(c) : c[i] \in NODE /\ IsCons(h, c[i]) BY <1>1, <1>2 DEF IsCons
<1> DEFINE l == Len(c)
<1>4. l % 2 = 0 /\ l \in Nat BY <1>1 DEF PlistOK
<1> HIDE DEF l
<1>5. \A i \in 1 .. l : i % 2 = 1 => i + 1 \in 1 .. l /\ (i + 1) % 2 = 0 /\ i < l BY <1>4
<1> QED BY <1>1, <1>2, <1>3, <1>5 DEF l

LEMMA PropertyIs ==
  ASSUME NEW h, NEW p, NEW n, NEW c, PlistOK(h, p, c)
  PROVE  \/ NoneOf(h, c, n) /\ Property(h, p, n) = Nil
         \/ \E i : IsFirst(h, c, n, i) /\ Property(h, p, n) = h[c[i + 1]].car
<1>0. FullSpine(h, p, c) /\ FALSE \in BOOLEAN BY DEF PlistOK
<1>1. CASE NoneOf(h, c, n) /\ GetProp(h, p, n, FALSE) = Nil BY <1>1 DEF Property
<1>2. ASSUME NEW i, IsFirst(h, c, n, i), GetProp(h, p, n, FALSE) = c[i]
      PROVE  Property(h, p, n) = h[c[i + 1]].car
  <2>1. i \in 1 .. Len(c) /\ i % 2 = 1 BY <1>2 DEF IsFirst
  <2>2. c[i] \in NODE /\ h[c[i]].cdr = c[i + 1] BY <2>1, NextIs
  <2> QED BY <1>2, <2>2, NotNode DEF Property, Car, Cdr
<1> QED BY <1>0, <1>1, <1>2, GetPropIs DEF GotNone, GotAt

\* What PPROP and REMPROP do to the names and values of a property list.
PutAt(h, c, g, d, i, v) ==
    /\ Len(d) = Len(c) /\ g[d[i + 1]].car = v
    /\ \A j \in 1 .. Len(c) : j # i + 1 => g[d[j]].car = h[c[j]].car
PutBefore(h, c, g, d, n, v) ==
    /\ Len(d) = Len(c) + 2 /\ g[d[1]].car = n /\ g[d[2]].car = v
    /\ \A j \in 1 .. Len(c) : g[d[j + 2]].car = h[c[j]].car
Without(h, c, g, d, i) ==
    /\ Len(d) = Len(c) - 2
    /\ \A j \in 1 .. Len(d) : g[d[j]].car = IF j < i THEN h[c[j]].car ELSE h[c[j + 2]].car

\* A heap g in which the property list begins at q and has the conses d.
Leads(g, q, d, I) ==
    /\ Right(g, val, q, d, I) /\ heap' = Swept(g, val, q) /\ plist' = q
    /\ \A n \in I : g[n] = heap[n]
    /\ StaysAcyclic(heap, g)

LEMMA PpropOld ==
  ASSUME NEW c, NEW I, Right(heap, val, plist, c, I), NEW n \in Word, NEW v \in Values, Pprop(n, v),
         NEW i, IsFirst(heap, c, n, i), GetProp(heap, plist, n, FALSE) = c[i]
  PROVE  \E g : Leads(g, plist, c, I) /\ PutAt(heap, c, g, c, i, v)
<1>1. PlistOK(heap, plist, c) /\ heap \in Heaps /\ ListsEnd(heap) /\ Shut(heap, I)
      /\ \A k \in 1 .. Len(c) : c[k] \notin I
  BY DEF Right
<1> DEFINE j == i + 1 g == [heap EXCEPT ![c[j]].car = v]
<1>2. i \in 1 .. Len(c) /\ i % 2 = 1 BY DEF IsFirst
<1>3. j \in 1 .. Len(c) /\ j % 2 = 0 /\ heap[c[i]].cdr = c[j] /\ c[i] \in NODE BY <1>1, <1>2, NextIs
<1>4. Held(I, v) BY ValuesHeld
<1>5. heap' = Swept([heap EXCEPT ![Cdr(heap, c[i])].car = v], val, plist) /\ plist' = plist
  BY <1>3, NotNode DEF Pprop
<1>6. heap' = Swept(g, val, plist) BY <1>3, <1>5 DEF Cdr
<1> HIDE DEF j
<1>7. IsCons(heap, c[j]) /\ c[j] \in NODE /\ v \in Value BY <1>1, <1>3, <1>4, NextIs DEF Held
<1> DEFINE a == c[j]
<1>a. IsCons(heap, a) /\ a \in NODE /\ v \in Value /\ heap \in Heaps /\ ListsEnd(heap) BY <1>1, <1>7
<1> HIDE DEF a
<1> DEFINE f == [heap EXCEPT ![a].car = v]
<1>b. OneField(heap, f, a, v) /\ f[a].car = v /\ f[a].cdr = heap[a].cdr
  <2> HIDE DEF g
  <2>1. OneField(heap, f, a, v) BY <1>a, ConsFields, Zenon
  <2>2. heap[a] = Pair(heap[a].car, heap[a].cdr) /\ a \in NODE
    BY <1>a, CellKinds, FreeIs DEF Heaps, IsCons
  <2>3. f[a] = [heap[a] EXCEPT !.car = v] BY <1>a DEF Heaps
  <2>4. [heap[a] EXCEPT !.car = v] = Pair(v, heap[a].cdr) BY <2>2 DEF Pair
  <2> HIDE DEF f
  <2>5. f[a].car = v /\ f[a].cdr = heap[a].cdr BY <2>3, <2>4, PairIs
  <2> QED BY <2>1, <2>5
<1>d. f = g BY DEF a
<1> HIDE DEF f, g
<1>c. Written(heap, g, a, {v}) /\ g[a].car = v /\ g[a].cdr = heap[a].cdr
  BY <1>a, <1>b, <1>d, ConsWritten
<1>e. a = c[j] BY DEF a
<1>9. Right(g, val, plist, c, I) /\ StaysAcyclic(heap, g) /\ \A m \in NODE \ {a} : g[m] = heap[m]
  <2>1. PropWritten(heap, g, c, I, j, a, v) BY <1>3, <1>4, <1>c, <1>e DEF PropWritten
  <2> QED BY <2>1, WriteProperty
<1>10. \A m \in I : g[m] = heap[m] BY <1>1, <1>3, <1>9, <1>e DEF Shut
<1>11. Leads(g, plist, c, I) BY <1>5, <1>6, <1>9, <1>10 DEF Leads
<1>12. PutAt(heap, c, g, c, i, v)
  <2>1. \A k \in 1 .. Len(c) : k # j => c[k] # c[j] /\ c[k] \in NODE
    BY <1>1, <1>3, NextIs DEF Distinct
  <2>2. \A k \in 1 .. Len(c) : k # j => g[c[k]].car = heap[c[k]].car BY <1>9, <1>e, <2>1
  <2> QED BY <1>c, <1>e, <2>2 DEF PutAt, j
<1> QED BY <1>11, <1>12

\* Two fresh conses before the property list.
Before(h, g, a, b, n, v, p) ==
    /\ g \in Heaps /\ a \in NODE /\ b \in NODE /\ a # b /\ h[a] = Free /\ h[b] = Free
    /\ g[a] = Pair(n, b) /\ g[b] = Pair(v, p)
    /\ \A m \in NODE \ {a, b} : g[m] = h[m]

LEMMA CopyTwo ==
  ASSUME NEW h \in Heaps, NEW n \in Value, NEW v \in Value, NEW p \in NODE \cup {Nil}, Cardinality(FreeNodes(h)) >= 2
  PROVE  \E b : Before(h, Copied(h, <<n, v>>, p).h, Copied(h, <<n, v>>, p).v, b, n, v, p)
<1> DEFINE s == <<n, v>> r == Copied(h, s, p)
<1>1. s \in Seq(Value) /\ Len(s) = 2 /\ s[1] = n /\ s[2] = v OBVIOUS
<1> HIDE DEF s
<1>a. Cardinality(FreeNodes(h)) >= Len(s) BY <1>1
<1>b. PICK c : Copies(h, s, p, r, c) BY <1>1, <1>a, CopiedIs
<1> HIDE DEF r
<1>2. /\ c \in Seq(NODE) /\ Len(c) = Len(s) /\ Distinct(c)
      /\ \A i \in 1 .. Len(s) :
            h[c[i]] = Free /\ r.h[c[i]] = Pair(s[i], IF i = Len(s) THEN p ELSE c[i + 1])
      /\ \A m \in NODE : (\A i \in 1 .. Len(s) : c[i] # m) => r.h[m] = h[m]
      /\ r.v = IF Len(s) = 0 THEN p ELSE c[1]
  BY <1>b DEF Copies
<1>3. r.h \in Heaps BY <1>b DEF Copies
<1> DEFINE a == c[1] b == c[2]
<1>4. Len(c) = 2 /\ a \in NODE /\ b \in NODE /\ r.v = a /\ \A i \in 1 .. 2 : i = 1 \/ i = 2
  <2>1. Len(c) = 2 BY <1>1, <1>2
  <2>2. r.v = a BY <1>1, <1>2
  <2>3. \A i \in 1 .. Len(c) : c[i] \in NODE BY <1>2
  <2> HIDE DEF a, b
  <2>4. a \in NODE /\ b \in NODE BY <2>1, <2>3 DEF a, b
  <2> QED BY <2>1, <2>2, <2>4
<1>5. a # b BY <1>4, <1>2 DEF Distinct
<1>6. h[a] = Free /\ h[b] = Free /\ r.h[a] = Pair(n, b) /\ r.h[b] = Pair(v, p) BY <1>1, <1>2
<1>7. \A m \in NODE \ {a, b} : r.h[m] = h[m] BY <1>1, <1>2, <1>4
<1>8. Before(h, r.h, r.v, b, n, v, p) BY <1>3, <1>4, <1>5, <1>6, <1>7 DEF Before
<1> QED BY <1>8 DEF r, s

LEMMA BeforeLeads ==
  ASSUME NEW c, NEW I, NEW h, NEW x, NEW p, Right(h, x, p, c, I), NEW g, NEW a, NEW b, NEW n \in Word, NEW v, Held(I, v),
         Before(h, g, a, b, n, v, p)
  PROVE  \E d : /\ Right(g, x, a, d, I) /\ (\A m \in I : g[m] = h[m]) /\ StaysAcyclic(h, g)
                /\ PutBefore(h, c, g, d, n, v)
<1>0. /\ h \in Heaps /\ x \in [Var -> Value] /\ p \in NODE \cup {Nil}
      /\ ListsEnd(h) /\ PlistOK(h, p, c)
      /\ Shut(h, Used(h)) /\ Shut(h, I) /\ I \subseteq Used(h)
      /\ (\A w \in Var : x[w] \in NODE => x[w] \in I)
      /\ \A i \in 1 .. Len(c) : c[i] \notin I /\ (h[c[i]].car \in NODE => h[c[i]].car \in I)
  BY DEF Right
<1>1. /\ g \in Heaps /\ a \in NODE /\ b \in NODE /\ a # b /\ h[a] = Free /\ h[b] = Free
      /\ g[a] = Pair(n, b) /\ g[b] = Pair(v, p)
      /\ \A m \in NODE \ {a, b} : g[m] = h[m]
  BY DEF Before
<1> DEFINE U == Used(h) l == Len(c)
<1>2. /\ g[a].t = "cons" /\ g[a].car = n /\ g[a].cdr = b /\ g[b].t = "cons" /\ g[b].car = v /\ g[b].cdr = p
      /\ g[a] # Free /\ g[b] # Free
  BY <1>1, PairIs
<1>3. a \notin U /\ b \notin U /\ U \subseteq NODE /\ \A m \in U : g[m] = h[m] BY <1>1 DEF Used
<1>4. Used(g) = U \cup {a, b}
  <2>1. \A m \in NODE : g[m] # Free <=> h[m] # Free \/ m \in {a, b} BY <1>1, <1>2
  <2> QED BY <1>1, <2>1 DEF Used
<1>5. p \in NODE => p \in U /\ h[p].t = "cons" /\ g[p].t = "cons"
  BY <1>0, <1>3, UsedIs, NotNode DEF PlistOK, IsList, IsCons
<1>6. PlistOK(g, p, c) /\ (\A i \in 1 .. l : c[i] \in U /\ g[c[i]] = h[c[i]])
  BY <1>0, <1>1, <1>3, PlistFrame
<1>7. Parts(g, a) = {n, b} /\ Parts(g, b) = {v, p} /\ n \notin NODE /\ (v \in NODE => v \in U)
  BY <1>0, <1>1, <1>2, PartsOf, NotNode DEF Held
<1>8. \A m \in U : Parts(g, m) = Parts(h, m) BY <1>3, SameParts
<1>9. Shut(h, U) BY <1>0
<1>10. Shut(g, I) /\ \A m \in I : g[m] = h[m]
  <2>1. \A m \in I : g[m] = h[m] /\ Parts(g, m) = Parts(h, m) BY <1>0, <1>3, <1>8
  <2> QED BY <1>0, <2>1 DEF Shut
<1>11. ListsEnd(g)
  <2> SUFFICES ASSUME NEW m \in NODE, g[m].t = "cons" PROVE IsList(g, g[m].cdr) BY DEF ListsEnd
  <2>1. CASE m = a BY <1>1, <1>2, <2>1 DEF IsList, IsCons
  <2>2. CASE m = b BY <1>0, <1>2, <1>5, <2>2 DEF IsList, IsCons
  <2>3. CASE m \notin {a, b}
    <3>1. g[m] = h[m] /\ IsList(h, h[m].cdr) BY <1>0, <1>1, <2>3 DEF ListsEnd
    <3> DEFINE d == h[m].cdr
    <3>2. d = Nil \/ (d \in NODE /\ h[d].t = "cons") BY <3>1 DEF IsList, IsCons
    <3>3. d \in NODE => d \notin {a, b} BY <1>1, <3>2, FreeIs, NotNode
    <3>4. IsList(g, d) BY <1>1, <3>2, <3>3 DEF IsList, IsCons
    <3> QED BY <3>1, <3>4
  <2> QED BY <2>1, <2>2, <2>3
<1> HIDE DEF U
<1>12. Shut(g, U \cup {a, b})
  <2>1. \A m \in U \cup {a, b} : \A k \in Parts(g, m) : k \in NODE => k \in U \cup {a, b}
    BY <1>5, <1>7, <1>8, <1>9 DEF Shut
  <2> QED BY <1>1, <1>3, <2>1 DEF Shut
<1>13. ASSUME Acyclic(h, U) PROVE Acyclic(g, U \cup {a, b})
  <2> DEFINE D == {a, b}
  <2>1. Shut(g, U) BY <1>8, <1>9 DEF Shut
  <2>2. Shut(g, U \cup {b}) BY <1>1, <1>5, <1>7, <2>1 DEF Shut
  <2>3. \A m \in D : \E T : Shut(g, T) /\ m \notin T /\ \A k \in Parts(g, m) : k \in NODE => k \in T
    <3>1. a \notin U \cup {b} /\ \A k \in Parts(g, a) : k \in NODE => k \in U \cup {b}
      BY <1>1, <1>3, <1>7
    <3>2. b \notin U /\ \A k \in Parts(g, b) : k \in NODE => k \in U BY <1>3, <1>5, <1>7
    <3> QED BY <2>1, <2>2, <3>1, <3>2
  <2>4. D \subseteq NODE /\ \A m \in D : \A k \in Parts(g, m) : k \in NODE => k \in U \cup D
    BY <1>1, <1>5, <1>7
  <2> HIDE DEF D
  <2>5. Acyclic(g, U \cup D) BY <1>8, <1>9, <1>13, <2>3, <2>4, AcyclicFresh
  <2> QED BY <2>5 DEF D
<1> DEFINE d == [i \in 1 .. l + 2 |-> IF i = 1 THEN a ELSE IF i = 2 THEN b ELSE c[i - 2]]
<1>14. /\ c \in Seq(NODE) /\ l \in Nat /\ l % 2 = 0 /\ FullSpine(g, p, c)
       /\ \A i \in 1 .. l : c[i] \in NODE /\ IsCons(g, c[i]) /\ (i < l => g[c[i]].cdr = c[i + 1])
       /\ l > 0 => p = c[1]
  <2>1. FullSpine(g, p, c) /\ l % 2 = 0 BY <1>6 DEF PlistOK
  <2> QED BY <1>6, <2>1, NextIs
<1>15. ~IsCons(g, After(g, p, c)) /\ IsSpine(g, p, c) BY <1>14 DEF FullSpine
<1> HIDE DEF l
<1>16. d \in Seq(NODE) /\ Len(d) = l + 2 /\ d[1] = a /\ d[2] = b
       /\ (\A i \in 1 .. l : d[i + 2] = c[i]) /\ (\A i \in 3 .. l + 2 : i - 2 \in 1 .. l /\ d[i] = c[i - 2])
  <2>1. \A i \in 1 .. l + 2 : i = 1 \/ i = 2 \/ i - 2 \in 1 .. l BY <1>14
  <2>2. d \in [1 .. l + 2 -> NODE] BY <1>1, <1>14, <2>1
  <2>3. d \in Seq(NODE) /\ Len(d) = l + 2
    <3> HIDE DEF d
    <3> QED BY <1>14, <2>2
  <2>4. (\A i \in 1 .. l : i + 2 \in 1 .. l + 2 /\ i + 2 # 1 /\ i + 2 # 2 /\ (i + 2) - 2 = i)
        /\ (\A i \in 3 .. l + 2 : i \in 1 .. l + 2 /\ i - 2 \in 1 .. l /\ i # 1 /\ i # 2)
        /\ 1 \in 1 .. l + 2 /\ 2 \in 1 .. l + 2
    BY <1>14
  <2> QED BY <2>3, <2>4
<1> HIDE DEF d
<1>17. FullSpine(g, a, d)
  <2>1. \A i \in 1 .. l + 2 : g[d[i]].t = "cons" /\ (i < l + 2 => d[i + 1] = g[d[i]].cdr)
    <3> SUFFICES ASSUME NEW i \in 1 .. l + 2 PROVE g[d[i]].t = "cons" /\ (i < l + 2 => d[i + 1] = g[d[i]].cdr)
      OBVIOUS
    <3>1. CASE i = 1 BY <1>2, <1>16, <3>1
    <3>2. CASE i = 2
      <4>1. i < l + 2 => l > 0 /\ 3 \in 3 .. l + 2 /\ d[3] = c[1] BY <1>14, <1>16, <3>2
      <4> QED BY <1>2, <1>14, <1>16, <3>2, <4>1
    <3>3. CASE i \in 3 .. l + 2
      <4> DEFINE k == i - 2
      <4>1. k \in 1 .. l /\ d[i] = c[k] BY <1>16, <3>3
      <4>2. i < l + 2 => k < l /\ i + 1 \in 3 .. l + 2 /\ (i + 1) - 2 = k + 1 BY <1>14, <3>3
      <4>3. i < l + 2 => d[i + 1] = c[k + 1] BY <1>16, <4>2
      <4> HIDE DEF k
      <4> QED BY <1>14, <4>1, <4>2, <4>3 DEF IsCons
    <3> QED BY <1>14, <3>1, <3>2, <3>3
  <2>2. IsSpine(g, a, d) BY <1>16, <2>1 DEF IsSpine
  <2>3. After(g, a, d) = After(g, p, c)
    <3>1. After(g, a, d) = g[d[l + 2]].cdr BY <1>14, <1>16 DEF After
    <3>2. CASE l = 0 BY <1>2, <1>16, <3>1, <3>2 DEF After, l
    <3>3. CASE l # 0
      <4>1. l \in 1 .. l BY <1>14, <3>3
      <4>2. d[l + 2] = c[l] BY <1>16, <4>1
      <4> QED BY <3>1, <3>3, <4>2 DEF After, l
    <3> QED BY <3>2, <3>3
  <2> QED BY <1>15, <2>2, <2>3 DEF FullSpine
<1>18. \A i \in 1 .. l + 2 : g[d[i]].car = IF i = 1 THEN n ELSE IF i = 2 THEN v ELSE h[c[i - 2]].car
  <2> SUFFICES ASSUME NEW i \in 1 .. l + 2
               PROVE  g[d[i]].car = IF i = 1 THEN n ELSE IF i = 2 THEN v ELSE h[c[i - 2]].car
    OBVIOUS
  <2>1. i = 1 \/ i = 2 \/ i \in 3 .. l + 2 BY <1>14
  <2>2. i \in 3 .. l + 2 => g[d[i]] = h[c[i - 2]] BY <1>6, <1>16 DEF l
  <2> QED BY <1>2, <1>16, <2>1, <2>2
<1>19. PlistOK(g, a, d)
  <2>1. IsList(g, a) /\ Len(d) % 2 = 0 BY <1>1, <1>2, <1>14, <1>16 DEF IsList, IsCons
  <2>2. \A i \in 1 .. l + 2 : i % 2 = 1 => i = 1 \/ (i \in 3 .. l + 2 /\ i - 2 \in 1 .. l /\ (i - 2) % 2 = 1)
    BY <1>14
  <2>3. \A i \in 1 .. l : i % 2 = 1 => h[c[i]].car \in Word BY <1>0 DEF PlistOK, l
  <2>4. \A i \in 1 .. l + 2 : i % 2 = 1 => g[d[i]].car \in Word BY <1>18, <2>2, <2>3
  <2> QED BY <1>16, <1>17, <2>1, <2>4 DEF PlistOK
<1>20. \A i \in 1 .. Len(d) : d[i] \notin I /\ (g[d[i]].car \in NODE => g[d[i]].car \in I)
  <2> SUFFICES ASSUME NEW i \in 1 .. l + 2 PROVE d[i] \notin I /\ (g[d[i]].car \in NODE => g[d[i]].car \in I)
    BY <1>16
  <2>1. a \notin I /\ b \notin I BY <1>0, <1>3 DEF U
  <2>2. CASE i = 1 BY <1>16, <1>18, <2>1, <2>2, NotNode
  <2>3. CASE i = 2 BY <1>16, <1>18, <2>1, <2>3 DEF Held
  <2>4. CASE i \in 3 .. l + 2 BY <1>0, <1>6, <1>16, <2>4 DEF l
  <2> QED BY <1>14, <2>2, <2>3, <2>4
<1>21. Right(g, x, a, d, I)
  <2>1. I \subseteq Used(g) /\ Shut(g, Used(g)) BY <1>0, <1>4, <1>12 DEF U
  <2> QED BY <1>0, <1>1, <1>10, <1>11, <1>19, <1>20, <2>1 DEF Right
<1>22. StaysAcyclic(h, g) BY <1>4, <1>13 DEF StaysAcyclic, U
<1>23. PutBefore(h, c, g, d, n, v)
  <2>1. \A i \in 1 .. l : g[d[i + 2]].car = h[c[i]].car BY <1>6, <1>16 DEF l
  <2>2. g[d[1]].car = n /\ g[d[2]].car = v BY <1>2, <1>16
  <2> QED BY <1>16, <2>1, <2>2 DEF PutBefore, l
<1> QED BY <1>10, <1>21, <1>22, <1>23

LEMMA PpropNew ==
  ASSUME NEW c, NEW I, Right(heap, val, plist, c, I), NEW n \in Word, NEW v \in Values, Pprop(n, v),
         GetProp(heap, plist, n, FALSE) = Nil
  PROVE  \E g, q, d : Leads(g, q, d, I) /\ PutBefore(heap, c, g, d, n, v)
<1> DEFINE r == Copied(heap, <<n, v>>, plist)
<1>1. Room(2) /\ plist' = r.v /\ heap' = Swept(r.h, val, plist') BY DEF Pprop
<1>2. heap \in Heaps /\ plist \in NODE \cup {Nil} /\ Held(I, v) /\ n \in Value /\ v \in Value
  BY ValuesHeld DEF Right, Held, Value
<1>3. PICK b : Before(heap, r.h, r.v, b, n, v, plist) BY <1>1, <1>2, RoomIs, CopyTwo
<1> HIDE DEF r
<1> DEFINE g == r.h q == r.v
<1>4. Before(heap, g, q, b, n, v, plist) /\ plist' = q /\ heap' = Swept(g, val, q) BY <1>1, <1>3
<1> HIDE DEF g, q
<1>5. PICK d : /\ Right(g, val, q, d, I) /\ (\A m \in I : g[m] = heap[m]) /\ StaysAcyclic(heap, g)
               /\ PutBefore(heap, c, g, d, n, v)
  BY <1>2, <1>4, BeforeLeads
<1> QED BY <1>4, <1>5 DEF Leads

\* The conses of a property list without the ith and the one after it.
Cut(c, i) == [j \in 1 .. Len(c) - 2 |-> IF j < i THEN c[j] ELSE c[j + 2]]
CutHeap(h, g, c, i) ==
    /\ \A m \in NODE : g[m].t = h[m].t
    /\ \A k \in 1 .. Len(c) : /\ g[c[k]].car = h[c[k]].car
                              /\ g[c[k]].cdr = IF k = i - 1 THEN h[c[i + 1]].cdr ELSE h[c[k]].cdr

CutOf(c, d) == \A j \in 1 .. Len(d) : \E k \in 1 .. Len(c) : d[j] = c[k] /\ (j % 2 = 1 => k % 2 = 1)

LEMMA CutSpine ==
  ASSUME NEW h, NEW p, NEW c, PlistOK(h, p, c), NEW i \in 1 .. Len(c), i % 2 = 1, NEW g, CutHeap(h, g, c, i),
         NEW q, q = IF i = 1 THEN h[c[i + 1]].cdr ELSE p, IsList(h, h[c[i + 1]].cdr)
  PROVE  PlistOK(g, q, Cut(c, i)) /\ Without(h, c, g, Cut(c, i), i) /\ CutOf(c, Cut(c, i))
<1> DEFINE l == Len(c) d == Cut(c, i) w == h[c[i + 1]].cdr
<1>1. /\ c \in Seq(NODE) /\ l \in Nat
      /\ \A k \in 1 .. l : c[k] \in NODE /\ IsCons(h, c[k]) /\ (k < l => h[c[k]].cdr = c[k + 1])
      /\ i + 1 \in 1 .. l
      /\ l > 0 => p = c[1]
  BY NextIs
<1>2. /\ ~IsCons(h, After(h, p, c)) /\ IsList(h, p) /\ l % 2 = 0
      /\ \A k \in 1 .. l : k % 2 = 1 => h[c[k]].car \in Word
  BY DEF PlistOK, FullSpine
<1>3. /\ \A m \in NODE : g[m].t = h[m].t
      /\ \A k \in 1 .. l : g[c[k]].car = h[c[k]].car /\ g[c[k]].cdr = IF k = i - 1 THEN w ELSE h[c[k]].cdr
  BY DEF CutHeap
<1>4. After(h, p, c) = h[c[l]].cdr BY <1>1 DEF After
<1>5. d = [j \in 1 .. l - 2 |-> IF j < i THEN c[j] ELSE c[j + 2]] BY DEF Cut
<1>a. i \in 1 .. l /\ IsList(h, w) /\ q = IF i = 1 THEN w ELSE p OBVIOUS
<1> HIDE DEF l, d, w
<1>6. d \in Seq(NODE) /\ Len(d) = l - 2 /\ l - 2 \in Nat
  <2>1. l - 2 \in Nat /\ \A j \in 1 .. l - 2 : j \in 1 .. l /\ j + 2 \in 1 .. l BY <1>1
  <2>2. d \in [1 .. l - 2 -> NODE] BY <1>1, <1>5, <2>1
  <2> QED BY <2>1, <2>2
<1>7. ASSUME NEW j \in 1 .. l - 2
      PROVE  /\ j < i => d[j] = c[j] /\ j \in 1 .. l
             /\ ~(j < i) => d[j] = c[j + 2] /\ j + 2 \in 1 .. l /\ j + 2 # i - 1
             /\ d[j] \in NODE /\ IsCons(g, d[j])
  <2>1. j \in 1 .. l /\ j + 2 \in 1 .. l /\ (~(j < i) => j + 2 # i - 1) BY <1>1
  <2>2. d[j] = IF j < i THEN c[j] ELSE c[j + 2] BY <1>5
  <2> QED BY <1>1, <1>3, <2>1, <2>2 DEF IsCons
<1>8. ASSUME NEW j \in 1 .. l - 2, j < l - 2 PROVE d[j + 1] = g[d[j]].cdr
  <2>0. j + 1 \in 1 .. l - 2 BY <1>6, <1>8
  <2>1. CASE j < i - 1
    <3>1. j < i /\ j + 1 < i /\ j # i - 1 /\ j \in 1 .. l /\ j < l BY <1>1, <2>1
    <3>2. d[j] = c[j] /\ d[j + 1] = c[j + 1] BY <1>7, <2>0, <3>1
    <3> QED BY <1>1, <1>3, <3>1, <3>2
  <2>2. CASE j = i - 1
    <3>1. j < i /\ ~(j + 1 < i) /\ j \in 1 .. l /\ (j + 1) + 2 = (i + 1) + 1 /\ i + 1 < l
      BY <1>1, <1>8, <2>2
    <3>2. d[j] = c[j] /\ d[j + 1] = c[(i + 1) + 1] BY <1>7, <2>0, <3>1
    <3>3. w = c[(i + 1) + 1] BY <1>1, <3>1 DEF w
    <3> QED BY <1>3, <2>2, <3>1, <3>2, <3>3
  <2>3. CASE j > i - 1
    <3>1. ~(j < i) /\ ~(j + 1 < i) /\ (j + 1) + 2 = (j + 2) + 1 /\ j + 2 < l /\ j + 2 \in 1 .. l /\ j + 2 # i - 1
      BY <1>1, <1>8, <2>3
    <3>2. d[j] = c[j + 2] /\ d[j + 1] = c[(j + 2) + 1] BY <1>7, <2>0, <3>1
    <3> QED BY <1>1, <1>3, <3>1, <3>2
  <2> QED BY <1>a, <2>1, <2>2, <2>3
<1>9. l - 2 > 0 => d[1] = q
  <2> SUFFICES ASSUME l - 2 > 0 PROVE d[1] = q OBVIOUS
  <2>0. 1 \in 1 .. l - 2 /\ 1 \in 1 .. l BY <1>1
  <2>1. CASE i = 1
    <3>1. ~(1 < i) /\ 1 + 2 = (i + 1) + 1 /\ i + 1 < l BY <1>1, <2>1
    <3>2. d[1] = c[(i + 1) + 1] BY <1>7, <2>0, <3>1
    <3>3. w = c[(i + 1) + 1] BY <1>1, <3>1 DEF w
    <3> QED BY <1>a, <2>1, <3>2, <3>3
  <2>2. CASE i # 1
    <3>1. 1 < i BY <1>a, <1>1, <2>2
    <3>2. d[1] = c[1] BY <1>7, <2>0, <3>1
    <3> QED BY <1>a, <1>1, <2>2, <3>2
  <2> QED BY <2>1, <2>2
<1>10. After(g, q, d) = h[c[l]].cdr
  <2>1. CASE l - 2 = 0
    <3>1. i = 1 /\ i + 1 = l BY <1>a, <1>1, <2>1
    <3>2. q = h[c[l]].cdr BY <1>a, <3>1 DEF w
    <3> QED BY <1>6, <2>1, <3>2 DEF After
  <2>2. CASE l - 2 # 0 /\ l - 2 < i
    <3>1. l - 2 \in 1 .. l - 2 /\ l - 2 \in 1 .. l BY <1>1, <1>6, <2>2
    <3>2. d[l - 2] = c[l - 2] BY <1>7, <2>2, <3>1
    <3>3. l - 2 = i - 1 /\ i + 1 = l BY <1>a, <1>1, <1>2, <2>2
    <3>4. g[d[l - 2]].cdr = h[c[l]].cdr
      <4>1. g[c[l - 2]].cdr = w BY <1>3, <3>1, <3>3
      <4> QED BY <3>2, <3>3, <4>1 DEF w
    <3> QED BY <1>6, <2>2, <3>4 DEF After
  <2>3. CASE ~(l - 2 < i)
    <3>1. l - 2 \in 1 .. l - 2 /\ (l - 2) + 2 = l /\ l \in 1 .. l /\ l # i - 1 /\ l - 2 # 0
      BY <1>a, <1>1, <1>6, <2>3
    <3>2. d[l - 2] = c[l] BY <1>7, <2>3, <3>1
    <3>3. g[c[l]].cdr = h[c[l]].cdr BY <1>3, <3>1
    <3> QED BY <1>6, <3>1, <3>2, <3>3 DEF After
  <2> QED BY <2>1, <2>2, <2>3
<1>11. FullSpine(g, q, d)
  <2>1. IsSpine(g, q, d) BY <1>6, <1>7, <1>8, <1>9 DEF IsSpine, IsCons
  <2>2. ~IsCons(g, After(g, q, d)) BY <1>2, <1>3, <1>4, <1>10 DEF IsCons
  <2> QED BY <2>1, <2>2 DEF FullSpine
<1>12. IsList(g, q) BY <1>a, <1>2, <1>3 DEF IsList, IsCons
<1>13. ASSUME NEW j \in 1 .. l - 2
       PROVE  /\ g[d[j]].car = IF j < i THEN h[c[j]].car ELSE h[c[j + 2]].car
              /\ \E k \in 1 .. l : d[j] = c[k] /\ (j % 2 = 1 => k % 2 = 1)
  <2>1. CASE j < i BY <1>3, <1>7, <2>1
  <2>2. CASE ~(j < i)
    <3>1. j % 2 = 1 => (j + 2) % 2 = 1 BY <1>6
    <3>2. d[j] = c[j + 2] /\ j + 2 \in 1 .. l BY <1>7, <2>2
    <3> QED BY <1>3, <2>2, <3>1, <3>2
  <2> QED BY <2>1, <2>2
<1>14. \A j \in 1 .. l - 2 : j % 2 = 1 => g[d[j]].car \in Word
  <2> SUFFICES ASSUME NEW j \in 1 .. l - 2, j % 2 = 1 PROVE g[d[j]].car \in Word OBVIOUS
  <2>1. PICK k \in 1 .. l : d[j] = c[k] /\ k % 2 = 1 BY <1>13
  <2> QED BY <1>2, <1>3, <2>1
<1>15. Len(d) % 2 = 0 BY <1>1, <1>2, <1>6
<1>16. PlistOK(g, q, d) BY <1>6, <1>11, <1>12, <1>14, <1>15 DEF PlistOK
<1>17. Without(h, c, g, d, i) BY <1>6, <1>13 DEF Without, l
<1>18. CutOf(c, d) BY <1>6, <1>13 DEF CutOf, l
<1> QED BY <1>16, <1>17, <1>18 DEF d

\* The two conses of a property are taken out.
LEMMA CutRight ==
  ASSUME NEW h, NEW x, NEW p, NEW c, NEW I, Right(h, x, p, c, I), NEW i \in 1 .. Len(c), i % 2 = 1,
         NEW g, NEW q, q = IF i = 1 THEN h[c[i + 1]].cdr ELSE p,
         i = 1 => g = h, i # 1 => OneField(h, g, c[i - 1], h[c[i + 1]].cdr) /\ g[c[i - 1]].cdr = h[c[i + 1]].cdr
                                  /\ g[c[i - 1]].car = h[c[i - 1]].car
  PROVE  /\ Right(g, x, q, Cut(c, i), I) /\ (\A n \in I : g[n] = h[n]) /\ StaysAcyclic(h, g)
         /\ Without(h, c, g, Cut(c, i), i)
<1>0. /\ h \in Heaps /\ x \in [Var -> Value] /\ p \in NODE \cup {Nil}
      /\ ListsEnd(h) /\ PlistOK(h, p, c)
      /\ Shut(h, Used(h)) /\ Shut(h, I) /\ I \subseteq Used(h)
      /\ (\A w \in Var : x[w] \in NODE => x[w] \in I)
      /\ \A k \in 1 .. Len(c) : c[k] \notin I /\ (h[c[k]].car \in NODE => h[c[k]].car \in I)
  BY DEF Right
<1> DEFINE w == h[c[i + 1]].cdr a == c[i - 1] l == Len(c)
<1>1. /\ c \in Seq(NODE) /\ l \in Nat /\ Distinct(c)
      /\ \A k \in 1 .. l : c[k] \in NODE /\ IsCons(h, c[k]) /\ (k < l => h[c[k]].cdr = c[k + 1])
      /\ i + 1 \in 1 .. l
  BY <1>0, NextIs
<1>2. IsList(h, w) BY <1>0, <1>1 DEF ListsEnd, IsCons
<1>3. w \in NODE \cup {Nil} /\ w \in Value BY <1>2, ListType DEF Value
<1>4. i # 1 => i - 1 \in 1 .. l /\ a \in NODE /\ IsCons(h, a) /\ a \notin I /\ h[a].cdr = c[i] /\ h[c[i]].cdr = c[i + 1]
  <2>1. i # 1 => i - 1 \in 1 .. l /\ i - 1 < l /\ (i - 1) + 1 = i /\ i < l BY <1>1
  <2> QED BY <1>0, <1>1, <2>1
<1>5. \A n \in NODE : n # a \/ i = 1 => g[n] = h[n] BY DEF OneField
<1>6. i # 1 => Written(h, g, a, {w}) BY <1>0, <1>4, ConsWritten
<1>7. w \in NODE => w \in Used(h) BY <1>0, <1>2, UsedIs, NotNode DEF IsList, IsCons
<1>8. g \in Heaps /\ Used(g) = Used(h) /\ ListsEnd(g) /\ Shut(g, Used(g)) /\ \A n \in NODE : g[n].t = h[n].t
  <2>1. CASE i = 1 BY <1>0, <2>1
  <2>2. CASE i # 1
    <3>1. \A v \in {w} : v \in NODE => v \in Used(h) BY <1>7
    <3>2. Written(h, g, a, {w}) BY <1>6, <2>2
    <3> HIDE DEF a, w
    <3>3. Used(g) = Used(h) /\ ListsEnd(g) /\ Shut(g, Used(g)) /\ \A n \in NODE : g[n].t = h[n].t
      BY <1>0, <3>1, <3>2, WriteSame
    <3> QED BY <3>2, <3>3 DEF Written
  <2> QED BY <2>1, <2>2
<1>9. StaysAcyclic(h, g)
  <2>1. CASE i = 1 BY <2>1 DEF StaysAcyclic
  <2>2. ASSUME i # 1, Acyclic(h, Used(h)) PROVE Acyclic(g, Used(g))
    <3>1. \A v \in {w} : v \in NODE => v \in Used(h) BY <1>7
    <3>2. Written(h, g, a, {w}) BY <1>6, <2>2
    <3>3. a \notin Found(h, {w})
      <4> DEFINE F == Found(h, Parts(h, a))
      <4>1. /\ \A n \in Parts(h, a) : n \in NODE => n \in F
            /\ \A n \in F : \A m \in Parts(h, n) : m \in NODE => m \in F
        BY FoundHas
      <4>2. \A n \in NODE : IsCons(h, n) => h[n].cdr \in Parts(h, n) BY PartsOf DEF IsCons
      <4>3. c[i] \in NODE /\ IsCons(h, c[i]) /\ c[i + 1] \in NODE /\ IsCons(h, c[i + 1]) BY <1>1
      <4>4. c[i] \in F /\ c[i + 1] \in F /\ (w \in NODE => w \in F) BY <1>4, <2>2, <4>1, <4>2, <4>3
      <4>5. a \notin F
        <5>1. a \in Used(h) BY <1>0, <1>4, <2>2, UsedIs DEF IsCons
        <5> QED BY <2>2, <5>1 DEF Acyclic
      <4>6. Found(h, {w}) \subseteq F
        <5>1. \A n \in {w} : n \in NODE => n \in Found(h, Parts(h, a)) BY <4>4
        <5> HIDE DEF w, a
        <5> QED BY <5>1, FoundIn
      <4> QED BY <4>5, <4>6
    <3> HIDE DEF a, w
    <3> QED BY <1>0, <2>2, <3>1, <3>2, <3>3, WriteSame
  <2> QED BY <2>1, <2>2 DEF StaysAcyclic
<1>10. CutHeap(h, g, c, i)
  <2>1. \A k \in 1 .. l : k # i - 1 \/ i = 1 => g[c[k]] = h[c[k]]
    <3>1. \A k \in 1 .. l : k # i - 1 /\ i # 1 => c[k] # a BY <1>1, <1>4 DEF Distinct
    <3> QED BY <1>1, <1>5, <3>1
  <2>2. i = 1 => \A k \in 1 .. l : k # i - 1 OBVIOUS
  <2>3. \A k \in 1 .. l : g[c[k]].car = h[c[k]].car /\ g[c[k]].cdr = IF k = i - 1 THEN w ELSE h[c[k]].cdr
    BY <1>1, <2>1, <2>2
  <2> QED BY <1>8, <2>3 DEF CutHeap
<1>11. PlistOK(g, q, Cut(c, i)) /\ Without(h, c, g, Cut(c, i), i) /\ CutOf(c, Cut(c, i))
  BY <1>0, <1>2, <1>10, CutSpine
<1>12. \A n \in I : g[n] = h[n] BY <1>0, <1>4, <1>5 DEF Shut
<1>13. Shut(g, I)
  <2>1. \A n \in I : Parts(g, n) = Parts(h, n) BY <1>12, SameParts
  <2> QED BY <1>0, <2>1 DEF Shut
<1>14. \A j \in 1 .. Len(Cut(c, i)) : Cut(c, i)[j] \notin I /\ (g[Cut(c, i)[j]].car \in NODE => g[Cut(c, i)[j]].car \in I)
  <2> SUFFICES ASSUME NEW j \in 1 .. Len(Cut(c, i))
               PROVE  Cut(c, i)[j] \notin I /\ (g[Cut(c, i)[j]].car \in NODE => g[Cut(c, i)[j]].car \in I)
    OBVIOUS
  <2>1. PICK k \in 1 .. l : Cut(c, i)[j] = c[k] BY <1>11 DEF CutOf
  <2>2. g[c[k]].car = h[c[k]].car BY <1>10 DEF CutHeap
  <2> QED BY <1>0, <2>1, <2>2
<1>15. q \in NODE \cup {Nil} BY <1>0, <1>3
<1>16. Right(g, x, q, Cut(c, i), I) BY <1>0, <1>8, <1>11, <1>13, <1>14, <1>15 DEF Right
<1> QED BY <1>9, <1>11, <1>12, <1>16

LEMMA RempropLeads ==
  ASSUME NEW c, NEW I, Right(heap, val, plist, c, I), NEW n \in Word, Remprop(n)
  PROVE  \E g, q, d, i : Leads(g, q, d, I) /\ IsFirst(heap, c, n, i) /\ Without(heap, c, g, d, i)
<1>0. PlistOK(heap, plist, c) /\ heap \in Heaps /\ ListsEnd(heap) /\ FullSpine(heap, plist, c) /\ IsList(heap, plist)
      /\ plist \in NODE \cup {Nil}
  BY DEF Right, PlistOK
<1>1. /\ c \in Seq(NODE) /\ Len(c) \in Nat
      /\ \A k \in 1 .. Len(c) : c[k] \in NODE /\ IsCons(heap, c[k]) /\ (k < Len(c) => heap[c[k]].cdr = c[k + 1])
      /\ Len(c) > 0 => plist = c[1]
  BY <1>0, NextIs
<1>2. Len(c) > 0 /\ plist = c[1]
  <2>1. plist # Nil BY DEF Remprop
  <2>2. IsCons(heap, plist) BY <1>0, <2>1 DEF IsList
  <2>3. Len(c) # 0 BY <1>0, <2>2 DEF FullSpine, After
  <2> QED BY <1>1, <2>3
<1> DEFINE before == GetProp(heap, plist, n, TRUE) value == Cdr(heap, before)
           w == Cdr(heap, Cdr(heap, Cdr(heap, value)))
<1>3. \/ /\ SameWord(Car(heap, plist), n)
         /\ plist' = Cdr(heap, Cdr(heap, plist)) /\ heap' = Swept(heap, val, plist')
      \/ /\ ~SameWord(Car(heap, plist), n) /\ before # Nil /\ plist' = plist
         /\ heap' = Swept([heap EXCEPT ![value].cdr = w], val, plist)
  BY DEF Remprop
<1>4. CASE /\ SameWord(Car(heap, plist), n)
           /\ plist' = Cdr(heap, Cdr(heap, plist)) /\ heap' = Swept(heap, val, plist')
  <2> DEFINE i == 1 q == heap[c[i + 1]].cdr
  <2>1. IsFirst(heap, c, n, i)
    <3>1. SameWord(n, heap[c[1]].car) BY <1>2, <1>4 DEF SameWord, Car
    <3>2. 1 \in 1 .. Len(c) /\ 1 % 2 = 1 /\ \A j \in 1 .. Len(c) : 1 <= j BY <1>1, <1>2
    <3> QED BY <3>1, <3>2 DEF IsFirst
  <2>2. i \in 1 .. Len(c) /\ i % 2 = 1 /\ heap[c[1]].cdr = c[1 + 1]
    <3>1. i \in 1 .. Len(c) /\ i % 2 = 1 BY <2>1 DEF IsFirst
    <3> QED BY <1>0, <3>1, NextIs
  <2>3. plist' = q BY <1>2, <1>4, <2>2 DEF Cdr
  <2>4. heap' = Swept(heap, val, q) BY <1>4, <2>3
  <2>5. q = IF i = 1 THEN heap[c[i + 1]].cdr ELSE plist OBVIOUS
  <2> HIDE DEF i, q
  <2>6. i = 1 BY DEF i
  <2>7. /\ Right(heap, val, q, Cut(c, i), I) /\ StaysAcyclic(heap, heap)
        /\ Without(heap, c, heap, Cut(c, i), i)
    BY <2>2, <2>5, <2>6, CutRight
  <2>8. Leads(heap, q, Cut(c, i), I) BY <2>3, <2>4, <2>7 DEF Leads
  <2> QED BY <2>1, <2>7, <2>8
<1>5. CASE /\ ~SameWord(Car(heap, plist), n) /\ before # Nil /\ plist' = plist
           /\ heap' = Swept([heap EXCEPT ![value].cdr = w], val, plist)
  <2>1. PICK i : IsFirst(heap, c, n, i) /\ before = IF i = 1 THEN Nil ELSE c[i - 2]
    <3>1. TRUE \in BOOLEAN OBVIOUS
    <3>2. \/ before = Nil
          \/ \E i : IsFirst(heap, c, n, i) /\ before = IF i = 1 THEN Nil ELSE c[i - 2]
      <4>1. GotNone(heap, plist, c, n) \/ \E i : GotAt(heap, plist, c, n, i) BY <1>0, GetPropIs
      <4> QED BY <4>1 DEF GotNone, GotAt
    <3> HIDE DEF before
    <3> QED BY <1>5, <3>2
  <2>2. i \in 1 .. Len(c) /\ i % 2 = 1 /\ i # 1 BY <1>5, <2>1 DEF IsFirst
  <2> DEFINE a == c[i - 1] z == heap[c[i + 1]].cdr g == [heap EXCEPT ![a].cdr = z]
  <2>3. i - 2 \in 1 .. Len(c) /\ i - 1 \in 1 .. Len(c) /\ i - 2 < Len(c) /\ i - 1 < Len(c) /\ i < Len(c) /\ i + 1 \in 1 .. Len(c)
        /\ (i - 2) + 1 = i - 1 /\ (i - 1) + 1 = i
    <3> DEFINE l == Len(c)
    <3>1. i + 1 \in 1 .. l BY <1>0, <2>2, NextIs
    <3>2. i \in 1 .. l /\ i % 2 = 1 /\ i # 1 /\ l \in Nat BY <1>1, <2>2
    <3> HIDE DEF l
    <3>3. i - 2 \in 1 .. l /\ i - 1 \in 1 .. l /\ i - 2 < l /\ i - 1 < l /\ i < l
          /\ (i - 2) + 1 = i - 1 /\ (i - 1) + 1 = i
      BY <3>1, <3>2
    <3> QED BY <3>1, <3>3 DEF l
  <2>4. before = c[i - 2] /\ value = a /\ heap[a].cdr = c[i] /\ heap[c[i]].cdr = c[i + 1]
    BY <1>1, <2>1, <2>2, <2>3 DEF Cdr
  <2>5. w = z BY <2>4 DEF Cdr
  <2>6. heap' = Swept(g, val, plist) BY <1>5, <2>4, <2>5
  <2>7. IsCons(heap, a) /\ IsList(heap, z) /\ z \in Value
    <3>1. IsCons(heap, a) /\ IsCons(heap, c[i + 1]) BY <1>1, <2>3
    <3>2. IsList(heap, z) BY <1>0, <3>1 DEF ListsEnd, IsCons
    <3> QED BY <3>1, <3>2, ListType DEF Value
  <2> HIDE DEF before, value, w, a, z
  <2>8. OneField(heap, g, a, z) BY <1>0, <2>7, ConsFields, Zenon
  <2>9. g[a].cdr = z /\ g[a].car = heap[a].car
    <3>1. heap[a] = Pair(heap[a].car, heap[a].cdr) /\ a \in NODE
      BY <1>0, <2>7, CellKinds, FreeIs DEF Heaps, IsCons
    <3>2. g[a] = [heap[a] EXCEPT !.cdr = z] BY <1>0, <3>1 DEF Heaps
    <3>3. [heap[a] EXCEPT !.cdr = z] = Pair(heap[a].car, z) BY <3>1 DEF Pair
    <3> HIDE DEF g
    <3> QED BY <3>2, <3>3, PairIs
  <2> HIDE DEF g
  <2>10. OneField(heap, g, c[i - 1], heap[c[i + 1]].cdr) /\ g[c[i - 1]].cdr = heap[c[i + 1]].cdr
         /\ g[c[i - 1]].car = heap[c[i - 1]].car
    BY <2>8, <2>9 DEF a, z
  <2>11. plist = IF i = 1 THEN heap[c[i + 1]].cdr ELSE plist BY <2>2
  <2>12. /\ Right(g, val, plist, Cut(c, i), I) /\ (\A m \in I : g[m] = heap[m]) /\ StaysAcyclic(heap, g)
         /\ Without(heap, c, g, Cut(c, i), i)
    BY <2>2, <2>10, <2>11, CutRight
  <2>13. Leads(g, plist, Cut(c, i), I) BY <1>5, <2>6, <2>12 DEF Leads
  <2> QED BY <2>1, <2>12, <2>13
<1> QED BY <1>3, <1>4, <1>5
----
(* A step: the heap before sweeping, what the program has then, and what *)
(* has become of the properties. *)

PropsDo(c, g, d) ==
    \/ Len(d) = Len(c) /\ \A i \in 1 .. Len(c) : g[d[i]].car = heap[c[i]].car
    \/ \E n \in Word : \E v \in Values :
          /\ Pprop(n, v)
          /\ \/ \E i : IsFirst(heap, c, n, i) /\ PutAt(heap, c, g, d, i, v)
             \/ NoneOf(heap, c, n) /\ PutBefore(heap, c, g, d, n, v)
    \/ \E n \in Word : Remprop(n) /\ \E i : IsFirst(heap, c, n, i) /\ Without(heap, c, g, d, i)

Step(c, I, g, d, J) ==
    /\ Right(g, val', plist', d, J) /\ heap' = Swept(g, val', plist') /\ I \subseteq J
    /\ PropsDo(c, g, d)
\* Without a dot only arrays are written, and nothing leads round a circle.
SafeStep(I, g) ==
    /\ StaysAcyclic(heap, g)
    /\ \A n \in I : g[n] = heap[n] \/ (IsArray(heap, n) /\ IsArray(g, n))

LEMMA OutputStep ==
  ASSUME NEW c, NEW I, Right(heap, val, plist, c, I), NEW w \in Var, NEW r, Output(heap, I, r), Outputs(w, r)
  PROVE  \E g, d, J : Step(c, I, g, d, J) /\ SafeStep(I, g)
<1>1. PICK J : /\ Right(r.h, [val EXCEPT ![w] = r.v], plist, c, J) /\ I \subseteq J
               /\ \A n \in NODE : heap[n] # Free => r.h[n] = heap[n]
               /\ Acyclic(heap, Used(heap)) => Acyclic(r.h, Used(r.h))
  BY OutputRight
<1>2. val' = [val EXCEPT ![w] = r.v] /\ plist' = plist /\ heap' = Swept(r.h, val', plist')
  BY DEF Outputs
<1> DEFINE g == r.h
<1> HIDE DEF g
<1>3. \A n \in Used(heap) : g[n] = heap[n] BY <1>1 DEF Used, g
<1>4. heap \in Heaps /\ PlistOK(heap, plist, c) /\ Shut(heap, Used(heap)) /\ I \subseteq Used(heap)
  BY DEF Right
<1>5. g \in Heaps BY <1>1 DEF Right, g
<1>6. \A i \in 1 .. Len(c) : g[c[i]] = heap[c[i]] BY <1>3, <1>4, <1>5, PlistFrame
<1>7. PropsDo(c, g, c) BY <1>6 DEF PropsDo
<1>8. SafeStep(I, g) BY <1>1, <1>3, <1>4 DEF SafeStep, StaysAcyclic, g
<1>9. Step(c, I, g, c, J) BY <1>1, <1>2, <1>7 DEF Step, g
<1> QED BY <1>8, <1>9

LEMMA LeadsStep ==
  ASSUME NEW c, NEW I, NEW g, NEW q, NEW d, Leads(g, q, d, I), val' = val, PropsDo(c, g, d)
  PROVE  Step(c, I, g, d, I) /\ SafeStep(I, g)
BY DEF Leads, Step, SafeStep

LEMMA WrittenStep ==
  ASSUME NEW c, NEW I, Right(heap, val, plist, c, I), NEW g, NEW v, NEW a \in I,
         Held(I, v), Written(heap, g, a, {v}), Changed(g)
  PROVE  /\ Step(c, I, g, c, I)
         /\ a \notin Found(heap, {v}) /\ IsArray(heap, a) => SafeStep(I, g)
<1>1. \A w \in {v} : Held(I, w) OBVIOUS
<1>2. /\ Right(g, val, plist, c, I) /\ \A n \in NODE \ {a} : g[n] = heap[n]
      /\ a \notin Found(heap, {v}) /\ Acyclic(heap, Used(heap)) => Acyclic(g, Used(g))
  BY <1>1, WriteValue
<1>3. heap' = Swept(g, val', plist') /\ val' = val /\ plist' = plist BY DEF Changed
<1>4. I \subseteq NODE /\ \A i \in 1 .. Len(c) : c[i] \notin I BY DEF Right, Shut
<1>5. \A i \in 1 .. Len(c) : c[i] \in NODE BY DEF Right, PlistOK, FullSpine, IsSpine
<1>6. \A i \in 1 .. Len(c) : g[c[i]] = heap[c[i]] BY <1>2, <1>4, <1>5
<1>7. PropsDo(c, g, c) BY <1>6 DEF PropsDo
<1>8. Step(c, I, g, c, I) BY <1>2, <1>3, <1>7 DEF Step
<1>9. ASSUME a \notin Found(heap, {v}), IsArray(heap, a) PROVE SafeStep(I, g)
  <2>1. IsArray(g, a) BY <1>9 DEF IsArray, Written
  <2>2. \A n \in I : g[n] = heap[n] \/ n = a BY <1>2, <1>4
  <2>3. StaysAcyclic(heap, g) BY <1>2, <1>9 DEF StaysAcyclic
  <2> QED BY <1>9, <2>1, <2>2, <2>3 DEF SafeStep
<1> QED BY <1>8, <1>9

LEMMA SweptSame ==
  ASSUME NEW c, NEW I, Right(heap, val, plist, c, I), Used(heap) = Found(heap, Values \cup {plist})
  PROVE  Swept(heap, val, plist) = heap
<1> DEFINE f == Swept(heap, val, plist) L == Found(heap, Vals(val) \cup {plist})
<1>1. f \in Heaps /\ (\A n \in L : f[n] = heap[n]) /\ (\A n \in NODE \ L : f[n] = Free) BY SweptIs
<1>2. L = Used(heap) BY DEF Values, Vals
<1>3. heap \in Heaps BY DEF Right
<1> HIDE DEF f, L
<1>4. \A n \in NODE : f[n] = heap[n] BY <1>1, <1>2 DEF Used
<1>5. f = heap BY <1>1, <1>3, <1>4 DEF Heaps
<1> QED BY <1>5 DEF f

LEMMA SafeCallStep ==
  ASSUME DataTypeOK, PlistIsPrivate, SafeCall
  PROVE  LET c == Conses(heap, plist)
             I == Inside(heap, val, c)
         IN \E g, d, J : Step(c, I, g, d, J) /\ SafeStep(I, g)
<1> DEFINE c == Conses(heap, plist) I == Inside(heap, val, c)
<1>0. Right(heap, val, plist, c, I) /\ Used(heap) = Found(heap, Values \cup {plist}) BY ToRight
<1>1. /\ Right(heap, val, plist, Conses(heap, plist), I)
      /\ FullSpine(heap, plist, c)
  BY <1>0 DEF Right, PlistOK
<1>2. \/ \E x \in Var : Build(x) \/ MakeArray(x) \/ Choose(x) \/ Convert(x)
      \/ \E x \in Var : Room(Len(Conses(heap, plist))) /\ Outputs(x, Plist(heap, plist))
      \/ \E n \in Word, v \in Values : Pprop(n, v)
      \/ \E n \in Word : Remprop(n)
      \/ SetItem \/ CaseIgnored
  BY DEF SafeCall
<1>3. CASE \E x \in Var : Room(Len(Conses(heap, plist))) /\ Outputs(x, Plist(heap, plist))
  <2>1. PICK x \in Var : Room(Len(Conses(heap, plist))) /\ Outputs(x, Plist(heap, plist)) BY <1>3
  <2>2. Output(heap, I, Plist(heap, plist))
    <3> HIDE DEF I
    <3> QED BY <1>1, <2>1, PlistOutput
  <2> HIDE DEF c, I
  <2> QED BY <1>0, <2>1, <2>2, OutputStep DEF c, I
<1> HIDE DEF c, I
<1>4. CASE \E x \in Var : Build(x) \/ MakeArray(x) \/ Choose(x) \/ Convert(x)
  <2>1. PICK x \in Var : Build(x) \/ MakeArray(x) \/ Choose(x) \/ Convert(x) BY <1>4
  <2>2. \E r : Output(heap, I, r) /\ Outputs(x, r)
    BY <1>0, <2>1, BuildOutput, MakeArrayOutput, ChooseOutput, ConvertOutput
  <2>3. \E g, d, J : Step(c, I, g, d, J) /\ SafeStep(I, g) BY <1>0, <2>2, OutputStep
  <2> QED BY <2>3 DEF c, I
<1>5. CASE \E n \in Word, v \in Values : Pprop(n, v)
  <2>1. PICK n \in Word, v \in Values : Pprop(n, v) BY <1>5
  <2>2. val' = val BY <2>1 DEF Pprop
  <2>3. CASE GotNone(heap, plist, c, n)
    <3>1. PICK g, q, d : Leads(g, q, d, I) /\ PutBefore(heap, c, g, d, n, v)
      BY <1>0, <2>1, <2>3, PpropNew DEF GotNone
    <3>2. PropsDo(c, g, d) BY <2>1, <2>3, <3>1 DEF PropsDo, GotNone
    <3>3. \E f, e, J : Step(c, I, f, e, J) /\ SafeStep(I, f) BY <2>2, <3>1, <3>2, LeadsStep
    <3> QED BY <3>3 DEF c, I
  <2>4. CASE \E i : GotAt(heap, plist, c, n, i)
    <3>1. PICK i : GotAt(heap, plist, c, n, i) BY <2>4
    <3>2. PICK g : Leads(g, plist, c, I) /\ PutAt(heap, c, g, c, i, v)
      BY <1>0, <2>1, <3>1, PpropOld DEF GotAt
    <3>3. PropsDo(c, g, c) BY <2>1, <3>1, <3>2 DEF PropsDo, GotAt
    <3>4. \E f, e, J : Step(c, I, f, e, J) /\ SafeStep(I, f) BY <2>2, <3>2, <3>3, LeadsStep
    <3> QED BY <3>4 DEF c, I
  <2> QED BY <1>1, <2>3, <2>4, GetPropIs
<1>6. CASE \E n \in Word : Remprop(n)
  <2>1. PICK n \in Word : Remprop(n) BY <1>6
  <2>2. PICK g, q, d, i : Leads(g, q, d, I) /\ IsFirst(heap, c, n, i) /\ Without(heap, c, g, d, i)
    BY <1>0, <2>1, RempropLeads
  <2>3. PropsDo(c, g, d) BY <2>1, <2>2 DEF PropsDo
  <2>4. val' = val BY <2>1 DEF Remprop
  <2>5. \E f, e, J : Step(c, I, f, e, J) /\ SafeStep(I, f) BY <2>2, <2>3, <2>4, LeadsStep
  <2> QED BY <2>5 DEF c, I
<1>7. CASE SetItem
  <2>1. PICK g, v : \E a \in I : /\ Held(I, v) /\ Written(heap, g, a, {v}) /\ Changed(g)
                                 /\ a \notin Found(heap, {v}) /\ IsArray(heap, a)
    BY <1>0, <1>7, SetItemWrites
  <2>2. Step(c, I, g, c, I) /\ SafeStep(I, g) BY <1>0, <2>1, WrittenStep
  <2> QED BY <2>2 DEF c, I
<1>8. CASE CaseIgnored
  <2>1. heap' = heap /\ val' = val /\ plist' = plist BY <1>8 DEF CaseIgnored
  <2>2. Swept(heap, val, plist) = heap BY <1>0, SweptSame
  <2>3. PropsDo(c, heap, c) BY DEF PropsDo
  <2>4. Step(c, I, heap, c, I) /\ SafeStep(I, heap)
    BY <1>0, <2>1, <2>2, <2>3 DEF Step, SafeStep, StaysAcyclic
  <2> QED BY <2>4 DEF c, I
<1> QED BY <1>2, <1>3, <1>4, <1>5, <1>6, <1>7, <1>8

LEMMA DottedStep ==
  ASSUME DataTypeOK, PlistIsPrivate, Dotted
  PROVE  LET c == Conses(heap, plist)
             I == Inside(heap, val, c)
         IN \E g, d, J : Step(c, I, g, d, J)
<1> DEFINE c == Conses(heap, plist) I == Inside(heap, val, c)
<1>0. Right(heap, val, plist, c, I) BY ToRight
<1> HIDE DEF c, I
<1>1. PICK g, v : \E a \in I : Held(I, v) /\ Written(heap, g, a, {v}) /\ Changed(g)
  BY <1>0, DottedWrites DEF WriteStep
<1>2. Step(c, I, g, c, I) BY <1>0, <1>1, WrittenStep
<1> QED BY <1>2 DEF c, I
----
(* The invariant that everything rests on. *)

LEMMA PlistEnds ==
  ASSUME NEW f \in Heaps, NEW p, NEW d, PlistOK(f, p, d), ListsEnd(f)
  PROVE  /\ Ends(f, p) /\ Len(Elements(f, p)) % 2 = 0
         /\ \A i \in DOMAIN Elements(f, p) : i % 2 = 1 => Elements(f, p)[i] \in Word
         /\ Conses(f, p) = d /\ ToSet(Elements(f, p)) = Cars(f, d)
<1>1. FullSpine(f, p, d) /\ IsList(f, p) /\ Len(d) % 2 = 0
      /\ \A i \in 1 .. Len(d) : i % 2 = 1 => f[d[i]].car \in Word
  BY DEF PlistOK
<1>2. d \in Seq(NODE) /\ Len(d) \in Nat /\ Len(d) <= N /\ Conses(f, p) = d BY <1>1, FullDistinct
<1>3. \A i \in 1 .. Len(d) : f[d[i]].car \in Value
  <2> SUFFICES ASSUME NEW i \in 1 .. Len(d) PROVE f[d[i]].car \in Value OBVIOUS
  <2>1. d[i] \in NODE /\ f[d[i]].t = "cons" BY <1>1, <1>2 DEF FullSpine, IsSpine
  <2> QED BY <2>1, CellKinds, FreeIs DEF Heaps
<1>4. /\ Elements(f, p) = [i \in 1 .. Len(d) |-> f[d[i]].car] /\ DOMAIN Elements(f, p) = 1 .. Len(d)
      /\ Len(Elements(f, p)) = Len(d)
  BY <1>2, <1>3, ElementsAre
<1>5. \A i \in DOMAIN Elements(f, p) : i % 2 = 1 => Elements(f, p)[i] \in Word BY <1>1, <1>4
<1>6. ToSet(Elements(f, p)) = Cars(f, d)
  <2>1. \A i \in 1 .. Len(d) : Elements(f, p)[i] = f[d[i]].car BY <1>4
  <2>2. {Elements(f, p)[i] : i \in 1 .. Len(d)} = {f[d[i]].car : i \in 1 .. Len(d)} BY <2>1
  <2> QED BY <1>4, <2>2 DEF ToSet, Cars
<1>7. p # Nil => Cdr(f, Last(d)) = Nil
  <2> SUFFICES ASSUME p # Nil PROVE Cdr(f, Last(d)) = Nil OBVIOUS
  <2>1. IsCons(f, p) BY <1>1 DEF IsList
  <2>2. Len(d) # 0 BY <1>1, <2>1 DEF FullSpine, After
  <2>3. Len(d) \in 1 .. Len(d) BY <1>2, <2>2
  <2>4. d[Len(d)] \in NODE /\ f[d[Len(d)]].t = "cons" BY <1>1, <1>2, <2>3 DEF FullSpine, IsSpine
  <2>5. IsList(f, f[d[Len(d)]].cdr) BY <2>4 DEF ListsEnd
  <2>6. ~IsCons(f, f[d[Len(d)]].cdr) BY <1>1, <2>2 DEF FullSpine, After
  <2>7. Last(d) = d[Len(d)] BY DEF Last
  <2> QED BY <2>5, <2>6, <2>7 DEF Cdr, IsList
<1> QED BY <1>1, <1>2, <1>4, <1>5, <1>6, <1>7 DEF Ends, N

LEMMA StepKeeps ==
  ASSUME NEW c, NEW I, NEW g, NEW d, NEW J, Step(c, I, g, d, J),
         dotted' \in BOOLEAN, caseignored' \in BOOLEAN, ops' \in 0 .. MaxOps
  PROVE  DataTypeOK' /\ PlistIsPrivate'
<1>1. Right(g, val', plist', d, J) /\ heap' = Swept(g, val', plist') BY DEF Step
<1> DEFINE f == heap' x == val' p == plist'
<1>2. /\ f \in Heaps /\ (\A n \in NODE : n \in Found(f, Vals(x) \cup {p}) <=> f[n] # Free)
      /\ ListsEnd(f) /\ PlistOK(f, p, d)
      /\ \A i \in 1 .. Len(d) : d[i] \notin Inside(f, x, d)
  <2> HIDE DEF x, p
  <2>1. Right(g, x, p, d, J) /\ f = Swept(g, x, p) BY <1>1 DEF x, p
  <2> HIDE DEF f
  <2> QED BY <2>1, FromRight DEF RightAgain
<1>3. x \in [Var -> Value] /\ p \in NODE \cup {Nil} BY <1>1 DEF Right
<1>4. /\ Ends(f, p) /\ Len(Elements(f, p)) % 2 = 0
      /\ \A i \in DOMAIN Elements(f, p) : i % 2 = 1 => Elements(f, p)[i] \in Word
      /\ Conses(f, p) = d /\ ToSet(Elements(f, p)) = Cars(f, d)
  BY <1>2, PlistEnds
<1>5. Values' = Vals(x) BY DEF Values, Vals
<1>6. \A n \in NODE : IsCons(f, n) => IsList(f, Cdr(f, n)) BY <1>2 DEF ListsEnd, IsCons, Cdr
<1>7. DataTypeOK' BY <1>2, <1>3, <1>4, <1>5, <1>6 DEF DataTypeOK, Heaps
<1>8. ToSet(d) \cap Inside(f, x, d) = {}
  <2>1. DOMAIN d = 1 .. Len(d) BY <1>2 DEF PlistOK, FullSpine, IsSpine
  <2>2. ToSet(d) = {d[i] : i \in 1 .. Len(d)} BY <2>1 DEF ToSet
  <2> QED BY <1>2, <2>2
<1>9. PlistIsPrivate' BY <1>4, <1>5, <1>8 DEF PlistIsPrivate, Inside
<1> QED BY <1>7, <1>9

LEMMA DataInitial == DataInit => DataTypeOK /\ PlistIsPrivate
<1> SUFFICES ASSUME DataInit PROVE DataTypeOK /\ PlistIsPrivate OBVIOUS
<1>1. heap = [n \in NODE |-> Free] /\ val = [v \in Var |-> Nil] /\ plist = Nil /\ caseignored = TRUE /\ dotted = FALSE /\ ops = 0
  BY DEF DataInit
<1>2. heap \in Heaps /\ val \in [Var -> Value] /\ MaxOps \in Nat
  BY <1>1, FreeIs, DataAssumption DEF Heaps, Value
<1>3. \A v : ~IsCons(heap, v) BY <1>1, FreeIs DEF IsCons
<1>4. FullSpine(heap, Nil, <<>>) BY <1>3, EmptySpine DEF FullSpine
<1>5. PlistOK(heap, Nil, <<>>) BY <1>4 DEF PlistOK, IsList
<1>6. /\ Ends(heap, Nil) /\ Len(Elements(heap, Nil)) % 2 = 0
      /\ \A i \in DOMAIN Elements(heap, Nil) : i % 2 = 1 => Elements(heap, Nil)[i] \in Word
      /\ Conses(heap, Nil) = <<>>
  BY <1>2, <1>3, <1>5, PlistEnds DEF ListsEnd, IsCons
<1>7. Found(heap, Values \cup {plist}) = {}
  <2>1. \A n \in Values \cup {plist} : n \notin NODE BY <1>1, NotNode DEF Values
  <2>2. Found(heap, Values \cup {plist}) \subseteq {} BY <2>1, FoundLeast
  <2> QED BY <2>2
<1>8. \A n \in NODE : heap[n] = Free BY <1>1
<1>9. DataTypeOK
  <2>1. ops \in 0 .. MaxOps BY <1>1, <1>2
  <2>2. plist \in NODE \cup {Nil} /\ dotted \in BOOLEAN /\ caseignored \in BOOLEAN BY <1>1
  <2>3. /\ Ends(heap, plist) /\ Len(Elements(heap, plist)) % 2 = 0
        /\ \A i \in DOMAIN Elements(heap, plist) : i % 2 = 1 => Elements(heap, plist)[i] \in Word
    BY <1>1, <1>6
  <2>4. \A n \in NODE : n \in Found(heap, Values \cup {plist}) <=> heap[n] # Free BY <1>7, <1>8
  <2> QED BY <1>2, <1>3, <2>1, <2>2, <2>3, <2>4 DEF DataTypeOK, Heaps
<1>10. PlistIsPrivate
  <2>1. ToSet(Conses(heap, plist)) = {} BY <1>1, <1>6 DEF ToSet
  <2> QED BY <2>1 DEF PlistIsPrivate
<1> QED BY <1>9, <1>10

LEMMA DataStep ==
  ASSUME DataTypeOK, PlistIsPrivate, [DataNext]_data_vars PROVE DataTypeOK' /\ PlistIsPrivate'
<1>1. CASE UNCHANGED data_vars BY <1>1 DEF data_vars, DataTypeOK, PlistIsPrivate, Values
<1>2. CASE DataNext
  <2>1. dotted' \in BOOLEAN /\ ops' \in 0 .. MaxOps
    <3>1. ops < MaxOps /\ ops' = ops + 1 /\ dotted' \in BOOLEAN BY <1>2 DEF DataNext, SafeCall, Call
    <3>2. ops \in 0 .. MaxOps /\ MaxOps \in Nat BY DataAssumption DEF DataTypeOK
    <3> QED BY <3>1, <3>2
  <2>2. caseignored' \in BOOLEAN
    <3>0. caseignored \in BOOLEAN /\ (SafeCall \/ Dotted) BY <1>2 DEF DataNext, DataTypeOK
    <3>1. \A x, r : Outputs(x, r) => caseignored' = caseignored BY DEF Outputs
    <3>2. \A h : Changed(h) => caseignored' = caseignored BY DEF Changed
    <3>3. \A x \in Var : Build(x) \/ MakeArray(x) => caseignored' = caseignored
      BY <3>1 DEF Build, MakeArray
    <3>4. \A x \in Var : Choose(x) => caseignored' = caseignored BY <3>1 DEF Choose
    <3>5. \A x \in Var : Convert(x) => caseignored' = caseignored BY <3>1 DEF Convert
    <3>6. SetItem \/ Dotted => caseignored' = caseignored BY <3>2 DEF SetItem, Dotted
    <3>7. \A n, v : Pprop(n, v) \/ Remprop(n) => caseignored' = caseignored BY DEF Pprop, Remprop
    <3>8. CaseIgnored => caseignored' \in BOOLEAN BY DEF CaseIgnored
    <3> QED BY <3>0, <3>1, <3>3, <3>4, <3>5, <3>6, <3>7, <3>8 DEF SafeCall
  <2>3. \E c, I, g, d, J : Step(c, I, g, d, J)
    <3>1. SafeCall \/ Dotted BY <1>2 DEF DataNext
    <3> QED BY <3>1, SafeCallStep, DottedStep
  <2> QED BY <2>1, <2>2, <2>3, StepKeeps
<1> QED BY <1>1, <1>2

\* The cells that are in use are the ones that are found, lists are lists to
\* their end, a property list has a value for every name, and no value leads to
\* a cons of it (lists.c, logodata.c:493-605).
THEOREM DataTypes == DataSpec => [](DataTypeOK /\ PlistIsPrivate)
<1> DEFINE Inv == DataTypeOK /\ PlistIsPrivate
<1>1. DataInit => Inv BY DataInitial
<1>2. Inv /\ [DataNext]_data_vars => Inv' BY DataStep
<1> QED BY <1>1, <1>2, PTL DEF DataSpec
----
(* No value comes to contain itself. *)

LEMMA PlainIs ==
  ASSUME DataTypeOK, PlistIsPrivate PROVE Plain <=> Acyclic(heap, Used(heap))
BY ToRight DEF Plain, AllStraight, Acyclic

LEMMA SafeStepAcyclic ==
  ASSUME DataTypeOK, PlistIsPrivate, [DataNext]_data_vars, ~dotted', Plain
  PROVE  AllStraight(heap', Values' \cup {plist'})
<1>1. CASE UNCHANGED data_vars
  <2>1. heap' = heap /\ Values' = Values /\ plist' = plist BY <1>1 DEF data_vars, Values
  <2> QED BY <2>1 DEF Plain
<1>2. CASE DataNext
  <2>1. SafeCall BY <1>2 DEF DataNext
  <2>2. PICK c, I, g, d, J : Step(c, I, g, d, J) /\ SafeStep(I, g) BY <2>1, SafeCallStep
  <2>3. StaysAcyclic(g, heap')
    <3> DEFINE x == val' p == plist' f == heap'
    <3>1. Right(g, x, p, d, J) /\ f = Swept(g, x, p) BY <2>2 DEF Step
    <3> HIDE DEF x, p, f
    <3>2. StaysAcyclic(g, f) BY <3>1, FromRight
    <3> QED BY <3>2 DEF f
  <2>4. Acyclic(heap', Used(heap')) BY <2>2, <2>3, PlainIs DEF SafeStep, StaysAcyclic
  <2>5. DataTypeOK' BY DataStep
  <2>6. Used(heap') = Found(heap', Values' \cup {plist'})
    <3>1. \A n \in NODE : n \in Found(heap', Values' \cup {plist'}) <=> heap'[n] # Free
      BY <2>5 DEF DataTypeOK
    <3>2. Found(heap', Values' \cup {plist'}) \subseteq NODE BY FoundHas
    <3> QED BY <3>1, <3>2 DEF Used
  <2> QED BY <2>4, <2>6 DEF AllStraight, Acyclic
<1> QED BY <1>1, <1>2

\* Without a primitive with a dot nothing comes to contain itself, whatever
\* SETITEM is given (lists.c:582-600).
THEOREM DataAcyclic == DataSpec => SafeIsAcyclic
<1> DEFINE Inv == DataTypeOK /\ PlistIsPrivate
<1>1. Inv /\ [DataNext]_data_vars => [~dotted' /\ Plain => AllStraight(heap', Values' \cup {plist'})]_data_vars
  BY SafeStepAcyclic
<1> QED BY <1>1, DataTypes, PTL DEF DataSpec, SafeIsAcyclic
----
(* Properties are changed by PPROP and REMPROP of their name only. *)

LEMMA SameWordIs ==
  /\ \A a, b : SameWord(a, b) => SameWord(b, a)
  /\ \A a, b, z : SameWord(a, b) /\ SameWord(b, z) => SameWord(a, z)
  /\ \A a : SameWord(a, a)
BY DEF SameWord

\* r is the value of the name n.
PropIn(h, c, n, r) ==
    \/ NoneOf(h, c, n) /\ r = Nil
    \/ \E i : IsFirst(h, c, n, i) /\ r = h[c[i + 1]].car

LEMMA PropInOne ==
  ASSUME NEW h, NEW c, NEW n, NEW r, NEW s, PropIn(h, c, n, r), PropIn(h, c, n, s) PROVE r = s
<1>1. ASSUME NEW i, NEW j, IsFirst(h, c, n, i), IsFirst(h, c, n, j) PROVE i = j BY <1>1 DEF IsFirst
<1>2. ASSUME NEW i, IsFirst(h, c, n, i), NoneOf(h, c, n) PROVE FALSE BY <1>2 DEF IsFirst, NoneOf
<1> QED BY <1>1, <1>2 DEF PropIn

LEMMA PropInSame ==
  ASSUME NEW h, NEW p, NEW c, PlistOK(h, p, c), NEW f, NEW d, Len(d) = Len(c),
         \A i \in 1 .. Len(c) : f[d[i]].car = h[c[i]].car, NEW n, NEW r, PropIn(h, c, n, r)
  PROVE  PropIn(f, d, n, r)
<1>1. CASE NoneOf(h, c, n) /\ r = Nil BY <1>1 DEF NoneOf, PropIn
<1>2. ASSUME NEW i, IsFirst(h, c, n, i), r = h[c[i + 1]].car PROVE PropIn(f, d, n, r)
  <2>1. i \in 1 .. Len(c) /\ i % 2 = 1 BY <1>2 DEF IsFirst
  <2>2. i + 1 \in 1 .. Len(c) BY <2>1, NextIs
  <2>3. IsFirst(f, d, n, i) BY <1>2 DEF IsFirst
  <2> QED BY <1>2, <2>2, <2>3 DEF PropIn
<1> QED BY <1>1, <1>2 DEF PropIn

LEMMA PropInPutAt ==
  ASSUME NEW h, NEW p, NEW c, PlistOK(h, p, c), NEW f, NEW d, NEW i, NEW m, IsFirst(h, c, m, i), NEW v,
         PutAt(h, c, f, d, i, v), NEW n, NEW r, PropIn(h, c, n, r)
  PROVE  PropIn(f, d, n, IF SameWord(m, n) THEN v ELSE r)
<1>1. /\ Len(d) = Len(c) /\ f[d[i + 1]].car = v
      /\ \A j \in 1 .. Len(c) : j # i + 1 => f[d[j]].car = h[c[j]].car
  BY DEF PutAt
<1>2. i \in 1 .. Len(c) /\ i % 2 = 1 /\ SameWord(m, h[c[i]].car) BY DEF IsFirst
<1>3. i + 1 \in 1 .. Len(c) /\ (i + 1) % 2 = 0 BY <1>2, NextIs
<1>4. \A j \in 1 .. Len(c) : j % 2 = 1 => f[d[j]].car = h[c[j]].car BY <1>1, <1>3
<1>5. CASE SameWord(m, n)
  <2>1. \A z : SameWord(m, z) <=> SameWord(n, z) BY <1>5, SameWordIs
  <2>2. IsFirst(f, d, n, i) BY <1>1, <1>2, <1>4, <2>1 DEF IsFirst
  <2> QED BY <1>1, <1>5, <2>2 DEF PropIn
<1>6. CASE ~SameWord(m, n)
  <2>1. CASE NoneOf(h, c, n) /\ r = Nil BY <1>1, <1>4, <1>6, <2>1 DEF NoneOf, PropIn
  <2>2. ASSUME NEW j, IsFirst(h, c, n, j), r = h[c[j + 1]].car PROVE PropIn(f, d, n, r)
    <3>1. j \in 1 .. Len(c) /\ j % 2 = 1 /\ SameWord(n, h[c[j]].car) BY <2>2 DEF IsFirst
    <3>2. j # i BY <1>2, <1>6, <3>1, SameWordIs
    <3>3. j + 1 \in 1 .. Len(c) /\ j + 1 # i + 1 BY <1>2, <3>1, <3>2, NextIs
    <3>4. IsFirst(f, d, n, j) BY <1>1, <1>4, <2>2 DEF IsFirst
    <3> QED BY <1>1, <2>2, <3>3, <3>4 DEF PropIn
  <2> QED BY <1>6, <2>1, <2>2 DEF PropIn
<1> QED BY <1>5, <1>6

LEMMA PropInPutBefore ==
  ASSUME NEW h, NEW p, NEW c, PlistOK(h, p, c), NEW f, NEW d, NEW m, NEW v,
         PutBefore(h, c, f, d, m, v), NEW n, NEW r, PropIn(h, c, n, r)
  PROVE  PropIn(f, d, n, IF SameWord(m, n) THEN v ELSE r)
<1> DEFINE l == Len(c)
<1>1. /\ Len(d) = l + 2 /\ f[d[1]].car = m /\ f[d[2]].car = v
      /\ \A j \in 1 .. l : f[d[j + 2]].car = h[c[j]].car
  BY DEF PutBefore
<1>2. l \in Nat BY NextIs
<1>3. NoneOf(h, c, n) <=> \A j \in 1 .. l : j % 2 = 1 => ~SameWord(n, h[c[j]].car) BY DEF NoneOf
<1>4. \A j : IsFirst(h, c, n, j) => /\ j \in 1 .. l /\ j % 2 = 1 /\ SameWord(n, h[c[j]].car) /\ j + 1 \in 1 .. l
                                   /\ \A k \in 1 .. l : k % 2 = 1 /\ SameWord(n, h[c[k]].car) => j <= k
  BY NextIs DEF IsFirst
<1> HIDE DEF l
<1>5. ASSUME NEW k \in 1 .. l + 2, k % 2 = 1
      PROVE  k = 1 \/ (k - 2 \in 1 .. l /\ (k - 2) % 2 = 1 /\ f[d[k]].car = h[c[k - 2]].car)
  <2>1. k = 1 \/ (k - 2 \in 1 .. l /\ (k - 2) % 2 = 1 /\ (k - 2) + 2 = k) BY <1>2, <1>5
  <2> QED BY <1>1, <2>1
<1>6. CASE SameWord(m, n)
  <2>1. SameWord(n, f[d[1]].car) BY <1>1, <1>6, SameWordIs
  <2>2. 1 \in 1 .. Len(d) /\ 1 % 2 = 1 /\ \A k \in 1 .. Len(d) : 1 <= k BY <1>1, <1>2
  <2>3. IsFirst(f, d, n, 1) BY <2>1, <2>2 DEF IsFirst
  <2>4. v = f[d[1 + 1]].car BY <1>1
  <2> QED BY <1>6, <2>3, <2>4 DEF PropIn
<1>7. CASE ~SameWord(m, n)
  <2>0. ~SameWord(n, f[d[1]].car) BY <1>1, <1>7, SameWordIs
  <2>1. CASE NoneOf(h, c, n) /\ r = Nil
    <3>1. \A k \in 1 .. l + 2 : k % 2 = 1 => ~SameWord(n, f[d[k]].car) BY <1>3, <1>5, <2>0, <2>1
    <3> QED BY <1>1, <1>7, <2>1, <3>1 DEF NoneOf, PropIn
  <2>2. ASSUME NEW j, IsFirst(h, c, n, j), r = h[c[j + 1]].car PROVE PropIn(f, d, n, r)
    <3> DEFINE i == j + 2
    <3>1. j \in 1 .. l /\ j % 2 = 1 /\ SameWord(n, h[c[j]].car) /\ j + 1 \in 1 .. l
          /\ \A k \in 1 .. l : k % 2 = 1 /\ SameWord(n, h[c[k]].car) => j <= k
      BY <1>4, <2>2
    <3>2. i \in 1 .. Len(d) /\ i % 2 = 1 /\ i + 1 = (j + 1) + 2 BY <1>1, <1>2, <3>1
    <3>3. SameWord(n, f[d[i]].car) /\ f[d[i + 1]].car = r BY <1>1, <2>2, <3>1, <3>2
    <3>4. ASSUME NEW k \in 1 .. Len(d), k % 2 = 1, SameWord(n, f[d[k]].car) PROVE i <= k
      <4>1. k # 1 BY <2>0, <3>4
      <4>2. k - 2 \in 1 .. l /\ (k - 2) % 2 = 1 /\ f[d[k]].car = h[c[k - 2]].car
        BY <1>1, <1>5, <3>4, <4>1
      <4>3. j <= k - 2 BY <3>1, <3>4, <4>2
      <4> QED BY <3>1, <4>2, <4>3
    <3> HIDE DEF i
    <3>5. IsFirst(f, d, n, i) BY <3>2, <3>3, <3>4 DEF IsFirst
    <3> QED BY <3>3, <3>5 DEF PropIn
  <2> QED BY <1>7, <2>1, <2>2 DEF PropIn
<1> QED BY <1>6, <1>7

\* No name is there twice.
NamesOnce(h, c) ==
    \A i, j \in 1 .. Len(c) : i % 2 = 1 /\ j % 2 = 1 /\ SameWord(h[c[i]].car, h[c[j]].car) => i = j

LEMMA PropInWithout ==
  ASSUME NEW h, NEW p, NEW c, PlistOK(h, p, c), NEW f, NEW d, NEW i, NEW m, IsFirst(h, c, m, i),
         Without(h, c, f, d, i), NEW n, NEW r, PropIn(h, c, n, r)
  PROVE  /\ ~SameWord(m, n) => PropIn(f, d, n, r)
         /\ SameWord(m, n) /\ NamesOnce(h, c) => PropIn(f, d, n, Nil)
<1> DEFINE l == Len(c) k == Len(d) back(j) == IF j < i THEN j ELSE j + 2
<1>1. l \in Nat /\ k = l - 2 /\ \A j \in 1 .. k : f[d[j]].car = IF j < i THEN h[c[j]].car ELSE h[c[j + 2]].car
  BY NextIs DEF Without
<1>2. i \in 1 .. l /\ i % 2 = 1 /\ SameWord(m, h[c[i]].car) /\ i + 1 \in 1 .. l
  BY NextIs DEF IsFirst
<1>3. NoneOf(h, c, n) <=> \A j \in 1 .. l : j % 2 = 1 => ~SameWord(n, h[c[j]].car) BY DEF NoneOf
<1>4. \A j : IsFirst(h, c, n, j) => /\ j \in 1 .. l /\ j % 2 = 1 /\ SameWord(n, h[c[j]].car) /\ j + 1 \in 1 .. l
                                   /\ \A q \in 1 .. l : q % 2 = 1 /\ SameWord(n, h[c[q]].car) => j <= q
  BY NextIs DEF IsFirst
<1>5. \A q1, q2 \in 1 .. l : NamesOnce(h, c) /\ q1 % 2 = 1 /\ q2 % 2 = 1 /\ SameWord(h[c[q1]].car, h[c[q2]].car) => q1 = q2
  BY DEF NamesOnce
<1> HIDE DEF l
<1>6. k \in Int BY <1>1
<1> HIDE DEF k
<1>7. ASSUME NEW j \in 1 .. k, j % 2 = 1
      PROVE  /\ back(j) \in 1 .. l /\ back(j) % 2 = 1 /\ back(j) # i /\ f[d[j]].car = h[c[back(j)]].car
             /\ back(j) <= i => j <= back(j)
  <2>1. back(j) \in 1 .. l /\ back(j) % 2 = 1 /\ back(j) # i BY <1>1, <1>2, <1>6, <1>7
  <2> QED BY <1>1, <1>2, <1>6, <1>7, <2>1
<1>8. CASE ~SameWord(m, n)
  <2>1. CASE NoneOf(h, c, n) /\ r = Nil
    <3>1. \A j \in 1 .. k : j % 2 = 1 => ~SameWord(n, f[d[j]].car) BY <1>3, <1>7, <2>1
    <3> QED BY <2>1, <3>1 DEF NoneOf, PropIn, k
  <2>2. ASSUME NEW j, IsFirst(h, c, n, j), r = h[c[j + 1]].car PROVE PropIn(f, d, n, r)
    <3>1. j \in 1 .. l /\ j % 2 = 1 /\ SameWord(n, h[c[j]].car) /\ j + 1 \in 1 .. l
          /\ \A q \in 1 .. l : q % 2 = 1 /\ SameWord(n, h[c[q]].car) => j <= q
      BY <1>4, <2>2
    <3>2. j # i BY <1>2, <1>8, <3>1, SameWordIs
    <3> DEFINE a == IF j < i THEN j ELSE j - 2
    <3>3. /\ a \in 1 .. k /\ a % 2 = 1 /\ a + 1 \in 1 .. k /\ back(a) = j /\ back(a + 1) = j + 1
          /\ (a < i <=> j < i) /\ (a + 1 < i <=> j < i)
      BY <1>1, <1>2, <1>6, <3>1, <3>2
    <3> HIDE DEF a
    <3>4. SameWord(n, f[d[a]].car) /\ f[d[a + 1]].car = r
      <4>1. f[d[a]].car = h[c[j]].car BY <1>7, <3>3
      <4>2. f[d[a + 1]].car = h[c[back(a + 1)]].car BY <1>1, <3>3
      <4> QED BY <2>2, <3>1, <3>3, <4>1, <4>2
    <3>5. ASSUME NEW q \in 1 .. k, q % 2 = 1, SameWord(n, f[d[q]].car) PROVE a <= q
      <4>1. j <= back(q) BY <1>7, <3>1, <3>5
      <4> QED BY <1>2, <1>6, <3>1, <3>3, <4>1
    <3>6. IsFirst(f, d, n, a) BY <3>3, <3>4, <3>5 DEF IsFirst, k
    <3> QED BY <3>4, <3>6 DEF PropIn
  <2> QED BY <1>8, <2>1, <2>2 DEF PropIn
<1>9. CASE SameWord(m, n) /\ NamesOnce(h, c)
  <2>1. ASSUME NEW j \in 1 .. k, j % 2 = 1, SameWord(n, f[d[j]].car) PROVE FALSE
    <3>1. back(j) \in 1 .. l /\ back(j) % 2 = 1 /\ back(j) # i /\ f[d[j]].car = h[c[back(j)]].car
      BY <1>7, <2>1
    <3> HIDE DEF back
    <3>2. SameWord(h[c[back(j)]].car, h[c[i]].car) BY <1>2, <1>9, <2>1, <3>1, SameWordIs
    <3> QED BY <1>2, <1>5, <1>9, <3>1, <3>2
  <2>2. NoneOf(f, d, n) BY <2>1 DEF NoneOf, k
  <2> QED BY <1>9, <2>2 DEF PropIn
<1> QED BY <1>8, <1>9

\* A step does to every property what its own PPROP or REMPROP does.
PropStep(n, prop) ==
    \/ prop = Gprop(n)
    \/ \E m \in Word, v \in Values : SameWord(m, n) /\ Pprop(m, v) /\ prop = v
    \/ \E m \in Word : SameWord(m, n) /\ Remprop(m) /\ (OneOfEach => prop = Nil)

LEMMA OneOfEachIs ==
  ASSUME NEW c, heap \in Heaps, PlistOK(heap, plist, c), ListsEnd(heap), OneOfEach
  PROVE  NamesOnce(heap, c)
<1>1. FullSpine(heap, plist, c) BY DEF PlistOK
<1>2. Conses(heap, plist) = c BY <1>1, FullDistinct
<1>3. Elements(heap, plist) = [i \in 1 .. Len(c) |-> heap[c[i]].car] /\ DOMAIN Elements(heap, plist) = 1 .. Len(c)
  BY <1>2, ElementsAre
<1> DEFINE e == Elements(heap, plist)
<1>4. \A i \in 1 .. Len(c) : e[i] = heap[c[i]].car BY <1>3
<1>5. \A i, j \in 1 .. Len(c) : i % 2 = 1 /\ j % 2 = 1 /\ SameWord(e[i], e[j]) => i = j
  BY <1>3 DEF OneOfEach
<1> HIDE DEF e
<1> QED BY <1>4, <1>5 DEF NamesOnce

LEMMA PropsStep ==
  ASSUME NEW c, PlistOK(heap, plist, c), heap \in Heaps, ListsEnd(heap), NEW g, NEW d, PropsDo(c, g, d),
         NEW n \in Word, NEW prop, PropIn(g, d, n, prop)
  PROVE  PropStep(n, prop)
<1>1. PropIn(heap, c, n, Gprop(n)) BY PropertyIs DEF PropIn, Gprop
<1> DEFINE r == Gprop(n)
<1> HIDE DEF r
<1>2. PropIn(heap, c, n, r) BY <1>1 DEF r
<1>3. CASE Len(d) = Len(c) /\ \A i \in 1 .. Len(c) : g[d[i]].car = heap[c[i]].car
  <2>1. PropIn(g, d, n, r) BY <1>2, <1>3, PropInSame
  <2>2. prop = r BY <2>1, PropInOne
  <2> QED BY <2>2 DEF PropStep, r
<1>4. ASSUME NEW m \in Word, NEW v \in Values, Pprop(m, v),
             \/ \E i : IsFirst(heap, c, m, i) /\ PutAt(heap, c, g, d, i, v)
             \/ NoneOf(heap, c, m) /\ PutBefore(heap, c, g, d, m, v)
      PROVE  PropStep(n, prop)
  <2>1. PropIn(g, d, n, IF SameWord(m, n) THEN v ELSE r) BY <1>2, <1>4, PropInPutAt, PropInPutBefore
  <2>2. prop = IF SameWord(m, n) THEN v ELSE r BY <2>1, PropInOne
  <2> QED BY <1>4, <2>2 DEF PropStep, r
<1>5. ASSUME NEW m \in Word, Remprop(m), NEW i, IsFirst(heap, c, m, i), Without(heap, c, g, d, i)
      PROVE  PropStep(n, prop)
  <2>1. /\ ~SameWord(m, n) => PropIn(g, d, n, r)
        /\ SameWord(m, n) /\ NamesOnce(heap, c) => PropIn(g, d, n, Nil)
    BY <1>2, <1>5, PropInWithout
  <2>2. ~SameWord(m, n) => prop = r BY <2>1, PropInOne
  <2>3. SameWord(m, n) /\ OneOfEach => prop = Nil BY <2>1, OneOfEachIs, PropInOne
  <2> QED BY <1>5, <2>2, <2>3 DEF PropStep, r
<1> QED BY <1>3, <1>4, <1>5 DEF PropsDo

LEMMA PropertyStep ==
  ASSUME DataTypeOK, PlistIsPrivate, DataNext, NEW n \in Word
  PROVE  PropStep(n, Property(heap', plist', n))
<1> DEFINE c == Conses(heap, plist) I == Inside(heap, val, c)
<1>0. Right(heap, val, plist, c, I) BY ToRight
<1>1. SafeCall \/ Dotted BY DEF DataNext
<1>2. \E g, d, J : Step(c, I, g, d, J) BY <1>1, SafeCallStep, DottedStep
<1> HIDE DEF c, I
<1>3. PICK g, d, J : Step(c, I, g, d, J) BY <1>2
<1>4. PlistOK(heap, plist, c) /\ heap \in Heaps /\ ListsEnd(heap) BY <1>0 DEF Right
<1> DEFINE f == heap' x == val' p == plist'
<1>5. Right(g, x, p, d, J) /\ f = Swept(g, x, p) /\ PropsDo(c, g, d) BY <1>3 DEF Step
<1> HIDE DEF f, x, p
<1>6. RightAgain(f, x, p, d) /\ SameCells(g, f, d) BY <1>5, FromRight
<1>7. PlistOK(f, p, d) BY <1>6 DEF RightAgain
<1>8. Len(d) = Len(d) /\ \A i \in 1 .. Len(d) : g[d[i]].car = f[d[i]].car BY <1>6 DEF SameCells
<1>9. PropIn(f, d, n, Property(f, p, n)) BY <1>7, PropertyIs DEF PropIn
<1>10. PropIn(g, d, n, Property(f, p, n)) BY <1>7, <1>8, <1>9, PropInSame
<1>11. PropStep(n, Property(f, p, n)) BY <1>4, <1>5, <1>10, PropsStep
<1> QED BY <1>11 DEF f, p

\* A property changes by PPROP and REMPROP of its name and in no other way, not
\* even when .SETFIRST or .SETBF write on what PLIST output
\* (logodata.c:493-605).
THEOREM PropsKept == DataSpec => PropsAreKept
<1> DEFINE Inv == DataTypeOK /\ PlistIsPrivate A == \A n \in Word :
                  LET prop == Property(heap', plist', n) IN
                  \/ caseignored' # caseignored
                  \/ prop = Gprop(n)
                  \/ \E m \in Word, v \in Values : SameWord(m, n) /\ Pprop(m, v) /\ prop = v
                  \/ \E m \in Word : SameWord(m, n) /\ Remprop(m) /\ (OneOfEach => prop = Nil)
<1>1. Inv /\ [DataNext]_data_vars => [A]_data_vars BY PropertyStep DEF PropStep
<1> QED BY <1>1, DataTypes, PTL DEF DataSpec, PropsAreKept
----
(* What a value is, in two heaps in which its lists have the same conses. *)

Alike(h, f, T) ==
    \A u \in T : /\ IsCons(f, u) <=> IsCons(h, u)
                 /\ IsArray(f, u) <=> IsArray(h, u)
                 /\ IsCons(h, u) => /\ f[u].car = h[u].car /\ f[u].cdr = h[u].cdr
                                    /\ h[u].car \in T /\ h[u].cdr \in T

LEMMA LongerAlike ==
  ASSUME NEW h, NEW f, NEW T, Alike(h, f, T), NEW v \in T, NEW c, IsSpine(h, v, c), \A i \in 1 .. Len(c) : c[i] \in T
  PROVE  /\ Longer(f, v, c) = Longer(h, v, c) /\ IsSpine(h, v, Longer(h, v, c))
         /\ \A i \in 1 .. Len(Longer(h, v, c)) : Longer(h, v, c)[i] \in T
<1> DEFINE a == After(h, v, c) d == Longer(h, v, c)
<1>1. c \in Seq(NODE) /\ Len(c) \in Nat /\ \A i \in 1 .. Len(c) : IsCons(h, c[i])
  BY DEF IsSpine, IsCons
<1>2. a \in T /\ After(f, v, c) = a
  <2>1. CASE Len(c) = 0 BY <2>1 DEF After
  <2>2. CASE Len(c) # 0
    <3>1. Len(c) \in 1 .. Len(c) BY <1>1, <2>2
    <3>2. IsCons(h, c[Len(c)]) /\ c[Len(c)] \in T BY <1>1, <3>1
    <3> QED BY <2>2, <3>2 DEF Alike, After
  <2> QED BY <2>1, <2>2
<1>3. IsCons(f, a) <=> IsCons(h, a) BY <1>2 DEF Alike
<1>4. Longer(f, v, c) = d BY <1>2, <1>3 DEF Longer
<1>5. IsSpine(h, v, d) BY SpineLonger
<1>6. ASSUME NEW i \in 1 .. Len(d) PROVE d[i] \in T
  <2>1. CASE ~IsCons(h, a)
    <3>1. d = c BY <2>1 DEF Longer
    <3> QED BY <1>6, <3>1
  <2>2. CASE IsCons(h, a)
    <3>1. d = Append(c, a) /\ a \in NODE BY <2>2 DEF Longer, IsCons
    <3> HIDE DEF d, a
    <3>2. Len(d) = Len(c) + 1 /\ \A j \in 1 .. Len(c) + 1 : d[j] = IF j = Len(c) + 1 THEN a ELSE c[j]
      BY <1>1, <3>1
    <3> QED BY <1>1, <1>2, <1>6, <3>2
  <2> QED BY <2>1, <2>2
<1> QED BY <1>4, <1>5, <1>6

LEMMA ConsesAlike ==
  ASSUME NEW h, NEW f, NEW T, Alike(h, f, T), NEW v \in T
  PROVE  /\ Conses(f, v) = Conses(h, v) /\ Elements(f, v) = Elements(h, v)
         /\ \A i \in DOMAIN Elements(h, v) : Elements(h, v)[i] \in T
<1> DEFINE n == N + 1
<1>1. PICK a \in [0 .. n -> Seq(NODE)] :
         a[0] = <<>> /\ (\A k \in 1 .. n : a[k] = Longer(h, v, a[k - 1])) /\ Conses(h, v) = a[n]
  BY ConsesFollows
<1>2. PICK b \in [0 .. n -> Seq(NODE)] :
         b[0] = <<>> /\ (\A k \in 1 .. n : b[k] = Longer(f, v, b[k - 1])) /\ Conses(f, v) = b[n]
  BY ConsesFollows
<1>3. n \in Nat BY NNat
<1> HIDE DEF n
<1> DEFINE Fits(c) == IsSpine(h, v, c) /\ \A i \in 1 .. Len(c) : c[i] \in T
           K == {k \in 0 .. n : b[k] = a[k] /\ Fits(a[k])}
<1>4. \A c : Fits(c) => Longer(f, v, c) = Longer(h, v, c) /\ Fits(Longer(h, v, c)) BY LongerAlike
<1>5. Fits(<<>>) BY EmptySpine
<1> HIDE DEF Fits
<1>6. 0 \in K BY <1>1, <1>2, <1>3, <1>5
<1>7. ASSUME NEW k \in 1 .. n, k - 1 \in K PROVE k \in K
  <2>1. b[k - 1] = a[k - 1] /\ Fits(a[k - 1]) BY <1>7
  <2>2. a[k] = Longer(h, v, a[k - 1]) /\ b[k] = Longer(f, v, a[k - 1]) BY <1>1, <1>2, <2>1
  <2>3. b[k] = a[k] /\ Fits(a[k]) BY <1>4, <2>1, <2>2
  <2> QED BY <1>3, <2>3
<1>8. \A k \in 0 .. n : k \in K
  <2> HIDE DEF K
  <2> QED BY <1>3, <1>6, <1>7, Upward
<1> DEFINE c == a[n]
<1>9. Conses(h, v) = c /\ Conses(f, v) = c /\ Fits(c) BY <1>1, <1>2, <1>3, <1>8
<1> HIDE DEF c
<1>10. \A i \in 1 .. Len(c) : f[c[i]].car = h[c[i]].car /\ h[c[i]].car \in T
  <2> SUFFICES ASSUME NEW i \in 1 .. Len(c) PROVE f[c[i]].car = h[c[i]].car /\ h[c[i]].car \in T
    OBVIOUS
  <2>1. c[i] \in T /\ c \in Seq(NODE) /\ h[c[i]].t = "cons" BY <1>9 DEF Fits, IsSpine
  <2>2. IsCons(h, c[i]) BY <2>1 DEF IsCons
  <2> QED BY <2>1, <2>2 DEF Alike
<1>11. /\ Elements(h, v) = [i \in 1 .. Len(c) |-> h[c[i]].car] /\ DOMAIN Elements(h, v) = 1 .. Len(c)
       /\ Elements(f, v) = [i \in 1 .. Len(c) |-> f[c[i]].car]
  BY <1>9, ElementsAre
<1>12. [i \in 1 .. Len(c) |-> f[c[i]].car] = [i \in 1 .. Len(c) |-> h[c[i]].car] BY <1>10
<1> QED BY <1>9, <1>10, <1>11, <1>12

\* The rule of the recursion of Shape.
Shaped(h, lower, k, s) ==
    [u \in Value |->
        IF IsList(h, u)
          THEN LET e == Elements(h, u) IN <<"list", IF k = 0 THEN <<>> ELSE [i \in DOMAIN e |-> s[e[i]]]>>
        ELSE IF IsArray(h, u) THEN <<"array", u>>
        ELSE <<"word", IF lower THEN Lower(u) ELSE u>>]
ShapeUpto(m, h, lower, s) == s = [k \in 0 .. m |-> Shaped(h, lower, k, s[k - 1])]
ShapesOf(h, lower, s) == \A k \in 0 .. N : s[k] = Shaped(h, lower, k, s[k - 1])

LEMMA ShapeIs ==
  ASSUME NEW h, NEW lower
  PROVE  \E s : ShapesOf(h, lower, s) /\ \A v : Shape(h, v, lower) = s[N][v]
<1> DEFINE T == {m \in 0 .. N : \E s : ShapeUpto(m, h, lower, s)}
<1>0. N \in Nat BY NNat
<1>1. \A x, y : Shaped(h, lower, 0, x) = Shaped(h, lower, 0, y) BY DEF Shaped
<1> HIDE DEF N
<1>2. 0 \in T
  <2> DEFINE s == [k \in 0 .. 0 |-> Shaped(h, lower, 0, {})]
  <2>1. \A k \in 0 .. 0 : k = 0 OBVIOUS
  <2>2. \A k \in 0 .. 0 : s[k] = Shaped(h, lower, k, s[k - 1]) BY <1>1, <2>1
  <2>3. s = [k \in 0 .. 0 |-> s[k]] OBVIOUS
  <2> HIDE DEF s
  <2>4. s = [k \in 0 .. 0 |-> Shaped(h, lower, k, s[k - 1])] BY <2>2, <2>3
  <2> QED BY <1>0, <2>4 DEF ShapeUpto
<1>3. ASSUME NEW m \in 1 .. N, m - 1 \in T PROVE m \in T
  <2>1. PICK e : ShapeUpto(m - 1, h, lower, e) BY <1>3
  <2>2. \A k \in 0 .. m - 1 : e[k] = Shaped(h, lower, k, e[k - 1]) BY <2>1 DEF ShapeUpto
  <2> DEFINE s == [k \in 0 .. m |-> IF k = m THEN Shaped(h, lower, m, e[m - 1]) ELSE e[k]]
  <2>3. \A k \in 0 .. m : s[k] = IF k = m THEN Shaped(h, lower, m, e[m - 1]) ELSE e[k] OBVIOUS
  <2>4. s = [k \in 0 .. m |-> s[k]] OBVIOUS
  <2> HIDE DEF s
  <2>5. ASSUME NEW k \in 0 .. m PROVE s[k] = Shaped(h, lower, k, s[k - 1])
    <3>1. CASE k = 0
      <4>1. 0 \in 0 .. m - 1 /\ 0 # m /\ 0 \in 0 .. m BY <1>0
      <4>2. s[0] = Shaped(h, lower, 0, e[0 - 1]) BY <2>2, <2>3, <4>1
      <4> QED BY <1>1, <3>1, <4>2
    <3>2. CASE k # 0
      <4>1. k - 1 \in 0 .. m /\ k - 1 # m /\ (k # m => k \in 0 .. m - 1) BY <1>0, <3>2
      <4>2. s[k - 1] = e[k - 1] BY <2>3, <4>1
      <4> QED BY <2>2, <2>3, <4>1, <4>2
    <3> QED BY <3>1, <3>2
  <2>6. s = [k \in 0 .. m |-> Shaped(h, lower, k, s[k - 1])] BY <2>4, <2>5
  <2>7. ShapeUpto(m, h, lower, s) BY <2>6 DEF ShapeUpto
  <2>8. m \in 0 .. N BY <1>0
  <2> QED BY <2>7, <2>8
<1>4. \A m \in 0 .. N : m \in T
  <2> HIDE DEF T
  <2> QED BY <1>0, <1>2, <1>3, Upward
<1>5. \E s : ShapeUpto(N, h, lower, s) BY <1>0, <1>4
<1> DEFINE g == CHOOSE s : ShapeUpto(N, h, lower, s)
<1>6. ShapeUpto(N, h, lower, g) BY <1>5, Zenon
<1>7. \A v : Shape(h, v, lower) = g[N][v] BY Zenon DEF Shape, ShapeUpto, Shaped, N
<1> HIDE DEF g
<1>8. ShapesOf(h, lower, g)
  <2>1. \A k \in 0 .. N : g[k] = Shaped(h, lower, k, g[k - 1]) BY <1>6, Zenon DEF ShapeUpto
  <2> QED BY <2>1 DEF ShapesOf
<1> QED BY <1>7, <1>8

LEMMA ShapesAlike ==
  ASSUME NEW h, NEW f, NEW T \in SUBSET Value, Alike(h, f, T), NEW lower, NEW v \in T
  PROVE  Shape(f, v, lower) = Shape(h, v, lower)
<1>1. PICK a : ShapesOf(h, lower, a) /\ \A w : Shape(h, w, lower) = a[N][w] BY ShapeIs
<1>2. PICK b : ShapesOf(f, lower, b) /\ \A w : Shape(f, w, lower) = b[N][w] BY ShapeIs
<1>3. N \in Nat BY NNat
<1> DEFINE Same(k) == \A u \in T : b[k][u] = a[k][u] K == {k \in 0 .. N : Same(k)}
<1>4. ASSUME NEW k \in 0 .. N, k = 0 \/ Same(k - 1), NEW u \in T PROVE b[k][u] = a[k][u]
  <2>1. /\ IsList(f, u) <=> IsList(h, u)
        /\ IsArray(f, u) <=> IsArray(h, u)
    BY DEF Alike, IsList
  <2>2. /\ a[k] = Shaped(h, lower, k, a[k - 1])
        /\ b[k] = Shaped(f, lower, k, b[k - 1])
    BY <1>1, <1>2 DEF ShapesOf
  <2>3. CASE ~IsList(h, u) BY <2>1, <2>2, <2>3 DEF Shaped
  <2>4. CASE IsList(h, u)
    <3> DEFINE e == Elements(h, u) x == a[k - 1] y == b[k - 1]
    <3>1. Elements(f, u) = e /\ \A i \in DOMAIN e : e[i] \in T BY ConsesAlike
    <3>2. /\ a[k][u] = <<"list", IF k = 0 THEN <<>> ELSE [i \in DOMAIN e |-> x[e[i]]]>>
          /\ b[k][u] = <<"list", IF k = 0 THEN <<>> ELSE [i \in DOMAIN e |-> y[e[i]]]>>
      BY <2>1, <2>2, <2>4, <3>1 DEF Shaped
    <3>3. k # 0 => \A i \in DOMAIN e : x[e[i]] = y[e[i]] BY <1>4, <3>1
    <3> HIDE DEF e, x, y
    <3> QED BY <3>2, <3>3
  <2> QED BY <2>3, <2>4
<1>5. 0 \in K BY <1>3, <1>4
<1>6. ASSUME NEW k \in 1 .. N, k - 1 \in K PROVE k \in K
  <2>1. k \in 0 .. N /\ Same(k - 1) BY <1>3, <1>6
  <2>2. Same(k) BY <1>4, <2>1
  <2> QED BY <2>1, <2>2
<1>7. \A k \in 0 .. N : k \in K
  <2> HIDE DEF K
  <2> QED BY <1>3, <1>5, <1>6, Upward
<1>8. Same(N) BY <1>3, <1>7
<1> QED BY <1>1, <1>2, <1>8

FoundKept(g, f, x, L) == Shut(g, L) /\ (\A n \in L : f[n] = g[n]) /\ \A v \in Var : x[v] \in NODE => x[v] \in L

LEMMA SweptKeeps ==
  ASSUME NEW g, NEW x, NEW p, NEW c, NEW I, Right(g, x, p, c, I), NEW f, f = Swept(g, x, p)
  PROVE  FoundKept(g, f, x, Found(g, Vals(x) \cup {p}))
<1> DEFINE L == Found(g, Vals(x) \cup {p}) s == Swept(g, x, p)
<1>1. /\ s \in Heaps /\ L \subseteq Used(g) /\ Shut(g, L) /\ Used(s) = L
      /\ (\A n \in L : s[n] = g[n]) /\ (\A n \in NODE \ L : s[n] = Free)
      /\ (p \in NODE => p \in L) /\ (\A v \in Var : x[v] \in NODE => x[v] \in L)
      /\ \A S : Found(g, S) \subseteq L => Found(s, S) = Found(g, S)
  BY SweptIs
<1>2. f = s OBVIOUS
<1> HIDE DEF s, L
<1>3. FoundKept(g, f, x, L) BY <1>1, <1>2 DEF FoundKept
<1> QED BY <1>3 DEF L

LEMMA ValuesStep ==
  ASSUME DataTypeOK, PlistIsPrivate, SafeCall, NEW v \in Var, val'[v] = val[v]
  PROVE  Tree(heap', val[v]) = Tree(heap, val[v])
<1> DEFINE c == Conses(heap, plist) I == Inside(heap, val, c)
<1>0. Right(heap, val, plist, c, I) BY ToRight
<1>1. \E g, d, J : Step(c, I, g, d, J) /\ SafeStep(I, g) BY SafeCallStep
<1> HIDE DEF c, I
<1>2. PICK g, d, J : Step(c, I, g, d, J) /\ SafeStep(I, g) BY <1>1
<1> DEFINE f == heap' x == val' p == plist' L == Found(g, Vals(x) \cup {p})
           T == (L \cap I) \cup Word \cup {Nil}
<1>3. Right(g, x, p, d, J) /\ f = Swept(g, x, p) BY <1>2 DEF Step
<1>4. heap \in Heaps /\ ListsEnd(heap) /\ Shut(heap, I) /\ I \subseteq NODE /\ (val[v] \in NODE => val[v] \in I)
      /\ val[v] \in Value
  BY <1>0 DEF Right, Used
<1>5. x[v] = val[v] OBVIOUS
<1> HIDE DEF f, x, p
<1>6. Shut(g, L) /\ (\A n \in L : f[n] = g[n]) /\ (x[v] \in NODE => x[v] \in L)
  BY <1>3, SweptKeeps DEF FoundKept
<1> HIDE DEF L
<1>7. val[v] \in T BY <1>4, <1>5, <1>6, NotNode
<1>8. T \in SUBSET Value BY <1>4 DEF Value
<1>9. ASSUME NEW u \in L \cap I
      PROVE  /\ IsCons(f, u) <=> IsCons(heap, u)
             /\ IsArray(f, u) <=> IsArray(heap, u)
             /\ IsCons(heap, u) => /\ f[u].car = heap[u].car /\ f[u].cdr = heap[u].cdr
                                   /\ heap[u].car \in T /\ heap[u].cdr \in T
  <2>1. f[u] = g[u] /\ (g[u] = heap[u] \/ (IsArray(heap, u) /\ IsArray(g, u)))
    BY <1>2, <1>6 DEF SafeStep
  <2>2. CASE IsArray(heap, u) /\ IsArray(g, u) BY <2>1, <2>2 DEF IsArray, IsCons
  <2>3. CASE g[u] = heap[u]
    <3>1. (IsCons(f, u) <=> IsCons(heap, u)) /\ (IsArray(f, u) <=> IsArray(heap, u))
      BY <2>1, <2>3 DEF IsCons, IsArray
    <3>2. ASSUME IsCons(heap, u) PROVE heap[u].car \in T /\ heap[u].cdr \in T
      <4>1. Parts(heap, u) = {heap[u].car, heap[u].cdr} /\ Parts(g, u) = {heap[u].car, heap[u].cdr}
        BY <2>3, <3>2, PartsOf DEF IsCons
      <4>2. \A m \in {heap[u].car, heap[u].cdr} : m \in NODE => m \in L \cap I
        BY <1>4, <1>6, <4>1 DEF Shut
      <4>3. heap[u].car \in Value /\ heap[u].cdr \in Value BY <1>4, <4>1, PartsValue
      <4> QED BY <4>2, <4>3, NotNode
    <3> QED BY <2>1, <2>3, <3>1, <3>2
  <2> QED BY <2>1, <2>2, <2>3
<1>10. Alike(heap, f, T)
  <2>1. \A u \in Word \cup {Nil} : ~IsCons(f, u) /\ ~IsArray(f, u) /\ ~IsCons(heap, u) /\ ~IsArray(heap, u)
    BY NotNode DEF IsCons, IsArray
  <2> HIDE DEF T
  <2>2. \A u \in T : u \in L \cap I \/ u \in Word \cup {Nil} BY DEF T
  <2> QED BY <1>9, <2>1, <2>2 DEF Alike
<1> HIDE DEF T
<1>11. Shape(f, val[v], FALSE) = Shape(heap, val[v], FALSE)
  <2> DEFINE b == FALSE
  <2> HIDE DEF b
  <2>1. Shape(f, val[v], b) = Shape(heap, val[v], b) BY <1>7, <1>8, <1>10, ShapesAlike
  <2> QED BY <2>1 DEF b
<1> QED BY <1>11 DEF Tree, f

\* Only an assignment to the variable or a primitive with a dot changes the list
\* that a variable holds, and a property only its own PPROP or REMPROP
\* (lists.c:368-402, logodata.c:493-605).
THEOREM DataStays == DataSpec => ValuesStay
<1> DEFINE Inv == DataTypeOK /\ PlistIsPrivate
           A == ~dotted' /\ Plain => \A v \in Var : val'[v] = val[v] => Tree(heap', val[v]) = Tree(heap, val[v])
<1>1. Inv /\ [DataNext]_data_vars => [A]_data_vars
  <2>1. DataNext /\ ~dotted' => SafeCall BY DEF DataNext
  <2> QED BY <2>1, ValuesStep
<1>2. DataSpec => ListsAreValues BY <1>1, DataTypes, PTL DEF DataSpec, ListsAreValues
<1> QED BY <1>2, PropsKept DEF ValuesStay
----
(* Values that do not go round: how deep they are, and what they are. *)

Tidy(h) == h \in Heaps /\ ListsEnd(h) /\ Shut(h, Used(h)) /\ Acyclic(h, Used(h))
Fine(h, v) == Held(Used(h), v)
Depth(h, v) == Cardinality(Found(h, {v}))

LEMMA PartsFine ==
  ASSUME NEW h, Tidy(h), NEW n \in Used(h), NEW w \in Parts(h, n)
  PROVE  Fine(h, w) /\ n \notin Found(h, {w})
<1>1. h \in Heaps /\ Shut(h, Used(h)) /\ n \notin Found(h, Parts(h, n)) BY DEF Tidy, Acyclic
<1>2. w \in Value /\ (w \in NODE => w \in Used(h)) BY <1>1, PartsValue DEF Shut
<1>3. \A m \in {w} : m \in NODE => m \in Found(h, Parts(h, n)) BY FoundHas
<1>4. Found(h, {w}) \subseteq Found(h, Parts(h, n)) BY <1>3, FoundIn
<1> QED BY <1>1, <1>2, <1>4 DEF Fine, Held

LEMMA DepthIs ==
  ASSUME NEW h, Tidy(h), NEW v, Fine(h, v)
  PROVE  /\ Depth(h, v) \in 0 .. N /\ Found(h, {v}) \subseteq Used(h)
         /\ v \in NODE => v \in Found(h, {v}) /\ Depth(h, v) > 0
         /\ \A n \in Found(h, {v}) : \A w \in Parts(h, n) : Fine(h, w) /\ Depth(h, w) < Depth(h, v)
<1> DEFINE F == Found(h, {v})
<1>1. F \subseteq NODE /\ (v \in NODE => v \in F) /\ (\A n \in F : \A m \in Parts(h, n) : m \in NODE => m \in F)
  BY FoundHas
<1>2. F \subseteq Used(h)
  <2>1. Shut(h, Used(h)) /\ \A m \in {v} : m \in NODE => m \in Used(h) BY DEF Tidy, Fine, Held
  <2> QED BY <2>1, FoundLeast DEF Shut
<1>3. IsFiniteSet(F) /\ Cardinality(F) <= N /\ Cardinality(F) \in Nat
  <2>1. F \in SUBSET NODE BY <1>1
  <2> HIDE DEF F
  <2>2. IsFiniteSet(F) /\ Cardinality(F) <= N BY <2>1, FS_Subset DEF N
  <2> QED BY <2>2, FS_CardinalityType
<1>4. ASSUME NEW n \in F, NEW w \in Parts(h, n)
      PROVE  Fine(h, w) /\ Depth(h, w) < Depth(h, v)
  <2> DEFINE G == Found(h, {w})
  <2>1. Fine(h, w) /\ n \notin G BY <1>2, PartsFine
  <2>2. G \subseteq F
    <3>1. \A m \in {w} : m \in NODE => m \in Found(h, {v}) BY <1>1
    <3> QED BY <3>1, FoundIn
  <2> HIDE DEF F, G
  <2>3. G \in SUBSET F /\ G # F BY <2>1, <2>2, <1>4
  <2>4. Cardinality(G) <= Cardinality(F) /\ Cardinality(G) # Cardinality(F) /\ IsFiniteSet(G)
    BY <1>3, <2>3, FS_Subset
  <2>5. Cardinality(G) \in Nat BY <2>4, FS_CardinalityType
  <2>6. Cardinality(G) < Cardinality(F) BY <1>3, <2>4, <2>5
  <2> QED BY <2>1, <2>6 DEF Depth, F, G
<1>5. v \in NODE => Cardinality(F) > 0
  <2> HIDE DEF F
  <2>1. v \in NODE => F # {} BY <1>1
  <2>2. F # {} => Cardinality(F) # 0 BY <1>3, FS_EmptySet
  <2> QED BY <1>3, <2>1, <2>2
<1>6. Cardinality(F) \in 0 .. N BY <1>3, NNat
<1> QED BY <1>1, <1>2, <1>4, <1>5, <1>6 DEF Depth

\* The conses of a list, and their depths.
LEMMA TidySpine ==
  ASSUME NEW h, Tidy(h), NEW v, Fine(h, v)
  PROVE  /\ FullSpine(h, v, Conses(h, v))
         /\ \A i \in 1 .. Len(Conses(h, v)) :
               /\ Conses(h, v)[i] \in Found(h, {v}) /\ Fine(h, h[Conses(h, v)[i]].car)
               /\ Depth(h, h[Conses(h, v)[i]].car) < Depth(h, v)
<1> DEFINE c == Conses(h, v) l == Len(c) F == Found(h, {v})
<1>1. IsSpine(h, v, c) /\ c \in Seq(NODE) /\ l \in Nat /\ l <= N + 1 /\ (l <= N => FullSpine(h, v, c))
  BY ConsesSpine
<1> HIDE DEF c
<1>2. /\ \A i \in 1 .. l : c[i] \in NODE /\ h[c[i]].t = "cons" /\ Parts(h, c[i]) = {h[c[i]].car, h[c[i]].cdr}
      /\ \A i \in 1 .. l : i < l => c[i + 1] = h[c[i]].cdr
  <2>1. \A i \in 1 .. l : c[i] \in NODE /\ h[c[i]].t = "cons" BY <1>1 DEF IsSpine
  <2> QED BY <1>1, <2>1, PartsOf DEF IsSpine
<1>3. \A i \in 1 .. l : c[i] \in F
  <2>1. h \in Heaps /\ Shut(h, F) /\ (v \in NODE => v \in F) BY FoundShut, FoundHas DEF Tidy
  <2> HIDE DEF F, l
  <2> QED BY <1>1, <2>1, SpineIn DEF l
<1>4. \A i \in 1 .. l : Fine(h, h[c[i]].car) /\ Depth(h, h[c[i]].car) < Depth(h, v)
  BY <1>2, <1>3, DepthIs
<1>5. Distinct(c)
  <2> SUFFICES ASSUME NEW i \in 1 .. l, NEW j \in 1 .. l, i < j, c[i] = c[j] PROVE FALSE
    <3>1. \A i, j \in 1 .. l : i < j \/ j < i \/ i = j BY <1>1
    <3> QED BY <3>1 DEF Distinct
  <2> DEFINE G == Found(h, Parts(h, c[i])) n == j - i - 1 T == {d \in 0 .. n : c[i + 1 + d] \in G}
  <2>0. n \in Nat /\ i + 1 + n = j /\ i < l BY <1>1
  <2>a. (\A m \in Parts(h, c[i]) : m \in NODE => m \in G) /\ (\A m \in G : \A w \in Parts(h, m) : w \in NODE => w \in G)
    BY FoundHas
  <2> HIDE DEF G, l
  <2>1. 0 \in T
    <3>0. i + 1 \in 1 .. l /\ i + 1 + 0 = i + 1 BY <1>1, <2>0
    <3>1. c[i + 1] \in Parts(h, c[i]) BY <1>2, <2>0
    <3>2. c[i + 1] \in G BY <1>2, <2>a, <3>0, <3>1
    <3> QED BY <2>0, <3>0, <3>2
  <2>2. ASSUME NEW d \in 1 .. n, d - 1 \in T PROVE d \in T
    <3>1. c[i + 1 + (d - 1)] \in G /\ i + 1 + (d - 1) = i + d /\ i + d \in 1 .. l /\ i + d < l /\ i + d + 1 = i + 1 + d
          /\ i + 1 + d \in 1 .. l
      BY <1>1, <2>0, <2>2
    <3>2. c[i + 1 + d] \in Parts(h, c[i + d]) BY <1>2, <3>1
    <3>3. c[i + 1 + d] \in G BY <1>2, <2>a, <3>1, <3>2
    <3> QED BY <2>0, <3>3
  <2>3. \A d \in 0 .. n : d \in T
    <3> HIDE DEF T, n
    <3> QED BY <2>0, <2>1, <2>2, Upward
  <2>4. c[j] \in G BY <2>0, <2>3
  <2>5. c[i] \in Used(h)
    <3>1. F \subseteq Used(h) BY DepthIs
    <3> QED BY <1>3, <3>1
  <2> QED BY <2>4, <2>5 DEF Tidy, Acyclic, G
<1>6. FullSpine(h, v, c)
  <2>1. l <= N BY <1>1, <1>5, DistinctFits
  <2> QED BY <1>1, <2>1
<1> QED BY <1>3, <1>4, <1>6 DEF c

SeqFine(h, e) == \A i \in 1 .. Len(e) : Fine(h, e[i])
SeqBelow(h, e, v) == \A i \in 1 .. Len(e) : Depth(h, e[i]) < Depth(h, v)

LEMMA ElementsFine ==
  ASSUME NEW h, Tidy(h), NEW v, Fine(h, v)
  PROVE  LET e == Elements(h, v)
         IN /\ e \in Seq(Value) /\ DOMAIN e = 1 .. Len(e) /\ Len(e) = Len(Conses(h, v)) /\ Len(e) \in Nat
            /\ SeqFine(h, e) /\ SeqBelow(h, e, v)
<1> DEFINE c == Conses(h, v) e == Elements(h, v)
<1>1. e = [i \in 1 .. Len(c) |-> h[c[i]].car] /\ DOMAIN e = 1 .. Len(c)
      /\ ((\A i \in 1 .. Len(c) : h[c[i]].car \in Value) => e \in Seq(Value) /\ Len(e) = Len(c))
  BY ElementsAre
<1>2. \A i \in 1 .. Len(c) : Fine(h, h[c[i]].car) /\ Depth(h, h[c[i]].car) < Depth(h, v)
  BY TidySpine
<1> HIDE DEF c, e
<1>3. e \in Seq(Value) /\ Len(e) = Len(c) BY <1>1, <1>2 DEF Fine, Held
<1>4. \A i \in 1 .. Len(e) : e[i] = h[c[i]].car BY <1>1, <1>3
<1>5. SeqFine(h, e) /\ SeqBelow(h, e, v) BY <1>2, <1>3, <1>4 DEF SeqFine, SeqBelow
<1> QED BY <1>1, <1>3, <1>5 DEF c, e

\* Shape takes no more than the depth of a value.
LEMMA ShapeStable ==
  ASSUME NEW h, Tidy(h), NEW lower, NEW s, ShapesOf(h, lower, s)
  PROVE  \A k \in 0 .. N : \A v : Fine(h, v) /\ Depth(h, v) <= k => s[k][v] = s[N][v]
<1> DEFINE Stable(k) == \A v : Fine(h, v) /\ Depth(h, v) <= k => \A j \in k .. N : s[j][v] = s[k][v]
           T == {k \in 0 .. N : Stable(k)}
<1>0. N \in Nat BY NNat
<1>1. ASSUME NEW v, Fine(h, v), NEW k \in 0 .. N, Depth(h, v) <= k, NEW j \in k .. N,
             k > 0 => Stable(k - 1)
      PROVE  s[j][v] = s[k][v]
  <2>1. j \in 0 .. N /\ s[j] = Shaped(h, lower, j, s[j - 1]) /\ s[k] = Shaped(h, lower, k, s[k - 1])
    BY <1>0, <1>1 DEF ShapesOf
  <2>2. v \in Value BY <1>1 DEF Fine, Held
  <2>3. CASE ~IsList(h, v) BY <2>1, <2>2, <2>3 DEF Shaped
  <2>4. CASE IsList(h, v)
    <3> DEFINE e == Elements(h, v) x == s[j - 1] y == s[k - 1]
    <3>1. /\ s[j][v] = <<"list", IF j = 0 THEN <<>> ELSE [i \in DOMAIN e |-> x[e[i]]]>>
          /\ s[k][v] = <<"list", IF k = 0 THEN <<>> ELSE [i \in DOMAIN e |-> y[e[i]]]>>
      BY <2>1, <2>2, <2>4 DEF Shaped
    <3>3. \A i \in DOMAIN e : Fine(h, e[i]) /\ Depth(h, e[i]) < Depth(h, v)
      BY <1>1, ElementsFine DEF SeqFine, SeqBelow
    <3>4. Depth(h, v) \in 0 .. N /\ \A i \in DOMAIN e : Depth(h, e[i]) \in 0 .. N
      BY <1>1, <3>3, DepthIs
    <3> HIDE DEF e
    <3>5. CASE DOMAIN e = {}
      <4>1. j = 0 \/ k = 0 \/ [i \in DOMAIN e |-> x[e[i]]] = [i \in DOMAIN e |-> y[e[i]]] BY <3>5
      <4>2. \A z : [i \in DOMAIN e |-> z[e[i]]] = <<>> BY <3>5
      <4> HIDE DEF x, y
      <4> QED BY <3>1, <4>2
    <3>6. CASE DOMAIN e # {}
      <4>1. k > 0 /\ j > 0 /\ j - 1 \in k - 1 .. N BY <1>0, <1>1, <3>3, <3>4, <3>6
      <4>2. \A i \in DOMAIN e : Depth(h, e[i]) <= k - 1 BY <1>1, <3>3, <3>4, <4>1
      <4>3. \A i \in DOMAIN e : x[e[i]] = y[e[i]] BY <1>1, <3>3, <4>1, <4>2
      <4> HIDE DEF x, y
      <4> QED BY <3>1, <4>1, <4>3
    <3> QED BY <3>5, <3>6
  <2> QED BY <2>3, <2>4
<1>2. 0 \in T BY <1>0, <1>1
<1>3. ASSUME NEW k \in 1 .. N, k - 1 \in T PROVE k \in T
  <2>1. k \in 0 .. N /\ Stable(k - 1) BY <1>0, <1>3
  <2> HIDE DEF T
  <2>2. Stable(k) BY <1>1, <2>1
  <2> QED BY <2>1, <2>2 DEF T
<1>4. \A k \in 0 .. N : k \in T
  <2> HIDE DEF T
  <2> QED BY <1>0, <1>2, <1>3, Upward
<1>5. \A k \in 0 .. N : N \in k .. N BY <1>0
<1> QED BY <1>4, <1>5

\* A list is the list of what its elements are.
LEMMA ShapeOfList ==
  ASSUME NEW h, Tidy(h), NEW lower, NEW v, Fine(h, v), IsList(h, v)
  PROVE  Shape(h, v, lower) = <<"list", [i \in 1 .. Len(Conses(h, v)) |-> Shape(h, Elements(h, v)[i], lower)]>>
<1>1. PICK s : ShapesOf(h, lower, s) /\ \A w : Shape(h, w, lower) = s[N][w] BY ShapeIs
<1> DEFINE e == Elements(h, v) l == Len(Conses(h, v)) x == s[N - 1] y == s[N]
<1>2. N \in Nat /\ y = Shaped(h, lower, N, x) /\ v \in Value BY <1>1, NNat DEF ShapesOf, Fine, Held
<1>3. y[v] = <<"list", IF N = 0 THEN <<>> ELSE [i \in DOMAIN e |-> x[e[i]]]>> BY <1>2 DEF Shaped
<1>4. DOMAIN e = 1 .. l BY ElementsFine
<1>5. \A i \in DOMAIN e : Fine(h, e[i]) /\ Depth(h, e[i]) < Depth(h, v)
  BY ElementsFine DEF SeqFine, SeqBelow
<1>6. Depth(h, v) \in 0 .. N /\ \A i \in DOMAIN e : Depth(h, e[i]) \in 0 .. N BY <1>5, DepthIs
<1> HIDE DEF e, l
<1>7. \A i \in DOMAIN e : N > 0 /\ N - 1 \in 0 .. N /\ Depth(h, e[i]) <= N - 1 BY <1>2, <1>5, <1>6
<1>8. \A i \in DOMAIN e : x[e[i]] = y[e[i]]
  <2> SUFFICES ASSUME NEW i \in DOMAIN e PROVE x[e[i]] = y[e[i]] OBVIOUS
  <2>1. N - 1 \in 0 .. N /\ Fine(h, e[i]) /\ Depth(h, e[i]) <= N - 1 BY <1>5, <1>7
  <2> QED BY <1>1, <2>1, ShapeStable
<1> HIDE DEF x
<1>9. y[v] = <<"list", [i \in 1 .. l |-> y[e[i]]]>>
  <2>1. CASE N = 0
    <3>1. DOMAIN e = {} BY <1>7, <2>1
    <3>2. [i \in 1 .. l |-> y[e[i]]] = <<>> BY <1>4, <3>1
    <3> QED BY <1>3, <2>1, <3>2
  <2>2. CASE N # 0 BY <1>3, <1>4, <1>8, <2>2
  <2> QED BY <2>1, <2>2
<1> HIDE DEF y
<1>10. \A w : Shape(h, w, lower) = y[w] BY <1>1 DEF y
<1>11. [i \in 1 .. l |-> Shape(h, e[i], lower)] = [i \in 1 .. l |-> y[e[i]]] BY <1>10
<1> QED BY <1>9, <1>10, <1>11 DEF e, l

LEMMA ShapeOfOther ==
  ASSUME NEW h, NEW lower, NEW v \in Value, ~IsList(h, v)
  PROVE  Shape(h, v, lower) = IF IsArray(h, v) THEN <<"array", v>> ELSE <<"word", IF lower THEN Lower(v) ELSE v>>
<1>1. PICK s : ShapesOf(h, lower, s) /\ \A w : Shape(h, w, lower) = s[N][w] BY ShapeIs
<1>2. s[N] = Shaped(h, lower, N, s[N - 1]) BY <1>1, NNat DEF ShapesOf
<1> QED BY <1>1, <1>2 DEF Shaped
----
(* What a primitive outputs, and what it leaves alone. *)

\* g is h and more.
Extends(h, g) ==
    /\ Tidy(g) /\ \A n \in Used(h) : g[n] = h[n]
    /\ \A v : Fine(h, v) => Fine(g, v) /\ \A lower : Shape(g, v, lower) = Shape(h, v, lower)

LEMMA ExtendsShape ==
  ASSUME NEW h, Tidy(h), NEW g, \A n \in Used(h) : g[n] = h[n], NEW v, Fine(h, v), NEW lower
  PROVE  Shape(g, v, lower) = Shape(h, v, lower)
<1> DEFINE T == {u \in Value : Fine(h, u)}
<1>1. T \in SUBSET Value /\ v \in T BY DEF Fine, Held
<1>2. h \in Heaps /\ Shut(h, Used(h)) BY DEF Tidy
<1>3. ASSUME NEW u \in T
      PROVE  /\ IsCons(g, u) <=> IsCons(h, u)
             /\ IsArray(g, u) <=> IsArray(h, u)
             /\ IsCons(h, u) => /\ g[u].car = h[u].car /\ g[u].cdr = h[u].cdr
                                /\ h[u].car \in T /\ h[u].cdr \in T
  <2>1. u \in NODE => u \in Used(h) /\ g[u] = h[u] BY DEF Fine, Held
  <2>2. ASSUME IsCons(h, u) PROVE h[u].car \in T /\ h[u].cdr \in T
    <3>1. Parts(h, u) = {h[u].car, h[u].cdr} BY <2>2, PartsOf DEF IsCons
    <3>2. Held(Used(h), u) BY DEF Fine
    <3>3. Held(Used(h), h[u].car) /\ Held(Used(h), h[u].cdr) BY <1>2, <3>1, <3>2, PartsHeld
    <3> QED BY <3>3 DEF Fine, Held
  <2> QED BY <2>1, <2>2 DEF IsCons, IsArray
<1>4. Alike(h, g, T)
  <2> HIDE DEF T
  <2> QED BY <1>3 DEF Alike
<1> HIDE DEF T
<1> QED BY <1>1, <1>4, ShapesAlike

LEMMA OutputExtends ==
  ASSUME NEW h, Tidy(h), NEW r, Output(h, Used(h), r) PROVE Extends(h, r.h) /\ Fine(r.h, r.v)
<1> DEFINE U == Used(h) g == r.h
<1>1. PICK D \in SUBSET FreeNodes(h) :
          /\ \A n \in NODE \ D : r.h[n] = h[n]
          /\ \A n \in D : /\ r.h[n] # Free
                          /\ \A m \in Parts(r.h, n) : m \in NODE => m \in U \cup D
                          /\ \E T : Shut(r.h, T) /\ n \notin T /\ \A m \in Parts(r.h, n) : m \in NODE => m \in T
          /\ r.v \in Value /\ (r.v \in NODE => r.v \in U \cup D)
  BY DEF Output
<1>2. g \in Heaps /\ ListsEnd(g) BY DEF Output
<1>3. h \in Heaps /\ ListsEnd(h) /\ Shut(h, U) /\ Acyclic(h, U) BY DEF Tidy
<1>4. /\ \A n \in U : g[n] = h[n] /\ n \notin D /\ n \in NODE
      /\ D \subseteq NODE /\ (\A n \in D : g[n] # Free /\ h[n] = Free)
  BY <1>1, <1>3 DEF Used, FreeNodes
<1>5. Used(g) = U \cup D BY <1>1, <1>4 DEF Used
<1> HIDE DEF U
<1>6. \A n \in U : Parts(g, n) = Parts(h, n) BY <1>4, SameParts
<1>7. Shut(g, U \cup D) /\ Acyclic(g, U \cup D)
  <2>1. \A n \in D : \A m \in Parts(g, n) : m \in NODE => m \in U \cup D BY <1>1
  <2>2. \A n \in D : \E T : Shut(g, T) /\ n \notin T /\ \A m \in Parts(g, n) : m \in NODE => m \in T
    BY <1>1
  <2> QED BY <1>3, <1>4, <1>6, <2>1, <2>2, AcyclicFresh
<1>8. Tidy(g) BY <1>2, <1>5, <1>7 DEF Tidy
<1>9. \A n \in Used(h) : g[n] = h[n] BY <1>4 DEF U
<1>10. ASSUME NEW v, Fine(h, v) PROVE Fine(g, v) /\ \A lower : Shape(g, v, lower) = Shape(h, v, lower)
  <2>1. Fine(g, v) BY <1>5, <1>10 DEF Fine, Held, U
  <2> HIDE DEF g
  <2>2. \A lower : Shape(g, v, lower) = Shape(h, v, lower) BY <1>9, <1>10, ExtendsShape
  <2> QED BY <2>1, <2>2
<1>11. Fine(g, r.v) BY <1>1, <1>5 DEF Fine, Held
<1> QED BY <1>8, <1>9, <1>10, <1>11 DEF Extends

\* Copies of a sequence before a list: its conses and its elements.
JoinedConses(c, d) == [i \in 1 .. Len(c) + Len(d) |-> IF i <= Len(c) THEN c[i] ELSE d[i - Len(c)]]

LEMMA CopiedConses ==
  ASSUME NEW h, Tidy(h), NEW s \in Seq(Value), NEW tail, Fine(h, tail), IsList(h, tail), NEW r, NEW c,
         Copies(h, s, tail, r, c), Extends(h, r.h)
  PROVE  FullSpine(r.h, r.v, JoinedConses(c, Conses(h, tail)))
<1> DEFINE d == Conses(h, tail) g == r.h m == Len(c) q == Len(d) z == JoinedConses(c, d)
<1>1. /\ c \in Seq(NODE) /\ Len(s) = m /\ m \in Nat /\ g \in Heaps
      /\ \A i \in 1 .. m : g[c[i]] = Pair(s[i], IF i = m THEN tail ELSE c[i + 1])
      /\ r.v = IF m = 0 THEN tail ELSE c[1]
  BY DEF Copies
<1>2. FullSpine(h, tail, d) /\ IsSpine(h, tail, d) /\ d \in Seq(NODE) /\ q \in Nat
  <2>1. FullSpine(h, tail, d) BY TidySpine
  <2> HIDE DEF d
  <2> QED BY <2>1 DEF FullSpine, IsSpine
<1>3. /\ \A i \in 1 .. q : d[i] \in NODE /\ h[d[i]].t = "cons" /\ g[d[i]] = h[d[i]]
      /\ \A i \in 1 .. q : i < q => d[i + 1] = h[d[i]].cdr
      /\ q > 0 => d[1] = tail
      /\ q = 0 => After(h, tail, d) = tail
      /\ q > 0 => After(h, tail, d) = h[d[q]].cdr
  <2>1. \A i \in 1 .. q : d[i] \in NODE /\ h[d[i]].t = "cons" BY <1>2 DEF IsSpine
  <2>2. \A i \in 1 .. q : d[i] \in Used(h) BY <2>1, UsedIs DEF Tidy
  <2>3. \A n \in Used(h) : g[n] = h[n] BY DEF Extends
  <2> QED BY <1>2, <2>1, <2>2, <2>3 DEF IsSpine, After
<1>4. ~IsCons(h, After(h, tail, d)) BY <1>2 DEF FullSpine
<1>5. \A v : Fine(h, v) /\ ~IsCons(h, v) => ~IsCons(g, v) BY DEF Extends, Fine, Held, IsCons
<1>6. Fine(h, After(h, tail, d))
  <2>1. CASE q = 0 BY <1>3, <2>1
  <2>2. CASE q > 0
    <3>1. q \in 1 .. q /\ d[q] \in Used(h) /\ h[d[q]].cdr \in Parts(h, d[q])
      BY <1>2, <1>3, <2>2, UsedIs, PartsOf DEF Tidy
    <3> QED BY <1>3, <2>2, <3>1, PartsFine
  <2> QED BY <1>2, <2>1, <2>2
<1>7. /\ z \in Seq(NODE) /\ Len(z) = m + q
      /\ \A i \in 1 .. m + q : z[i] = IF i <= m THEN c[i] ELSE d[i - m]
  <2>0. \A i \in 1 .. m + q : i <= m \/ i - m \in 1 .. q BY <1>1, <1>2
  <2> HIDE DEF d
  <2>1. z = [i \in 1 .. m + q |-> IF i <= m THEN c[i] ELSE d[i - m]] BY DEF JoinedConses
  <2>2. \A i \in 1 .. m : c[i] \in NODE BY <1>1
  <2> HIDE DEF m, q
  <2>3. \A i \in 1 .. m + q : i <= m => i \in 1 .. m BY <1>1, <1>2
  <2>4. z \in [1 .. m + q -> NODE] BY <1>3, <2>0, <2>1, <2>2, <2>3
  <2>5. m + q \in Nat BY <1>1, <1>2
  <2>6. z \in Seq(NODE) /\ Len(z) = m + q BY <2>4, <2>5
  <2> QED BY <2>1, <2>6
<1>8. /\ \A i \in 1 .. m : g[c[i]].t = "cons" /\ g[c[i]].cdr = IF i = m THEN tail ELSE c[i + 1]
  BY <1>1, PairIs
<1> HIDE DEF d, g, m, q, z
<1>9. \A i \in 1 .. m + q : g[z[i]].t = "cons"
  <2> SUFFICES ASSUME NEW i \in 1 .. m + q PROVE g[z[i]].t = "cons" OBVIOUS
  <2>1. (i <= m /\ i \in 1 .. m) \/ (~(i <= m) /\ i - m \in 1 .. q) BY <1>1, <1>2
  <2>2. CASE i <= m /\ i \in 1 .. m BY <1>7, <1>8, <2>2
  <2>3. CASE ~(i <= m) /\ i - m \in 1 .. q BY <1>3, <1>7, <2>3
  <2> QED BY <2>1, <2>2, <2>3
<1>10. m + q > 0 => z[1] = r.v
  <2>1. CASE m = 0
    <3>1. q > 0 => 1 \in 1 .. m + q /\ ~(1 <= m) /\ 1 - m = 1 BY <1>1, <1>2, <2>1
    <3> QED BY <1>1, <1>2, <1>3, <1>7, <2>1, <3>1
  <2>2. CASE m # 0
    <3>1. 1 \in 1 .. m + q /\ 1 <= m BY <1>1, <1>2, <2>2
    <3> QED BY <1>1, <1>7, <2>2, <3>1
  <2> QED BY <2>1, <2>2
<1>11. \A i \in 1 .. m + q : i < m + q => z[i + 1] = g[z[i]].cdr
  <2> SUFFICES ASSUME NEW i \in 1 .. m + q, i < m + q PROVE z[i + 1] = g[z[i]].cdr OBVIOUS
  <2>0. i + 1 \in 1 .. m + q BY <1>1, <1>2
  <2>1. CASE i < m
    <3>1. i \in 1 .. m /\ i <= m /\ i + 1 <= m /\ i # m BY <1>1, <2>1
    <3> QED BY <1>7, <1>8, <2>0, <3>1
  <2>2. CASE i = m
    <3>1. i \in 1 .. m /\ i <= m /\ ~(i + 1 <= m) /\ i + 1 - m = 1 /\ q > 0 BY <1>1, <1>2, <2>2
    <3> QED BY <1>3, <1>7, <1>8, <2>0, <2>2, <3>1
  <2>3. CASE i > m
    <3>1. ~(i <= m) /\ ~(i + 1 <= m) /\ i - m \in 1 .. q /\ i - m < q /\ i + 1 - m = (i - m) + 1
      BY <1>1, <1>2, <2>3
    <3> DEFINE j == i + 1 k == j - m
    <3>2. j \in 1 .. m + q /\ ~(j <= m) /\ k = (i - m) + 1 BY <1>1, <1>2, <2>0, <2>3
    <3>3. z[i] = d[i - m] BY <1>7, <3>1
    <3> HIDE DEF j
    <3>4. z[j] = d[k] BY <1>7, <3>2
    <3> HIDE DEF k
    <3>5. z[j] = d[(i - m) + 1] BY <3>2, <3>4
    <3> QED BY <1>3, <3>1, <3>3, <3>5 DEF j
  <2> QED BY <1>1, <2>1, <2>2, <2>3
<1>12. After(g, r.v, z) = After(h, tail, d)
  <2>1. CASE q > 0
    <3>1. m + q \in 1 .. m + q /\ m + q # 0 /\ ~(m + q <= m) /\ m + q - m = q /\ q \in 1 .. q
      BY <1>1, <1>2, <2>1
    <3> DEFINE j == m + q
    <3>3. j \in 1 .. m + q /\ ~(j <= m) /\ j - m = q BY <1>1, <1>2, <2>1
    <3> HIDE DEF j
    <3>4. z[j] = d[j - m] BY <1>7, <3>3
    <3>2. z[m + q] = d[q] BY <3>3, <3>4 DEF j
    <3> QED BY <1>3, <1>7, <2>1, <3>1, <3>2 DEF After
  <2>2. CASE q = 0 /\ m > 0
    <3>1. m + q = m /\ m \in 1 .. m /\ m # 0 /\ m <= m BY <1>1, <2>2
    <3>2. z[m] = c[m] BY <1>7, <3>1
    <3> QED BY <1>3, <1>7, <1>8, <2>2, <3>1, <3>2 DEF After
  <2>3. CASE q = 0 /\ m = 0
    <3>1. m + q = 0 BY <2>3
    <3> QED BY <1>1, <1>3, <1>7, <2>3, <3>1 DEF After
  <2> QED BY <1>1, <1>2, <2>1, <2>2, <2>3
<1>13. ~IsCons(g, After(g, r.v, z)) BY <1>4, <1>5, <1>6, <1>12
<1> QED BY <1>7, <1>9, <1>10, <1>11, <1>13 DEF FullSpine, IsSpine, d, g, z

\* What the elements of a sequence are.
Mapped(h, e, lower) == [i \in 1 .. Len(e) |-> Shape(h, e[i], lower)]
ListShape(h, e, lower) == <<"list", Mapped(h, e, lower)>>

LEMMA ShapeOfElements ==
  ASSUME NEW h, Tidy(h), NEW lower, NEW v, Fine(h, v), IsList(h, v)
  PROVE  Shape(h, v, lower) = ListShape(h, Elements(h, v), lower)
<1> DEFINE e == Elements(h, v) l == Len(Conses(h, v))
<1>1. Shape(h, v, lower) = <<"list", [i \in 1 .. l |-> Shape(h, e[i], lower)]>> BY ShapeOfList
<1>2. Len(e) = l BY ElementsFine
<1> HIDE DEF e, l
<1>3. Shape(h, v, lower) = <<"list", [i \in 1 .. Len(e) |-> Shape(h, e[i], lower)]>> BY <1>1, <1>2
<1> QED BY <1>3 DEF e, ListShape, Mapped

LEMMA ListKept ==
  ASSUME NEW h, NEW g, Extends(h, g), NEW v, Fine(h, v), IsList(h, v) PROVE IsList(g, v)
BY DEF Extends, Fine, Held, IsList, IsCons

LEMMA CopiedElements ==
  ASSUME NEW h, Tidy(h), NEW s \in Seq(Value), NEW tail, Fine(h, tail), IsList(h, tail), NEW r, NEW c,
         Copies(h, s, tail, r, c), Extends(h, r.h), Fine(r.h, r.v)
  PROVE  IsList(r.h, r.v) /\ Elements(r.h, r.v) = s \o Elements(h, tail)
<1> DEFINE d == Conses(h, tail) e == Elements(h, tail) z == JoinedConses(c, d) g == r.h m == Len(s)
           q == Len(d)
<1>1. /\ c \in Seq(NODE) /\ Len(c) = m /\ m \in Nat /\ g \in Heaps
      /\ \A i \in 1 .. m : c[i] \in NODE /\ g[c[i]] = Pair(s[i], IF i = m THEN tail ELSE c[i + 1])
      /\ r.v = IF m = 0 THEN tail ELSE c[1]
  BY DEF Copies
<1>2. FullSpine(g, r.v, z) BY CopiedConses
<1>3. Conses(g, r.v) = z
  <2> HIDE DEF z
  <2> QED BY <1>2, FullDistinct
<1>4. e \in Seq(Value) /\ Len(e) = q /\ q \in Nat BY ElementsFine
<1>5. FullSpine(h, tail, d) /\ e = [i \in 1 .. q |-> h[d[i]].car]
  <2>1. FullSpine(h, tail, d) BY TidySpine
  <2>2. e = [i \in 1 .. q |-> h[d[i]].car] BY ElementsAre
  <2> QED BY <2>1, <2>2
<1> HIDE DEF d, e
<1>6. \A i \in 1 .. q : d[i] \in NODE /\ g[d[i]] = h[d[i]]
  <2>1. \A i \in 1 .. q : d[i] \in NODE /\ h[d[i]].t = "cons" BY <1>5 DEF FullSpine, IsSpine
  <2>2. \A i \in 1 .. q : d[i] \in Used(h) BY <2>1, UsedIs DEF Tidy
  <2> QED BY <2>1, <2>2 DEF Extends
<1>7. z = [i \in 1 .. m + q |-> IF i <= m THEN c[i] ELSE d[i - m]] BY <1>1 DEF JoinedConses
<1> HIDE DEF z, q
<1>8. Len(z) = m + q
  <2>1. z \in Seq(NODE) /\ DOMAIN z = 1 .. m + q BY <1>2, <1>7 DEF FullSpine, IsSpine
  <2>2. DOMAIN z = 1 .. Len(z) /\ Len(z) \in Nat BY <2>1
  <2> HIDE DEF m
  <2> QED BY <1>1, <1>4, <2>1, <2>2
<1>9. Elements(g, r.v) = [i \in 1 .. m + q |-> g[z[i]].car] BY <1>3, <1>8, ElementsAre
<1>10. s \o e = [i \in 1 .. m + q |-> IF i <= m THEN s[i] ELSE e[i - m]]
  <2> DEFINE x == s \o e
  <2>1. x \in Seq(Value) /\ Len(x) = m + q
        /\ \A i \in 1 .. m + q : x[i] = IF i <= m THEN s[i] ELSE e[i - m]
    BY <1>4, ConcatProperties
  <2> HIDE DEF x, m
  <2>2. x = [i \in 1 .. m + q |-> x[i]] BY <2>1
  <2> QED BY <2>1, <2>2 DEF x
<1> HIDE DEF g, m
<1>11. \A i \in 1 .. m + q : g[z[i]].car = IF i <= m THEN s[i] ELSE e[i - m]
  <2> SUFFICES ASSUME NEW i \in 1 .. m + q PROVE g[z[i]].car = IF i <= m THEN s[i] ELSE e[i - m]
    OBVIOUS
  <2>1. (i <= m /\ i \in 1 .. m) \/ (~(i <= m) /\ i - m \in 1 .. q) BY <1>1, <1>4
  <2>2. CASE i <= m /\ i \in 1 .. m
    <3>1. z[i] = c[i] /\ g[c[i]].car = s[i] BY <1>1, <1>7, <2>2, PairIs
    <3> QED BY <2>2, <3>1
  <2>3. CASE ~(i <= m) /\ i - m \in 1 .. q
    <3> DEFINE k == i - m
    <3>1. z[i] = d[k] BY <1>7, <2>3
    <3> HIDE DEF k
    <3>2. g[d[k]].car = e[k] BY <1>5, <1>6, <2>3 DEF k
    <3> QED BY <2>3, <3>1, <3>2 DEF k
  <2> QED BY <2>1, <2>2, <2>3
<1>12. Elements(g, r.v) = s \o e BY <1>9, <1>10, <1>11
<1>13. IsList(g, r.v)
  <2>1. CASE m = 0
    <3>1. IsList(r.h, tail) BY ListKept
    <3> QED BY <1>1, <2>1, <3>1 DEF g
  <2>2. CASE m # 0
    <3>1. 1 \in 1 .. m BY <1>1, <2>2
    <3>2. c[1] \in NODE /\ g[c[1]].t = "cons" /\ r.v = c[1] BY <1>1, <2>2, <3>1, PairIs
    <3> QED BY <3>2 DEF IsList, IsCons
  <2> QED BY <2>1, <2>2
<1> QED BY <1>12, <1>13 DEF g, e

LEMMA MappedKept ==
  ASSUME NEW h, NEW g, Extends(h, g), NEW e, SeqFine(h, e), NEW lower
  PROVE  Mapped(g, e, lower) = Mapped(h, e, lower)
<1>1. \A i \in 1 .. Len(e) : Shape(g, e[i], lower) = Shape(h, e[i], lower) BY DEF Extends, SeqFine
<1> QED BY <1>1 DEF Mapped

LEMMA SeqFineConcat ==
  ASSUME NEW h, NEW s \in Seq(Value), NEW e \in Seq(Value), SeqFine(h, s), SeqFine(h, e)
  PROVE  s \o e \in Seq(Value) /\ SeqFine(h, s \o e)
<1>1. s \o e \in Seq(Value) /\ Len(s \o e) = Len(s) + Len(e)
      /\ \A i \in 1 .. Len(s) + Len(e) : (s \o e)[i] = IF i <= Len(s) THEN s[i] ELSE e[i - Len(s)]
  BY ConcatProperties
<1> DEFINE z == s \o e m == Len(s) q == Len(e)
<1>2. m \in Nat /\ q \in Nat OBVIOUS
<1> HIDE DEF z, m, q
<1>3. ASSUME NEW i \in 1 .. m + q PROVE Fine(h, z[i])
  <2>1. CASE i <= m
    <3>1. z[i] = s[i] /\ i \in 1 .. m BY <1>1, <1>2, <2>1 DEF z, m, q
    <3> QED BY <3>1 DEF SeqFine, m
  <2>2. CASE ~(i <= m)
    <3> DEFINE k == i - m
    <3>1. z[i] = e[k] /\ k \in 1 .. q BY <1>1, <1>2, <2>2 DEF z, m, q
    <3> HIDE DEF k
    <3> QED BY <3>1 DEF SeqFine, q
  <2> QED BY <2>1, <2>2
<1> QED BY <1>1, <1>3 DEF SeqFine, z, m, q

LEMMA CopiedShape ==
  ASSUME NEW h, Tidy(h), NEW s \in Seq(Value), SeqFine(h, s), NEW tail, Fine(h, tail), IsList(h, tail),
         NEW r, NEW c, Copies(h, s, tail, r, c), Output(h, Used(h), r), NEW lower
  PROVE  Shape(r.h, r.v, lower) = ListShape(h, s \o Elements(h, tail), lower)
<1> DEFINE g == r.h e == Elements(h, tail)
<1>1. Extends(h, g) /\ Fine(g, r.v) BY OutputExtends
<1>2. Tidy(g) BY <1>1 DEF Extends
<1>3. IsList(g, r.v) /\ Elements(g, r.v) = s \o e BY <1>1, CopiedElements
<1>4. e \in Seq(Value) /\ SeqFine(h, e) BY ElementsFine
<1> HIDE DEF g, e
<1>5. SeqFine(h, s \o e) BY <1>4, SeqFineConcat
<1>6. Shape(g, r.v, lower) = ListShape(g, s \o e, lower) BY <1>1, <1>2, <1>3, ShapeOfElements
<1>7. Mapped(g, s \o e, lower) = Mapped(h, s \o e, lower) BY <1>1, <1>5, MappedKept
<1> QED BY <1>6, <1>7 DEF ListShape, g, e

LEMMA CopiedMeant ==
  ASSUME NEW h, Tidy(h), NEW s \in Seq(Value), SeqFine(h, s), NEW tail, Fine(h, tail), IsList(h, tail),
         Cardinality(FreeNodes(h)) >= Len(s), NEW lower
  PROVE  LET r == Copied(h, s, tail)
         IN /\ Shape(r.h, r.v, lower) = ListShape(h, s \o Elements(h, tail), lower)
            /\ Extends(h, r.h) /\ Fine(r.h, r.v) /\ Elements(r.h, r.v) = s \o Elements(h, tail)
<1> DEFINE r == Copied(h, s, tail) I == Used(h)
<1>1. h \in Heaps /\ ListsEnd(h) /\ Shut(h, I) /\ I \subseteq Used(h) BY DEF Tidy
<1>2. tail \in NODE \cup {Nil} BY ListType
<1>3. Held(I, tail) /\ \A i \in 1 .. Len(s) : Held(I, s[i]) BY DEF Fine, SeqFine
<1>4. PICK c : Copies(h, s, tail, r, c) BY <1>1, <1>2, CopiedIs
<1>5. Output(h, Used(h), r)
  <2> HIDE DEF I, r
  <2>1. Shut(h, Used(h)) /\ I \subseteq Used(h) /\ Shut(h, I) BY <1>1 DEF I
  <2>2. Output(h, I, Copied(h, s, tail)) BY <1>1, <1>2, <1>3, <2>1, CopyOutput
  <2> QED BY <2>2 DEF I, r
<1> HIDE DEF r
<1>6. Shape(r.h, r.v, lower) = ListShape(h, s \o Elements(h, tail), lower)
  BY <1>4, <1>5, CopiedShape
<1>7. Extends(h, r.h) /\ Fine(r.h, r.v) BY <1>5, OutputExtends
<1>8. Elements(r.h, r.v) = s \o Elements(h, tail) BY <1>4, <1>7, CopiedElements
<1> QED BY <1>6, <1>7, <1>8 DEF r

LEMMA MadeMeant ==
  ASSUME NEW h, Tidy(h), NEW a, Fine(h, a), NEW tail, Fine(h, tail), IsList(h, tail),
         Cardinality(FreeNodes(h)) > 0, NEW lower
  PROVE  LET r == Make(h, Pair(a, tail))
         IN Shape(r.h, r.v, lower) = ListShape(h, <<a>> \o Elements(h, tail), lower)
<1> DEFINE cell == Pair(a, tail) r == Make(h, cell) n == New(h) s == <<a>> c == <<n>>
<1>1. h \in Heaps /\ ListsEnd(h) /\ Shut(h, Used(h)) /\ Used(h) \subseteq Used(h) BY DEF Tidy
<1>2. a \in Value /\ tail \in NODE \cup {Nil} BY ListType DEF Fine, Held
<1>3. cell \in Cell /\ cell # Free /\ cell.t = "cons" /\ cell.car = a /\ cell.cdr = tail
  BY <1>2, PairIs
<1>4. Held(Used(h), a) /\ Held(Used(h), tail) BY DEF Fine
<1> HIDE DEF cell
<1>5. Output(h, Used(h), r)
  <2>1. cell.t = "cons" => Held(Used(h), cell.car) /\ Held(Used(h), cell.cdr) /\ IsList(h, cell.cdr)
    BY <1>3, <1>4
  <2>2. cell.t = "array" => \A i \in DOMAIN cell.items : Held(Used(h), cell.items[i]) BY <1>3
  <2> QED BY <1>1, <1>3, <2>1, <2>2, MakeOutput
<1>6. /\ n \in NODE /\ h[n] = Free /\ r.v = n /\ r.h \in Heaps /\ r.h[n] = cell
      /\ \A k \in NODE : k # n => r.h[k] = h[k]
  BY <1>1, <1>3, MakeIs
<1>7. s \in Seq(Value) /\ Len(s) = 1 /\ c \in Seq(NODE) /\ Len(c) = 1 /\ s[1] = a /\ c[1] = n
  BY <1>2, <1>6
<1> HIDE DEF n, r, s, c
<1>8. Copies(h, s, tail, r, c)
  <2>1. \A i \in 1 .. 1 : i = 1 OBVIOUS
  <2> QED BY <1>6, <1>7, <2>1 DEF Copies, Distinct, cell
<1>9. SeqFine(h, s) BY <1>7 DEF SeqFine
<1>10. Shape(r.h, r.v, lower) = ListShape(h, s \o Elements(h, tail), lower)
  BY <1>5, <1>7, <1>8, <1>9, CopiedShape
<1> QED BY <1>10 DEF r, s, cell

Shapes(h, lower) == {Shape(h, v, lower) : v \in Value}

LEMMA MappedIs ==
  ASSUME NEW h, NEW lower, NEW e \in Seq(Value)
  PROVE  /\ Mapped(h, e, lower) \in Seq(Shapes(h, lower)) /\ Len(Mapped(h, e, lower)) = Len(e)
         /\ \A i \in 1 .. Len(e) : Mapped(h, e, lower)[i] = Shape(h, e[i], lower)
<1> DEFINE x == Mapped(h, e, lower) n == Len(e)
<1>1. n \in Nat /\ \A i \in 1 .. n : e[i] \in Value OBVIOUS
<1>2. x = [i \in 1 .. n |-> Shape(h, e[i], lower)] BY DEF Mapped
<1> HIDE DEF n, x
<1>3. \A i \in 1 .. n : Shape(h, e[i], lower) \in Shapes(h, lower) BY <1>1 DEF Shapes
<1>4. x \in [1 .. n -> Shapes(h, lower)] BY <1>2, <1>3
<1>5. x \in Seq(Shapes(h, lower)) /\ Len(x) = n BY <1>1, <1>4
<1> QED BY <1>2, <1>5 DEF n, x

LEMMA MappedConcat ==
  ASSUME NEW h, NEW lower, NEW s \in Seq(Value), NEW e \in Seq(Value)
  PROVE  Mapped(h, s \o e, lower) = Mapped(h, s, lower) \o Mapped(h, e, lower)
<1> DEFINE x == Mapped(h, s, lower) y == Mapped(h, e, lower) z == s \o e w == Mapped(h, z, lower)
           m == Len(s) n == Len(e) S == Shapes(h, lower)
<1>1. x \in Seq(S) /\ Len(x) = m /\ \A i \in 1 .. m : x[i] = Shape(h, s[i], lower) BY MappedIs
<1>2. y \in Seq(S) /\ Len(y) = n /\ \A i \in 1 .. n : y[i] = Shape(h, e[i], lower) BY MappedIs
<1>3. z \in Seq(Value) /\ Len(z) = m + n /\ m \in Nat /\ n \in Nat
      /\ \A i \in 1 .. m + n : z[i] = IF i <= m THEN s[i] ELSE e[i - m]
  BY ConcatProperties
<1> HIDE DEF z
<1>4. w \in Seq(S) /\ Len(w) = m + n /\ \A i \in 1 .. m + n : w[i] = Shape(h, z[i], lower)
  BY <1>3, MappedIs
<1> HIDE DEF x, y, w, S
<1>5. x \o y \in Seq(S) /\ Len(x \o y) = m + n
      /\ \A i \in 1 .. m + n : (x \o y)[i] = IF i <= m THEN x[i] ELSE y[i - m]
  <2>1. x \in Seq(S) /\ y \in Seq(S) /\ Len(x) = m /\ Len(y) = n BY <1>1, <1>2
  <2> HIDE DEF m, n
  <2>2. x \o y \in Seq(S) /\ Len(x \o y) = Len(x) + Len(y)
        /\ \A i \in 1 .. Len(x) + Len(y) : (x \o y)[i] = IF i <= Len(x) THEN x[i] ELSE y[i - Len(x)]
    BY <2>1, ConcatProperties
  <2> QED BY <2>1, <2>2
<1> HIDE DEF m, n
<1>6. \A i \in 1 .. m + n : w[i] = (x \o y)[i]
  <2> SUFFICES ASSUME NEW i \in 1 .. m + n PROVE w[i] = (x \o y)[i] OBVIOUS
  <2>1. CASE i <= m
    <3>1. i \in 1 .. m BY <1>3, <2>1
    <3> QED BY <1>1, <1>3, <1>4, <1>5, <2>1, <3>1
  <2>2. CASE ~(i <= m)
    <3> DEFINE k == i - m
    <3>1. k \in 1 .. n BY <1>3, <2>2
    <3>2. (x \o y)[i] = y[k] /\ z[i] = e[k] BY <1>3, <1>5, <2>2
    <3> HIDE DEF k
    <3> QED BY <1>2, <1>4, <3>1, <3>2
  <2> QED BY <2>1, <2>2
<1>7. w = x \o y
  <2> DEFINE u == x \o y
  <2>1. u \in Seq(S) /\ Len(u) = m + n /\ \A i \in 1 .. m + n : w[i] = u[i] BY <1>5, <1>6
  <2> HIDE DEF u
  <2>2. w = u BY <1>4, <2>1, SeqEqual
  <2> QED BY <2>2 DEF u
<1> QED BY <1>7 DEF x, y, z, w

LEMMA MappedOne ==
  ASSUME NEW h, NEW lower, NEW b \in Value
  PROVE  Mapped(h, <<b>>, lower) = <<Shape(h, b, lower)>>
<1>1. Len(<<b>>) = 1 /\ <<b>>[1] = b /\ \A i \in 1 .. 1 : i = 1 OBVIOUS
<1>2. Mapped(h, <<b>>, lower) = [i \in 1 .. 1 |-> Shape(h, b, lower)] BY <1>1 DEF Mapped
<1> DEFINE x == Shape(h, b, lower)
<1>3. Mapped(h, <<b>>, lower) = [i \in 1 .. 1 |-> x] BY <1>2
<1> HIDE DEF x
<1>4. [i \in 1 .. 1 |-> x] = <<x>> OBVIOUS
<1> QED BY <1>3, <1>4 DEF x

LEMMA AppendIs ==
  ASSUME NEW S, NEW s \in Seq(S), NEW b \in S
  PROVE  Append(s, b) = s \o <<b>> /\ Append(s, b) \in Seq(S) /\ Len(Append(s, b)) = Len(s) + 1
OBVIOUS

LEMMA MappedAppend ==
  ASSUME NEW h, NEW lower, NEW s \in Seq(Value), NEW b \in Value
  PROVE  Mapped(h, Append(s, b), lower) = Append(Mapped(h, s, lower), Shape(h, b, lower))
<1> DEFINE x == Mapped(h, s, lower) y == Shape(h, b, lower) S == Shapes(h, lower)
<1>1. x \in Seq(S) BY MappedIs
<1>2. y \in S BY DEF Shapes
<1>3. Append(s, b) = s \o <<b>> /\ <<b>> \in Seq(Value) BY AppendIs
<1>4. Mapped(h, s \o <<b>>, lower) = x \o <<y>>
  <2>1. Mapped(h, <<b>>, lower) = <<y>> BY MappedOne
  <2>2. Mapped(h, s \o <<b>>, lower) = x \o Mapped(h, <<b>>, lower) BY <1>3, MappedConcat, Zenon
  <2> QED BY <2>1, <2>2, Zenon
<1> HIDE DEF x, y, S
<1>5. Append(x, y) = x \o <<y>> BY <1>1, <1>2, AppendIs
<1> QED BY <1>3, <1>4, <1>5 DEF x, y

SubMapped(h, lower, e, m, n) ==
    SubSeq(e, m, n) \in Seq(Value) /\ Mapped(h, SubSeq(e, m, n), lower) = SubSeq(Mapped(h, e, lower), m, n)

LEMMA MappedSub ==
  ASSUME NEW h, NEW lower, NEW e \in Seq(Value), NEW m \in Nat, NEW n \in Nat, m > 0, m <= n + 1, n <= Len(e)
  PROVE  SubMapped(h, lower, e, m, n)
<1> DEFINE x == Mapped(h, e, lower) z == SubSeq(e, m, n) w == Mapped(h, z, lower)
           u == SubSeq(x, m, n) l == Len(e) k == n - m + 1 S == Shapes(h, lower)
<1>0. l \in Nat /\ m \in Int /\ n \in Int /\ k \in Nat /\ (m <= n => k = n - m + 1) /\ (~(m <= n) => k = 0)
      /\ (\A i \in m .. n : i \in 1 .. l) /\ (\A i \in 1 .. k : m + i - 1 \in 1 .. l)
  OBVIOUS
<1>1. x \in Seq(S) /\ Len(x) = l /\ \A i \in 1 .. l : x[i] = Shape(h, e[i], lower) BY MappedIs
<1>2. \A i \in 1 .. l : e[i] \in Value OBVIOUS
<1>3. z \in Seq(Value) /\ Len(z) = (IF m <= n THEN n - m + 1 ELSE 0) /\ \A i \in 1 .. n - m + 1 : z[i] = e[m + i - 1]
  <2>1. \A i \in m .. n : e[i] \in Value BY <1>0, <1>2
  <2> QED BY <1>0, <2>1, SubSeqProperties
<1> HIDE DEF z, x, S, l
<1>4. u \in Seq(S) /\ Len(u) = (IF m <= n THEN n - m + 1 ELSE 0) /\ \A i \in 1 .. n - m + 1 : u[i] = x[m + i - 1]
  <2>1. \A i \in 1 .. l : x[i] \in S BY <1>1
  <2>2. \A i \in m .. n : x[i] \in S BY <1>0, <2>1
  <2> QED BY <1>0, <2>2, SubSeqProperties
<1> HIDE DEF u
<1>5. w \in Seq(S) /\ Len(w) = Len(z) /\ \A i \in 1 .. Len(z) : w[i] = Shape(h, z[i], lower)
  <2>1. z \in Seq(Value) BY <1>3
  <2> QED BY <2>1, MappedIs, Zenon DEF S
<1> HIDE DEF w
<1>6. Len(z) = k /\ Len(u) = k BY <1>0, <1>3, <1>4
<1>7. \A i \in 1 .. k : w[i] = u[i]
  <2> SUFFICES ASSUME NEW i \in 1 .. k PROVE w[i] = u[i] OBVIOUS
  <2> DEFINE j == m + i - 1
  <2>1. j \in 1 .. l BY <1>0
  <2>2. z[i] = e[j] /\ u[i] = x[j] BY <1>3, <1>4
  <2> HIDE DEF j, k
  <2>3. w[i] = Shape(h, z[i], lower) BY <1>5, <1>6
  <2> QED BY <1>1, <2>1, <2>2, <2>3
<1> HIDE DEF k
<1>8. w = u BY <1>4, <1>5, <1>6, <1>7, SeqEqual
<1> QED BY <1>3, <1>8 DEF SubMapped, w, u, z, x
----
(* The rest of a list. *)

LEMMA SpineRest ==
  ASSUME NEW h, NEW v, NEW c, FullSpine(h, v, c), NEW k \in 1 .. Len(c)
  PROVE  FullSpine(h, c[k], SubSeq(c, k, Len(c)))
<1> DEFINE l == Len(c) z == SubSeq(c, k, l) m == l - k + 1
<1>1. /\ c \in Seq(NODE) /\ \A i \in 1 .. l : h[c[i]].t = "cons"
      /\ \A i \in 1 .. l : i < l => c[i + 1] = h[c[i]].cdr
      /\ ~IsCons(h, After(h, v, c))
  BY DEF FullSpine, IsSpine
<1>2. l \in Nat /\ \A i \in 1 .. l : c[i] \in NODE BY <1>1
<1>3. k \in Int /\ l \in Int /\ k <= l /\ m \in Nat /\ m > 0 /\ l > 0 /\ k \in 1 .. l
      /\ (\A i \in k .. l : i \in 1 .. l) /\ (\A i \in 1 .. m : k + i - 1 \in 1 .. l)
  BY <1>2
<1>4. z \in Seq(NODE) /\ Len(z) = m /\ \A i \in 1 .. m : z[i] = c[k + i - 1]
  <2> HIDE DEF l
  <2>1. \A i \in k .. l : c[i] \in NODE BY <1>2, <1>3
  <2> QED BY <1>3, <2>1, SubSeqProperties
<1> HIDE DEF z, l
<1>5. \A i \in 1 .. m : h[z[i]].t = "cons" BY <1>1, <1>3, <1>4
<1>6. z[1] = c[k]
  <2>1. 1 \in 1 .. m /\ k + 1 - 1 = k BY <1>3
  <2> QED BY <1>4, <2>1
<1>7. \A i \in 1 .. m : i < m => z[i + 1] = h[z[i]].cdr
  <2> SUFFICES ASSUME NEW i \in 1 .. m, i < m PROVE z[i + 1] = h[z[i]].cdr OBVIOUS
  <2> DEFINE j == k + i - 1 i1 == i + 1
  <2>1. i1 \in 1 .. m /\ k + i1 - 1 = j + 1 /\ j \in 1 .. l /\ j < l BY <1>3
  <2>2. z[i] = c[j] BY <1>4
  <2> HIDE DEF j, i1
  <2>3. z[i1] = c[k + i1 - 1] BY <1>4, <2>1
  <2>4. z[i1] = c[j + 1] BY <2>1, <2>3
  <2> QED BY <1>1, <2>1, <2>2, <2>4 DEF i1
<1>8. After(h, c[k], z) = After(h, v, c)
  <2>1. m \in 1 .. m /\ k + m - 1 = l BY <1>3
  <2>2. z[m] = c[k + m - 1] BY <1>4, <2>1
  <2>3. z[m] = c[l] BY <2>1, <2>2
  <2> QED BY <1>3, <1>4, <2>3 DEF After, l
<1> QED BY <1>1, <1>4, <1>5, <1>6, <1>7, <1>8 DEF FullSpine, IsSpine, z, l

LEMMA ElementsRest ==
  ASSUME NEW h, Tidy(h), NEW v, Fine(h, v), NEW k \in 1 .. Len(Conses(h, v))
  PROVE  LET w == Conses(h, v)[k]
         IN /\ Fine(h, w) /\ IsCons(h, w) /\ Car(h, w) = Elements(h, v)[k]
            /\ Elements(h, w) = SubSeq(Elements(h, v), k, Len(Elements(h, v)))
<1> DEFINE c == Conses(h, v) l == Len(c) e == Elements(h, v) w == c[k] z == SubSeq(c, k, l)
           m == l - k + 1 d == Elements(h, w) u == SubSeq(e, k, l)
<1>0. k \in 1 .. l OBVIOUS
<1>1. FullSpine(h, v, c) BY TidySpine
<1>2. c \in Seq(NODE) /\ l \in Nat BY <1>1, FullDistinct
<1>3. e = [i \in 1 .. l |-> h[c[i]].car] BY ElementsAre
<1>4. e \in Seq(Value) /\ Len(e) = l BY ElementsFine
<1>5. w \in NODE /\ h[w].t = "cons"
  <2> HIDE DEF c
  <2> QED BY <1>0, <1>1, <1>2 DEF FullSpine, IsSpine
<1>6. Conses(h, w) = z
  <2> HIDE DEF c
  <2>1. FullSpine(h, w, z) BY <1>0, <1>1, SpineRest
  <2> HIDE DEF z, w
  <2> QED BY <2>1, FullDistinct
<1>7. Fine(h, w)
  <2>1. h \in Heaps BY DEF Tidy
  <2> HIDE DEF w
  <2> QED BY <1>5, <2>1, UsedIs DEF Fine, Held, Value
<1>8. /\ d = [i \in 1 .. Len(z) |-> h[z[i]].car] /\ d \in Seq(Value) /\ Len(d) = Len(z)
  <2> HIDE DEF z, w, d
  <2>1. Elements(h, w) = [i \in 1 .. Len(z) |-> h[z[i]].car] BY <1>6, ElementsAre
  <2>2. Elements(h, w) \in Seq(Value) /\ Len(Elements(h, w)) = Len(z) BY <1>6, <1>7, ElementsFine
  <2> QED BY <2>1, <2>2 DEF d
<1> HIDE DEF c, e
<1>9. k \in Int /\ l \in Int /\ k <= l /\ m \in Nat /\ (\A i \in k .. l : i \in 1 .. l)
      /\ (\A i \in 1 .. m : k + i - 1 \in 1 .. l) /\ k \in 1 .. l
  BY <1>0, <1>2
<1> HIDE DEF l
<1>10. Len(z) = m /\ \A i \in 1 .. m : z[i] = c[k + i - 1]
  <2>1. \A i \in k .. l : c[i] \in NODE BY <1>2, <1>9 DEF l
  <2> QED BY <1>9, <2>1, SubSeqProperties
<1>11. u \in Seq(Value) /\ Len(u) = m /\ \A i \in 1 .. m : u[i] = e[k + i - 1]
  <2>1. \A i \in k .. l : e[i] \in Value BY <1>4, <1>9
  <2> QED BY <1>9, <2>1, SubSeqProperties
<1> HIDE DEF z, u, d, w
<1>12. \A i \in 1 .. m : d[i] = u[i]
  <2> SUFFICES ASSUME NEW i \in 1 .. m PROVE d[i] = u[i] OBVIOUS
  <2> DEFINE j == k + i - 1
  <2>1. j \in 1 .. l /\ z[i] = c[j] /\ u[i] = e[j] BY <1>9, <1>10, <1>11
  <2> HIDE DEF j
  <2> QED BY <1>3, <1>8, <1>10, <2>1
<1>13. d = u
  <2> HIDE DEF m
  <2> QED BY <1>8, <1>10, <1>11, <1>12, SeqEqual
<1>14. Car(h, w) = e[k] BY <1>3, <1>9 DEF Car, w
<1> QED BY <1>4, <1>5, <1>7, <1>13, <1>14 DEF IsCons, c, e, d, u, w

LEMMA NilElements == ASSUME NEW h PROVE Elements(h, Nil) = <<>> /\ Fine(h, Nil) /\ IsList(h, Nil)
<1>1. Fine(h, Nil) /\ IsList(h, Nil) /\ ~IsCons(h, Nil)
  BY NotNode DEF Fine, Held, Value, IsList, IsCons
<1> DEFINE c == <<>>
<1>2. FullSpine(h, Nil, c)
  <2>1. IsSpine(h, Nil, c) BY EmptySpine
  <2>2. After(h, Nil, c) = Nil BY DEF After
  <2> QED BY <1>1, <2>1, <2>2 DEF FullSpine
<1> HIDE DEF c
<1>3. Conses(h, Nil) = c BY <1>2, FullDistinct
<1>4. Elements(h, Nil) = [i \in 1 .. Len(c) |-> h[c[i]].car] BY <1>3, ElementsAre
<1>5. Len(c) = 0 BY DEF c
<1>6. Elements(h, Nil) = [i \in 1 .. 0 |-> h[c[i]].car] BY <1>4, <1>5
<1>7. 1 .. 0 = {} OBVIOUS
<1> QED BY <1>1, <1>6, <1>7

\* The parts of a list that is not empty.
LEMMA ConsElements ==
  ASSUME NEW h, Tidy(h), NEW a, Fine(h, a), IsCons(h, a)
  PROVE  LET e == Elements(h, a)
         IN /\ e \in Seq(Value) /\ Len(e) \in Nat /\ Len(e) > 0 /\ Car(h, a) = e[1] /\ Conses(h, a)[1] = a
            /\ Elements(h, Cdr(h, a)) = SubSeq(e, 2, Len(e))
            /\ Fine(h, Car(h, a)) /\ Fine(h, Cdr(h, a)) /\ IsList(h, Cdr(h, a))
<1> DEFINE c == Conses(h, a) l == Len(c) e == Elements(h, a) b == Cdr(h, a)
<1>1. FullSpine(h, a, c) BY TidySpine
<1>2. c \in Seq(NODE) /\ l \in Nat BY <1>1, FullDistinct
<1>3. e \in Seq(Value) /\ Len(e) = l BY ElementsFine
<1> HIDE DEF c
<1>4. l > 0 /\ c[1] = a /\ (1 < l => c[2] = b) /\ (l = 1 => ~IsCons(h, b))
  <2>1. l # 0 BY <1>1 DEF FullSpine, After
  <2>2. c[1] = a BY <1>1, <1>2, <2>1 DEF FullSpine, IsSpine
  <2>3. ASSUME 1 < l PROVE c[2] = b
    <3>1. 1 \in 1 .. l /\ 1 + 1 = 2 BY <1>2, <2>3
    <3>2. \A i \in 1 .. l : i < l => c[i + 1] = h[c[i]].cdr BY <1>1 DEF FullSpine, IsSpine
    <3>3. c[1 + 1] = h[c[1]].cdr BY <2>3, <3>1, <3>2
    <3> QED BY <2>2, <3>1, <3>3 DEF Cdr
  <2>4. l = 1 => ~IsCons(h, b) BY <1>1, <2>2 DEF FullSpine, After, Cdr
  <2> QED BY <1>2, <2>1, <2>2, <2>3, <2>4
<1>5. Fine(h, Car(h, a)) /\ Fine(h, b) /\ IsList(h, b)
  <2>1. h \in Heaps /\ ListsEnd(h) /\ Shut(h, Used(h)) /\ Held(Used(h), a) BY DEF Tidy, Fine
  <2> QED BY <2>1, ConsHeld DEF Fine
<1>6. Car(h, a) = e[1]
  <2>1. 1 \in 1 .. Len(Conses(h, a)) BY <1>2, <1>4 DEF c
  <2> QED BY <1>4, <2>1, ElementsRest DEF c
<1>7. Elements(h, b) = SubSeq(e, 2, l)
  <2>1. CASE l = 1
    <3>1. b = Nil BY <1>4, <1>5, <2>1 DEF IsList
    <3>2. SubSeq(e, 2, l) = <<>> BY <2>1, SubSeqEmpty
    <3> QED BY <3>1, <3>2, NilElements
  <2>2. CASE l > 1
    <3>1. 2 \in 1 .. Len(Conses(h, a)) /\ Conses(h, a)[2] = b BY <1>2, <1>4, <2>2 DEF c
    <3>2. Elements(h, Conses(h, a)[2]) = SubSeq(Elements(h, a), 2, Len(Elements(h, a)))
      BY <3>1, ElementsRest
    <3> QED BY <1>3, <3>1, <3>2
  <2> HIDE DEF l
  <2>3. l = 1 \/ l > 1 BY <1>2, <1>4
  <2> QED BY <2>1, <2>2, <2>3
<1> QED BY <1>2, <1>3, <1>4, <1>5, <1>6, <1>7 DEF c
----
(* The primitives output what they are meant to. *)

LEMMA HeapTidy ==
  ASSUME DataTypeOK, PlistIsPrivate, Plain PROVE Tidy(heap) /\ \A a \in Values : Fine(heap, a)
<1>1. Acyclic(heap, Used(heap)) BY PlainIs
<1>2. PICK c, I : Right(heap, val, plist, c, I) BY ToRight
<1>3. heap \in Heaps /\ ListsEnd(heap) /\ Shut(heap, Used(heap)) /\ I \subseteq Used(heap)
  BY <1>2, RightHas
<1>4. \A a \in Values : Held(I, a) BY <1>2, ValuesHeld
<1> QED BY <1>1, <1>3, <1>4 DEF Tidy, Fine, Held

LEMMA MembersAre ==
  ASSUME NEW h, Tidy(h), NEW lower, NEW v, Fine(h, v), IsList(h, v)
  PROVE  /\ Shape(h, v, lower) = <<"list", Mapped(h, Elements(h, v), lower)>>
         /\ Shape(h, v, lower)[2] = Mapped(h, Elements(h, v), lower)
         /\ Elements(h, v) \in Seq(Value) /\ SeqFine(h, Elements(h, v))
         /\ Len(Mapped(h, Elements(h, v), lower)) = Len(Elements(h, v))
<1>1. Shape(h, v, lower) = <<"list", Mapped(h, Elements(h, v), lower)>>
  BY ShapeOfElements DEF ListShape
<1>2. Elements(h, v) \in Seq(Value) /\ SeqFine(h, Elements(h, v)) BY ElementsFine
<1> QED BY <1>1, <1>2, MappedIs

LEMMA SeqFineAppend ==
  ASSUME NEW h, NEW s \in Seq(Value), SeqFine(h, s), NEW b, Fine(h, b)
  PROVE  Append(s, b) \in Seq(Value) /\ SeqFine(h, Append(s, b)) /\ Len(Append(s, b)) = Len(s) + 1
<1>1. b \in Value BY DEF Fine, Held
<1>2. <<b>> \in Seq(Value) /\ SeqFine(h, <<b>>) /\ Append(s, b) = s \o <<b>>
  BY <1>1, AppendIs DEF SeqFine
<1>3. SeqFine(h, s \o <<b>>) BY <1>2, SeqFineConcat
<1> QED BY <1>1, <1>2, <1>3, AppendIs

\* A copy before nothing.
LEMMA CopiedAlone ==
  ASSUME NEW h, Tidy(h), NEW s \in Seq(Value), SeqFine(h, s), Cardinality(FreeNodes(h)) >= Len(s), NEW lower
  PROVE  LET r == Copied(h, s, Nil)
         IN Shape(r.h, r.v, lower) = <<"list", Mapped(h, s, lower)>> /\ Elements(r.h, r.v) = s
<1> DEFINE r == Copied(h, s, Nil)
<1>1. Elements(h, Nil) = <<>> /\ Fine(h, Nil) /\ IsList(h, Nil) BY NilElements
<1>2. Shape(r.h, r.v, lower) = ListShape(h, s \o Elements(h, Nil), lower) /\ Elements(r.h, r.v) = s \o Elements(h, Nil)
  BY <1>1, CopiedMeant
<1>3. s \o <<>> = s BY ConcatEmptySeq
<1> HIDE DEF r
<1> QED BY <1>1, <1>2, <1>3 DEF r, ListShape

LEMMA LputMeant ==
  ASSUME NEW h, Tidy(h), NEW a, Fine(h, a), IsList(h, a), NEW b, Fine(h, b), NEW lower,
         Cardinality(FreeNodes(h)) >= Len(Elements(h, a)) + 1
  PROVE  LET r == Lput(h, b, a)
         IN Shape(r.h, r.v, lower) = <<"list", Append(Shape(h, a, lower)[2], Shape(h, b, lower))>>
<1> DEFINE e == Elements(h, a) s == Append(e, b) r == Lput(h, b, a)
<1>1. Shape(h, a, lower)[2] = Mapped(h, e, lower) /\ e \in Seq(Value) /\ SeqFine(h, e) BY MembersAre
<1>2. b \in Value BY DEF Fine, Held
<1>3. r = Copied(h, s, Nil) BY DEF Lput
<1>4. Cardinality(FreeNodes(h)) >= Len(e) + 1 OBVIOUS
<1> HIDE DEF e, r
<1>5. s \in Seq(Value) /\ SeqFine(h, s) /\ Len(s) = Len(e) + 1 BY <1>1, SeqFineAppend
<1>6. Mapped(h, s, lower) = Append(Mapped(h, e, lower), Shape(h, b, lower))
  BY <1>1, <1>2, MappedAppend
<1> HIDE DEF s
<1>7. Shape(r.h, r.v, lower) = <<"list", Mapped(h, s, lower)>> BY <1>3, <1>4, <1>5, CopiedAlone
<1> QED BY <1>1, <1>6, <1>7 DEF r

LEMMA FputMeant ==
  ASSUME NEW h, Tidy(h), NEW a, Fine(h, a), IsList(h, a), NEW b, Fine(h, b), NEW lower,
         Cardinality(FreeNodes(h)) > 0
  PROVE  LET r == Fput(h, b, a)
         IN Shape(r.h, r.v, lower) = <<"list", <<Shape(h, b, lower)>> \o Shape(h, a, lower)[2]>>
<1> DEFINE e == Elements(h, a) r == Fput(h, b, a)
<1>1. Shape(h, a, lower)[2] = Mapped(h, e, lower) /\ e \in Seq(Value) BY MembersAre
<1>2. b \in Value BY DEF Fine, Held
<1>3. Shape(r.h, r.v, lower) = ListShape(h, <<b>> \o e, lower) BY MadeMeant DEF Fput
<1> HIDE DEF e, r
<1>4. Mapped(h, <<b>> \o e, lower) = Mapped(h, <<b>>, lower) \o Mapped(h, e, lower)
  <2>1. <<b>> \in Seq(Value) BY <1>2
  <2> QED BY <1>1, <2>1, MappedConcat, Zenon
<1>5. Mapped(h, <<b>>, lower) = <<Shape(h, b, lower)>> BY <1>2, MappedOne
<1>6. Shape(r.h, r.v, lower) = <<"list", <<Shape(h, b, lower)>> \o Shape(h, a, lower)[2]>>
  BY <1>1, <1>3, <1>4, <1>5, Zenon DEF ListShape
<1> QED BY <1>6 DEF r

SentenceIs(h, a, b, lower) ==
    LET r == Sentence(h, a, b)
    IN Shape(r.h, r.v, lower) =
         <<"list", Shape(h, a, lower)[2] \o
                     IF IsList(h, b) THEN Shape(h, b, lower)[2] ELSE <<Shape(h, b, lower)>> >>

LEMMA SentenceMeant ==
  ASSUME NEW h, Tidy(h), NEW a, Fine(h, a), IsList(h, a), NEW b, Fine(h, b), NEW lower,
         Cardinality(FreeNodes(h)) >= Len(Elements(h, a)) + 1
  PROVE  SentenceIs(h, a, b, lower)
<1> DEFINE e == Elements(h, a) d == Elements(h, b) r == Sentence(h, a, b)
<1>1. Shape(h, a, lower)[2] = Mapped(h, e, lower) /\ e \in Seq(Value) /\ SeqFine(h, e) BY MembersAre
<1>2. b \in Value BY DEF Fine, Held
<1>3. r = IF IsList(h, b) THEN Copied(h, e, b) ELSE Copied(h, Append(e, b), Nil)
  BY DEF Sentence, Words
<1>4. Cardinality(FreeNodes(h)) >= Len(e) + 1 /\ Cardinality(FreeNodes(h)) >= Len(e)
  <2>1. Cardinality(FreeNodes(h)) \in Nat /\ Len(e) \in Nat BY <1>1, FreeCount
  <2> HIDE DEF e
  <2>2. Cardinality(FreeNodes(h)) >= Len(e) + 1 BY DEF e
  <2> QED BY <2>1, <2>2
<1>5. CASE IsList(h, b)
  <2>1. Shape(h, b, lower)[2] = Mapped(h, d, lower) /\ d \in Seq(Value) BY <1>5, MembersAre
  <2> HIDE DEF e
  <2>2. LET q == Copied(h, e, b) IN Shape(q.h, q.v, lower) = ListShape(h, e \o Elements(h, b), lower)
    BY <1>1, <1>4, <1>5, CopiedMeant
  <2> HIDE DEF d, r
  <2>3. Shape(r.h, r.v, lower) = ListShape(h, e \o d, lower) BY <1>3, <1>5, <2>2 DEF d
  <2>4. Mapped(h, e \o d, lower) = Mapped(h, e, lower) \o Mapped(h, d, lower)
    BY <1>1, <2>1, MappedConcat, Zenon
  <2>5. Shape(r.h, r.v, lower) = <<"list", Shape(h, a, lower)[2] \o Shape(h, b, lower)[2]>>
    BY <1>1, <2>1, <2>3, <2>4, Zenon DEF ListShape
  <2> QED BY <1>5, <2>5, Zenon DEF SentenceIs, r
<1>6. CASE ~IsList(h, b)
  <2> DEFINE s == Append(e, b)
  <2> HIDE DEF e
  <2>1. s \in Seq(Value) /\ SeqFine(h, s) /\ Len(s) = Len(e) + 1 BY <1>1, SeqFineAppend
  <2>2. Mapped(h, s, lower) = Append(Mapped(h, e, lower), Shape(h, b, lower))
    BY <1>1, <1>2, MappedAppend
  <2>3. Append(Mapped(h, e, lower), Shape(h, b, lower)) = Mapped(h, e, lower) \o <<Shape(h, b, lower)>>
    <3>1. Mapped(h, e, lower) \in Seq(Shapes(h, lower)) /\ Shape(h, b, lower) \in Shapes(h, lower)
      BY <1>1, <1>2, MappedIs DEF Shapes
    <3> QED BY <3>1, AppendIs
  <2> HIDE DEF s
  <2>4. LET q == Copied(h, s, Nil) IN Shape(q.h, q.v, lower) = <<"list", Mapped(h, s, lower)>>
    BY <1>4, <2>1, CopiedAlone
  <2> HIDE DEF r
  <2>5. Shape(r.h, r.v, lower) = <<"list", Mapped(h, s, lower)>> BY <1>3, <1>6, <2>4 DEF s
  <2>6. Shape(r.h, r.v, lower) = <<"list", Shape(h, a, lower)[2] \o <<Shape(h, b, lower)>> >>
    BY <1>1, <2>2, <2>3, <2>5, Zenon
  <2> QED BY <1>6, <2>6, Zenon DEF SentenceIs, r
<1> QED BY <1>5, <1>6

LEMMA ButLastMeant ==
  ASSUME NEW h, Tidy(h), NEW a, Fine(h, a), IsCons(h, a), NEW lower,
         Cardinality(FreeNodes(h)) >= Len(Elements(h, a))
  PROVE  LET r == ButLast(h, a)
         IN Shape(r.h, r.v, lower) = <<"list", Front(Shape(h, a, lower)[2])>>
<1> DEFINE e == Elements(h, a) s == Front(e) n == Len(e) - 1 r == ButLast(h, a)
<1>1. Shape(h, a, lower)[2] = Mapped(h, e, lower) /\ SeqFine(h, e) /\ Len(Mapped(h, e, lower)) = Len(e)
  BY MembersAre DEF IsList
<1>2. e \in Seq(Value) /\ Len(e) \in Nat /\ Len(e) > 0 BY ConsElements
<1>3. r = Copied(h, s, Nil) BY DEF ButLast
<1>4. Cardinality(FreeNodes(h)) >= Len(e) /\ Cardinality(FreeNodes(h)) \in Nat BY FreeCount
<1> HIDE DEF e, r
<1>5. s = SubSeq(e, 1, n) BY DEF Front
<1>a. n \in Nat /\ n <= Len(e) /\ Len(e) + 1 \in Nat /\ Len(e) + 1 >= 1 BY <1>2
<1> HIDE DEF n, s
<1>6. s \in Seq(Value) /\ Mapped(h, s, lower) = SubSeq(Mapped(h, e, lower), 1, n)
  <2>1. 1 \in 1 .. Len(e) + 1 /\ n \in 1 - 1 .. Len(e) BY <1>2, <1>a
  <2>2. SubMapped(h, lower, e, 1, n) BY <1>2, <1>a, <2>1, MappedSub
  <2> QED BY <1>5, <2>2, Zenon DEF SubMapped
<1>7. SeqFine(h, s) /\ Len(s) = n
  <2>0. 1 \in Int /\ n \in Int /\ (1 <= n => n - 1 + 1 = n) /\ (~(1 <= n) => n = 0) /\ n - 1 + 1 = n
    BY <1>2, <1>a
  <2>1. \A i \in 1 .. n : e[i] \in Value /\ i \in 1 .. Len(e) /\ 1 + i - 1 = i BY <1>2, <1>a
  <2>2. Len(s) = (IF 1 <= n THEN n - 1 + 1 ELSE 0) /\ \A i \in 1 .. n - 1 + 1 : s[i] = e[1 + i - 1]
    BY <1>5, <2>0, <2>1, SubSeqProperties
  <2>3. Len(s) = n BY <2>0, <2>2
  <2>4. \A i \in 1 .. n : s[i] = e[i] BY <2>0, <2>1, <2>2
  <2> QED BY <1>1, <2>1, <2>3, <2>4 DEF SeqFine
<1>8. Cardinality(FreeNodes(h)) >= Len(s) BY <1>2, <1>4, <1>7, <1>a
<1>9. Front(Mapped(h, e, lower)) = SubSeq(Mapped(h, e, lower), 1, n) BY <1>1 DEF Front, n
<1>10. Shape(r.h, r.v, lower) = <<"list", Mapped(h, s, lower)>>
  BY <1>3, <1>6, <1>7, <1>8, CopiedAlone DEF s
<1> QED BY <1>1, <1>6, <1>9, <1>10, Zenon DEF r

LEMMA PartsMeant ==
  ASSUME NEW h, Tidy(h), NEW a, Fine(h, a), IsCons(h, a), NEW lower
  PROVE  LET els == Shape(h, a, lower)[2]
         IN /\ Shape(h, First(h, a), lower) = Head(els) /\ Shape(h, LastOf(h, a), lower) = Last(els)
            /\ Shape(h, ButFirst(h, a), lower) = <<"list", Tail(els)>>
<1> DEFINE e == Elements(h, a) x == Mapped(h, e, lower) l == Len(e) b == Cdr(h, a)
<1>1. /\ e \in Seq(Value) /\ l \in Nat /\ l > 0 /\ Car(h, a) = e[1]
      /\ Elements(h, b) = SubSeq(e, 2, l) /\ Fine(h, b) /\ IsList(h, b)
  BY ConsElements
<1>2. Shape(h, a, lower)[2] = x BY MembersAre DEF IsList
<1>3. x \in Seq(Shapes(h, lower)) /\ Len(x) = l /\ \A i \in 1 .. l : x[i] = Shape(h, e[i], lower)
  BY <1>1, MappedIs
<1>4. Last(e) = e[l] /\ Last(x) = x[l] BY <1>3 DEF Last
<1>5. First(h, a) = e[1] /\ LastOf(h, a) = e[l] /\ ButFirst(h, a) = b
  BY <1>1, <1>4 DEF First, LastOf, ButFirst
<1> HIDE DEF e, l, b
<1>6. Mapped(h, SubSeq(e, 2, l), lower) = SubSeq(x, 2, l)
  <2>1. SubMapped(h, lower, e, 2, l)
    <3>1. 2 \in Nat /\ l \in Nat /\ 2 <= l + 1 /\ l <= Len(e) /\ 2 > 0 BY <1>1 DEF l
    <3> QED BY <1>1, <3>1, MappedSub
  <2> QED BY <2>1, Zenon DEF SubMapped
<1>7. Shape(h, b, lower) = <<"list", Mapped(h, Elements(h, b), lower)>> BY <1>1, MembersAre
<1> HIDE DEF x
<1>8. Tail(x) = SubSeq(x, 2, l)
  <2>1. x # <<>> BY <1>1, <1>3
  <2> QED BY <1>3, <2>1, TailIsSubSeq
<1>9. Head(x) = x[1] BY <1>1, <1>3
<1>10. 1 \in 1 .. l /\ l \in 1 .. l BY <1>1
<1>11. Shape(h, e[1], lower) = Head(x) /\ Shape(h, e[l], lower) = Last(x) BY <1>3, <1>4, <1>9, <1>10
<1>12. Shape(h, b, lower) = <<"list", Tail(x)>> BY <1>1, <1>6, <1>7, <1>8, Zenon
<1> QED BY <1>2, <1>5, <1>11, <1>12, Zenon

\* What is left for other things when a sequence was copied.
LEMMA CopiedRoom ==
  ASSUME NEW h \in Heaps, NEW s \in Seq(Value), NEW tail \in NODE \cup {Nil}, Cardinality(FreeNodes(h)) >= Len(s)
  PROVE  Cardinality(FreeNodes(Copied(h, s, tail).h)) = Cardinality(FreeNodes(h)) - Len(s)
<1> DEFINE r == Copied(h, s, tail)
<1>1. CopyOf(h, s, tail, r, Len(s)) BY CopiedFollows
<1> HIDE DEF r
<1>2. Cardinality(FreeNodes(r.h)) = Cardinality(FreeNodes(h)) - Len(s) BY <1>1 DEF CopyOf
<1> QED BY <1>2 DEF r

LEMMA ArraysMeant ==
  ASSUME NEW h, Tidy(h), NEW a, Fine(h, a), IsArray(h, a), Cardinality(FreeNodes(h)) >= Len(h[a].items) + 1
  PROVE  LET back == ArrayToList(h, a)
         IN ListToArray(back.h, back.v).h[New(back.h)].items = h[a].items
<1> DEFINE s == h[a].items r == Copied(h, s, Nil) c == Array(s) n == New(r.h)
<1>1. s \in Seq(Value) /\ Len(s) \in Nat /\ SeqFine(h, s) /\ h \in Heaps
  <2>1. h \in Heaps /\ Shut(h, Used(h)) /\ Held(Used(h), a) BY DEF Tidy, Fine
  <2>2. s \in Seq(Value) /\ Len(s) \in Nat /\ DOMAIN s = 1 .. Len(s) /\ \A i \in DOMAIN s : Held(Used(h), s[i])
    BY <2>1, ArrayHeld
  <2> HIDE DEF s
  <2> QED BY <2>1, <2>2 DEF SeqFine, Fine
<1>2. Cardinality(FreeNodes(h)) >= Len(s) + 1 /\ Cardinality(FreeNodes(h)) \in Nat BY FreeCount
<1>3. ArrayToList(h, a) = r BY DEF ArrayToList
<1> HIDE DEF s
<1>4. Cardinality(FreeNodes(h)) >= Len(s) BY <1>1, <1>2
<1>5. Elements(r.h, r.v) = s
  <2> DEFINE lower == 0
  <2> HIDE DEF lower
  <2> QED BY <1>1, <1>4, CopiedAlone
<1>6. Extends(h, r.h)
  <2> DEFINE lower == 0
  <2> HIDE DEF lower
  <2>1. Fine(h, Nil) /\ IsList(h, Nil) BY NilElements
  <2> QED BY <1>1, <1>4, <2>1, CopiedMeant
<1>7. Cardinality(FreeNodes(r.h)) > 0
  <2>1. Nil \in NODE \cup {Nil} OBVIOUS
  <2>2. Cardinality(FreeNodes(r.h)) = Cardinality(FreeNodes(h)) - Len(s)
    BY <1>1, <1>4, <2>1, CopiedRoom
  <2> HIDE DEF r
  <2> QED BY <1>1, <1>2, <2>2
<1> HIDE DEF r
<1>8. r.h \in Heaps BY <1>6 DEF Extends, Tidy
<1>9. c \in Cell /\ c # Free /\ c.items = s BY <1>1, ArrayIs
<1>10. ListToArray(r.h, r.v) = Make(r.h, c) BY <1>5 DEF ListToArray
<1> HIDE DEF c
<1>11. Make(r.h, c).h[n] = c BY <1>7, <1>8, <1>9, MakeIs
<1> QED BY <1>3, <1>9, <1>10, <1>11, Zenon DEF s

LEMMA OpsMeant ==
  ASSUME DataTypeOK, PlistIsPrivate PROVE OpsAreMeant
<1> SUFFICES ASSUME Plain, NEW a \in Values
             PROVE  LET T(r) == Tree(r.h, r.v)
                        els == Members(heap, a)
                        list(s) == <<"list", s>>
                    IN /\ IsList(heap, a) =>
                            /\ Room(Len(els) + 1) => \A b \in Values :
                                  /\ T(Lput(heap, b, a)) = list(Append(els, Tree(heap, b)))
                                  /\ T(Fput(heap, b, a)) = list(<<Tree(heap, b)>> \o els)
                                  /\ ~IsArray(heap, b) =>
                                        T(Sentence(heap, a, b)) =
                                          list(els \o IF IsList(heap, b) THEN Members(heap, b) ELSE <<Tree(heap, b)>>)
                            /\ Room(Len(els)) /\ a # Nil => T(ButLast(heap, a)) = list(Front(els))
                       /\ IsCons(heap, a) =>
                            /\ Tree(heap, First(heap, a)) = Head(els) /\ Tree(heap, LastOf(heap, a)) = Last(els)
                            /\ Tree(heap, ButFirst(heap, a)) = list(Tail(els))
                       /\ IsArray(heap, a) /\ Room(Len(heap[a].items)) =>
                            LET back == ArrayToList(heap, a)
                            IN Room(Len(heap[a].items) + 1) =>
                                  ListToArray(back.h, back.v).h[New(back.h)].items = heap[a].items
  BY DEF OpsAreMeant
<1>1. Tidy(heap) /\ Fine(heap, a) /\ \A b \in Values : Fine(heap, b) BY HeapTidy
<1> DEFINE els == Members(heap, a) e == Elements(heap, a) lower == FALSE
<1>2. \A h, v : Tree(h, v) = Shape(h, v, lower) /\ Members(h, v) = Shape(h, v, lower)[2]
  BY DEF Tree, Members
<1> HIDE DEF lower
<1>3. IsList(heap, a) => els = Mapped(heap, e, lower) /\ Len(els) = Len(e) /\ Len(e) \in Nat
  <2>1. ASSUME IsList(heap, a)
        PROVE  /\ Shape(heap, a, lower)[2] = Mapped(heap, e, lower) /\ e \in Seq(Value)
               /\ Len(Mapped(heap, e, lower)) = Len(e)
    BY <1>1, <2>1, MembersAre
  <2> HIDE DEF e
  <2> QED BY <1>2, <2>1
<1> HIDE DEF els
<1>4. ASSUME IsList(heap, a), Room(Len(els) + 1), NEW b \in Values
      PROVE  /\ Tree(Lput(heap, b, a).h, Lput(heap, b, a).v) = <<"list", Append(els, Tree(heap, b))>>
             /\ Tree(Fput(heap, b, a).h, Fput(heap, b, a).v) = <<"list", <<Tree(heap, b)>> \o els>>
             /\ Tree(Sentence(heap, a, b).h, Sentence(heap, a, b).v) =
                  <<"list", els \o IF IsList(heap, b) THEN Members(heap, b) ELSE <<Tree(heap, b)>> >>
  <2>1. Cardinality(FreeNodes(heap)) >= Len(e) + 1 BY <1>3, <1>4, RoomIs
  <2>2. Cardinality(FreeNodes(heap)) > 0
    <3>1. Cardinality(FreeNodes(heap)) \in Nat BY FreeCount
    <3> HIDE DEF e
    <3> QED BY <1>3, <1>4, <2>1, <3>1
  <2>3. Fine(heap, b) BY <1>1
  <2>4. LET r == Lput(heap, b, a)
        IN Shape(r.h, r.v, lower) = <<"list", Append(Shape(heap, a, lower)[2], Shape(heap, b, lower))>>
    BY <1>1, <1>4, <2>1, <2>3, LputMeant
  <2>5. LET r == Fput(heap, b, a)
        IN Shape(r.h, r.v, lower) = <<"list", <<Shape(heap, b, lower)>> \o Shape(heap, a, lower)[2]>>
    BY <1>1, <1>4, <2>2, <2>3, FputMeant
  <2>6. LET r == Sentence(heap, a, b)
        IN Shape(r.h, r.v, lower) =
              <<"list", Shape(heap, a, lower)[2] \o
                          IF IsList(heap, b) THEN Shape(heap, b, lower)[2] ELSE <<Shape(heap, b, lower)>> >>
    <3>1. SentenceIs(heap, a, b, lower) BY <1>1, <1>4, <2>1, <2>3, SentenceMeant
    <3> QED BY <3>1, Zenon DEF SentenceIs
  <2>7. els = Shape(heap, a, lower)[2] BY <1>2 DEF els
  <2> QED BY <1>2, <2>4, <2>5, <2>6, <2>7, Zenon
<1>5. ASSUME IsList(heap, a), Room(Len(els)), a # Nil
      PROVE  Tree(ButLast(heap, a).h, ButLast(heap, a).v) = <<"list", Front(els)>>
  <2>1. Cardinality(FreeNodes(heap)) >= Len(e) BY <1>3, <1>5, RoomIs
  <2>2. IsCons(heap, a) BY <1>5 DEF IsList
  <2>3. LET r == ButLast(heap, a) IN Shape(r.h, r.v, lower) = <<"list", Front(Shape(heap, a, lower)[2])>>
    BY <1>1, <2>1, <2>2, ButLastMeant
  <2> QED BY <1>2, <2>3, Zenon DEF els
<1>6. ASSUME IsCons(heap, a)
      PROVE  /\ Tree(heap, First(heap, a)) = Head(els) /\ Tree(heap, LastOf(heap, a)) = Last(els)
             /\ Tree(heap, ButFirst(heap, a)) = <<"list", Tail(els)>>
  <2>1. LET x == Shape(heap, a, lower)[2]
        IN /\ Shape(heap, First(heap, a), lower) = Head(x) /\ Shape(heap, LastOf(heap, a), lower) = Last(x)
           /\ Shape(heap, ButFirst(heap, a), lower) = <<"list", Tail(x)>>
    BY <1>1, <1>6, PartsMeant
  <2> QED BY <1>2, <2>1, Zenon DEF els
<1>7. ASSUME IsArray(heap, a), Room(Len(heap[a].items) + 1)
      PROVE  LET back == ArrayToList(heap, a)
             IN ListToArray(back.h, back.v).h[New(back.h)].items = heap[a].items
  <2>1. Cardinality(FreeNodes(heap)) >= Len(heap[a].items) + 1 BY <1>7, RoomIs
  <2> QED BY <1>1, <1>7, <2>1, ArraysMeant
<1> QED BY <1>4, <1>5, <1>6, <1>7, Zenon DEF els
----
(* EQUALP. *)

\* The rule of its recursion.
Equal(h, k, s) ==
    {p \in Value \X Value :
        IF IsCons(h, p[1]) /\ IsCons(h, p[2])
          THEN /\ k > 0 /\ <<Car(h, p[1]), Car(h, p[2])>> \in s
               /\ <<Cdr(h, p[1]), Cdr(h, p[2])>> \in s
          ELSE IF {p[1], p[2]} \subseteq Word THEN SameWord(p[1], p[2]) ELSE p[1] = p[2]}
EqualUpto(m, h, s) == s = [k \in 0 .. m |-> Equal(h, k, s[k - 1])]
EqualsOf(h, s) == \A k \in 0 .. N : s[k] = Equal(h, k, s[k - 1])

LEMMA EqualpIs ==
  ASSUME NEW h PROVE \E s : EqualsOf(h, s) /\ \A a, b : Equalp(h, a, b) <=> <<a, b>> \in s[N]
<1> DEFINE T == {m \in 0 .. N : \E s : EqualUpto(m, h, s)}
<1>0. N \in Nat BY NNat
<1>1. \A x, y : Equal(h, 0, x) = Equal(h, 0, y) BY DEF Equal
<1> HIDE DEF N
<1>2. 0 \in T
  <2> DEFINE s == [k \in 0 .. 0 |-> Equal(h, 0, {})]
  <2>1. \A k \in 0 .. 0 : k = 0 OBVIOUS
  <2>2. \A k \in 0 .. 0 : s[k] = Equal(h, k, s[k - 1]) BY <1>1, <2>1
  <2>3. s = [k \in 0 .. 0 |-> s[k]] OBVIOUS
  <2> HIDE DEF s
  <2>4. s = [k \in 0 .. 0 |-> Equal(h, k, s[k - 1])] BY <2>2, <2>3
  <2> QED BY <1>0, <2>4 DEF EqualUpto
<1>3. ASSUME NEW m \in 1 .. N, m - 1 \in T PROVE m \in T
  <2>1. PICK e : EqualUpto(m - 1, h, e) BY <1>3
  <2>2. \A k \in 0 .. m - 1 : e[k] = Equal(h, k, e[k - 1]) BY <2>1 DEF EqualUpto
  <2> DEFINE s == [k \in 0 .. m |-> IF k = m THEN Equal(h, m, e[m - 1]) ELSE e[k]]
  <2>3. \A k \in 0 .. m : s[k] = IF k = m THEN Equal(h, m, e[m - 1]) ELSE e[k] OBVIOUS
  <2>4. s = [k \in 0 .. m |-> s[k]] OBVIOUS
  <2> HIDE DEF s
  <2>5. ASSUME NEW k \in 0 .. m PROVE s[k] = Equal(h, k, s[k - 1])
    <3>1. CASE k = 0
      <4>1. 0 \in 0 .. m - 1 /\ 0 # m /\ 0 \in 0 .. m BY <1>0
      <4>2. s[0] = Equal(h, 0, e[0 - 1]) BY <2>2, <2>3, <4>1
      <4> QED BY <1>1, <3>1, <4>2
    <3>2. CASE k # 0
      <4>1. k - 1 \in 0 .. m /\ k - 1 # m /\ (k # m => k \in 0 .. m - 1) BY <1>0, <3>2
      <4>2. s[k - 1] = e[k - 1] BY <2>3, <4>1
      <4> QED BY <2>2, <2>3, <4>1, <4>2
    <3> QED BY <3>1, <3>2
  <2>6. s = [k \in 0 .. m |-> Equal(h, k, s[k - 1])] BY <2>4, <2>5
  <2>7. EqualUpto(m, h, s) BY <2>6 DEF EqualUpto
  <2>8. m \in 0 .. N BY <1>0
  <2> QED BY <2>7, <2>8
<1>4. \A m \in 0 .. N : m \in T
  <2> HIDE DEF T
  <2> QED BY <1>0, <1>2, <1>3, Upward
<1>5. \E s : EqualUpto(N, h, s) BY <1>0, <1>4
<1> DEFINE g == CHOOSE s : EqualUpto(N, h, s)
<1>6. EqualUpto(N, h, g) BY <1>5, Zenon
<1>7. \A a, b : Equalp(h, a, b) <=> <<a, b>> \in g[N] BY Zenon DEF Equalp, EqualUpto, Equal, N
<1> HIDE DEF g
<1>8. EqualsOf(h, g)
  <2>1. \A k \in 0 .. N : g[k] = Equal(h, k, g[k - 1]) BY <1>6, Zenon DEF EqualUpto
  <2> QED BY <2>1 DEF EqualsOf
<1> QED BY <1>7, <1>8

\* A value is one of four kinds, and its shape tells which.
LEMMA KindsOf ==
  ASSUME NEW h, Tidy(h), NEW v, Fine(h, v)
  PROVE  v \in Value /\ (IsCons(h, v) \/ v = Nil \/ IsArray(h, v) \/ v \in Word)
<1>1. v \in Value /\ (v \in NODE => v \in Used(h)) /\ h \in Heaps BY DEF Fine, Held, Tidy
<1>2. v \in NODE => h[v] \in Cell /\ h[v].t # "free" BY <1>1, UsedIs DEF Heaps
<1>3. v \in NODE => IsCons(h, v) \/ IsArray(h, v) BY <1>2, CellKinds DEF IsCons, IsArray
<1> QED BY <1>1, <1>3, NotNode

LEMMA ConsShape ==
  ASSUME NEW h, Tidy(h), NEW v, Fine(h, v), IsCons(h, v), NEW lower
  PROVE  \E x \in Seq(Shapes(h, lower)) : /\ Shape(h, v, lower) = <<"list", x>> /\ x # <<>>
                                          /\ Shape(h, Car(h, v), lower) = Head(x)
                                          /\ Shape(h, Cdr(h, v), lower) = <<"list", Tail(x)>>
<1> DEFINE x == Mapped(h, Elements(h, v), lower)
<1>1. Shape(h, v, lower) = <<"list", x>> /\ Shape(h, v, lower)[2] = x /\ Len(x) = Len(Elements(h, v))
  BY MembersAre DEF IsList
<1>2. Elements(h, v) \in Seq(Value) /\ Len(Elements(h, v)) > 0 BY ConsElements
<1>3. x \in Seq(Shapes(h, lower)) /\ x # <<>>
  <2>1. x \in Seq(Shapes(h, lower)) BY <1>2, MappedIs
  <2> HIDE DEF x
  <2> QED BY <1>1, <1>2, <2>1
<1>4. LET els == Shape(h, v, lower)[2]
      IN /\ Shape(h, First(h, v), lower) = Head(els)
         /\ Shape(h, ButFirst(h, v), lower) = <<"list", Tail(els)>>
  BY PartsMeant
<1> HIDE DEF x
<1>5. Shape(h, Car(h, v), lower) = Head(x) /\ Shape(h, Cdr(h, v), lower) = <<"list", Tail(x)>>
  BY <1>1, <1>4, Zenon DEF First, ButFirst
<1> QED BY <1>1, <1>3, <1>5

LEMMA NilShape ==
  ASSUME NEW h, Tidy(h), NEW lower PROVE Shape(h, Nil, lower) = <<"list", <<>> >>
<1>1. Elements(h, Nil) = <<>> /\ Fine(h, Nil) /\ IsList(h, Nil) BY NilElements
<1>2. Shape(h, Nil, lower) = <<"list", Mapped(h, <<>>, lower)>> BY <1>1, MembersAre
<1>3. Mapped(h, <<>>, lower) = <<>>
  <2>1. 1 .. Len(<<>>) = {} OBVIOUS
  <2> QED BY <2>1 DEF Mapped
<1> QED BY <1>2, <1>3

LEMMA PlainShape ==
  ASSUME NEW h, NEW v \in Value, NEW lower
  PROVE  /\ IsArray(h, v) => Shape(h, v, lower) = <<"array", v>>
         /\ v \in Word => Shape(h, v, lower) = <<"word", IF lower THEN Lower(v) ELSE v>>
<1>1. IsArray(h, v) => ~IsList(h, v) BY NotNode DEF IsArray, IsList, IsCons
<1>2. v \in Word => ~IsList(h, v) /\ ~IsArray(h, v) BY NotNode DEF IsArray, IsList, IsCons
<1> QED BY <1>1, <1>2, ShapeOfOther

LEMMA SequencesSame ==
  ASSUME NEW S, NEW x \in Seq(S), NEW y \in Seq(S), x # <<>>, y # <<>>, Head(x) = Head(y), Tail(x) = Tail(y)
  PROVE  x = y
<1>1. Len(Tail(x)) = Len(x) - 1 /\ \A i \in 1 .. Len(Tail(x)) : Tail(x)[i] = x[i + 1]
  BY HeadTailProperties
<1>2. Len(Tail(y)) = Len(y) - 1 /\ \A i \in 1 .. Len(Tail(y)) : Tail(y)[i] = y[i + 1]
  BY HeadTailProperties
<1>3. Len(x) \in Nat /\ Len(y) \in Nat /\ x[1] = y[1] OBVIOUS
<1>4. Len(x) = Len(y)
  <2> DEFINE m == Len(x) n == Len(y) k == Len(Tail(x))
  <2>1. k = m - 1 /\ k = n - 1 /\ m \in Nat /\ n \in Nat BY <1>1, <1>2, <1>3
  <2> HIDE DEF m, n, k
  <2>2. m = n BY <2>1
  <2> QED BY <2>2 DEF m, n
<1>5. ASSUME NEW i \in 1 .. Len(x) PROVE x[i] = y[i]
  <2>1. CASE i = 1 BY <1>3, <2>1
  <2>2. CASE i # 1
    <3> DEFINE j == i - 1
    <3>1. j \in 1 .. Len(Tail(x)) /\ j \in 1 .. Len(Tail(y)) /\ j + 1 = i
      BY <1>1, <1>2, <1>3, <1>4, <2>2
    <3> HIDE DEF j
    <3>2. Tail(x)[j] = x[j + 1] /\ Tail(y)[j] = y[j + 1] BY <1>1, <1>2, <3>1
    <3> QED BY <3>1, <3>2
  <2> QED BY <2>1, <2>2
<1> QED BY <1>4, <1>5, SeqEqual

LEMMA WordsSame ==
  ASSUME NEW a \in Word, NEW b \in Word, caseignored \in BOOLEAN
  PROVE  SameWord(a, b) <=> (IF caseignored THEN Lower(a) ELSE a) = (IF caseignored THEN Lower(b) ELSE b)
<1>1. CASE caseignored BY <1>1 DEF SameWord
<1>2. CASE ~caseignored BY <1>2 DEF SameWord
<1> QED BY <1>1, <1>2

SameShape(h, a, b) == Shape(h, a, caseignored) = Shape(h, b, caseignored)

\* Two conses are the same when their parts are.
LEMMA ConsesSame ==
  ASSUME NEW h, Tidy(h), NEW a, NEW b, Fine(h, a), Fine(h, b), IsCons(h, a), IsCons(h, b)
  PROVE  SameShape(h, a, b) <=> SameShape(h, Car(h, a), Car(h, b)) /\ SameShape(h, Cdr(h, a), Cdr(h, b))
<1> DEFINE lower == caseignored S == Shapes(h, lower)
<1> HIDE DEF lower
<1>1. PICK p \in Seq(S) : /\ Shape(h, a, lower) = <<"list", p>> /\ p # <<>>
                          /\ Shape(h, Car(h, a), lower) = Head(p)
                          /\ Shape(h, Cdr(h, a), lower) = <<"list", Tail(p)>>
  BY ConsShape
<1>2. PICK q \in Seq(S) : /\ Shape(h, b, lower) = <<"list", q>> /\ q # <<>>
                          /\ Shape(h, Car(h, b), lower) = Head(q)
                          /\ Shape(h, Cdr(h, b), lower) = <<"list", Tail(q)>>
  BY ConsShape
<1>3. \A y, z : <<"list", y>> = <<"list", z>> <=> y = z
  <2> TAKE y, z
  <2>1. <<"list", y>>[2] = y /\ <<"list", z>>[2] = z OBVIOUS
  <2> QED BY <2>1
<1> HIDE DEF S
<1>4. Head(p) = Head(q) /\ Tail(p) = Tail(q) <=> p = q BY <1>1, <1>2, SequencesSame
<1>5. \A u, v : SameShape(h, u, v) <=> Shape(h, u, lower) = Shape(h, v, lower)
  BY DEF SameShape, lower
<1>6. SameShape(h, a, b) <=> p = q BY <1>1, <1>2, <1>3, <1>5, Zenon
<1>7. SameShape(h, Cdr(h, a), Cdr(h, b)) <=> Tail(p) = Tail(q) BY <1>1, <1>2, <1>3, <1>5, Zenon
<1>8. SameShape(h, Car(h, a), Car(h, b)) <=> Head(p) = Head(q) BY <1>1, <1>2, <1>5, Zenon
<1> QED BY <1>4, <1>6, <1>7, <1>8, Zenon

\* Values that are not both conses.
LEMMA OthersSame ==
  ASSUME NEW h, Tidy(h), NEW a, NEW b, Fine(h, a), Fine(h, b), ~(IsCons(h, a) /\ IsCons(h, b)),
         caseignored \in BOOLEAN
  PROVE  SameShape(h, a, b) <=> IF {a, b} \subseteq Word THEN SameWord(a, b) ELSE a = b
<1> DEFINE lower == caseignored Fold(w) == IF caseignored THEN Lower(w) ELSE w
           Is(v, r) == \/ IsCons(h, v) /\ \E x : r = <<"list", x>> /\ x # <<>>
                       \/ v = Nil /\ r = <<"list", <<>> >>
                       \/ IsArray(h, v) /\ r = <<"array", v>>
                       \/ v \in Word /\ r = <<"word", Fold(v)>>
<1>1. ASSUME NEW v, Fine(h, v) PROVE Is(v, Shape(h, v, lower))
  <2>1. v \in Value /\ (IsCons(h, v) \/ v = Nil \/ IsArray(h, v) \/ v \in Word) BY <1>1, KindsOf
  <2>2. CASE IsCons(h, v)
    <3>1. \E x : Shape(h, v, lower) = <<"list", x>> /\ x # <<>> BY <1>1, <2>2, ConsShape
    <3> QED BY <2>2, <3>1, Zenon
  <2>3. CASE v = Nil BY <2>3, NilShape
  <2>4. CASE IsArray(h, v) BY <2>1, <2>4, PlainShape
  <2>5. CASE v \in Word
    <3>1. Shape(h, v, lower) = <<"word", Fold(v)>> BY <2>1, <2>5, PlainShape, Zenon
    <3> QED BY <2>5, <3>1, Zenon
  <2> QED BY <2>1, <2>2, <2>3, <2>4, <2>5, Zenon
<1>2. Is(a, Shape(h, a, lower)) /\ Is(b, Shape(h, b, lower)) BY <1>1
<1>3. a \in Word /\ b \in Word => (SameWord(a, b) <=> Fold(a) = Fold(b)) BY WordsSame
<1> DEFINE x == Shape(h, a, lower) y == Shape(h, b, lower)
<1>4. SameShape(h, a, b) <=> x = y BY DEF SameShape
<1> HIDE DEF x, y, Fold
<1>5. \A v : ~(IsCons(h, v) /\ v = Nil) /\ ~(IsCons(h, v) /\ IsArray(h, v)) /\ ~(IsCons(h, v) /\ v \in Word)
             /\ ~(v = Nil /\ IsArray(h, v)) /\ ~(v = Nil /\ v \in Word) /\ ~(IsArray(h, v) /\ v \in Word)
  BY NotNode DEF IsCons, IsArray
<1>6. \A u, v, q, r : <<u, v>> = <<q, r>> <=> u = q /\ v = r
  <2> TAKE u, v, q, r
  <2>1. <<u, v>>[1] = u /\ <<u, v>>[2] = v /\ <<q, r>>[1] = q /\ <<q, r>>[2] = r OBVIOUS
  <2> QED BY <2>1
<1>7. "list" # "array" /\ "list" # "word" /\ "array" # "word" OBVIOUS
<1>8. CASE a \in Word /\ b \in Word
  <2>1. x = <<"word", Fold(a)>> /\ y = <<"word", Fold(b)>> BY <1>2, <1>5, <1>8 DEF x, y
  <2> QED BY <1>3, <1>4, <1>6, <1>8, <2>1
<1>9. CASE ~(a \in Word /\ b \in Word)
  <2>1. SameShape(h, a, b) <=> a = b
    <3> USE DEF x, y
    <3>0. ~(IsCons(h, a) /\ IsCons(h, b)) OBVIOUS
    <3> HIDE DEF x, y
    <3>2. Is(a, x) /\ Is(b, y) BY <1>2 DEF x, y
    <3>3. a = b => x = y BY DEF x, y
    <3>4. ASSUME x = y PROVE a = b BY <1>5, <1>6, <1>7, <1>9, <3>0, <3>2, <3>4
    <3> QED BY <1>4, <3>3, <3>4
  <2> QED BY <1>9, <2>1
<1> QED BY <1>8, <1>9

LEMMA EqualpMeant ==
  ASSUME NEW h, Tidy(h), NEW a, NEW b, Fine(h, a), Fine(h, b), caseignored \in BOOLEAN
  PROVE  Equalp(h, a, b) <=> SameShape(h, a, b)
<1>1. PICK s : EqualsOf(h, s) /\ \A u, v : Equalp(h, u, v) <=> <<u, v>> \in s[N] BY EqualpIs
<1> DEFINE Agree(k) == \A u, v : Fine(h, u) /\ Fine(h, v) /\ Depth(h, u) <= k => (<<u, v>> \in s[k] <=> SameShape(h, u, v))
           T == {k \in 0 .. N : Agree(k)}
<1>2. N \in Nat BY NNat
<1>3. ASSUME NEW k \in 0 .. N, k > 0 => Agree(k - 1), NEW u, NEW v, Fine(h, u), Fine(h, v), Depth(h, u) <= k
      PROVE  <<u, v>> \in s[k] <=> SameShape(h, u, v)
  <2>1. s[k] = Equal(h, k, s[k - 1]) BY <1>1 DEF EqualsOf
  <2>2. u \in Value /\ v \in Value BY <1>3 DEF Fine, Held
  <2> DEFINE z == s[k - 1] one == k > 0
  <2>3. <<u, v>> \in s[k] <=>
          IF IsCons(h, u) /\ IsCons(h, v)
            THEN one /\ <<Car(h, u), Car(h, v)>> \in z /\ <<Cdr(h, u), Cdr(h, v)>> \in z
            ELSE IF {u, v} \subseteq Word THEN SameWord(u, v) ELSE u = v
    <3> HIDE DEF z
    <3>1. s[k] = Equal(h, k, z) BY <2>1 DEF z
    <3>2. <<u, v>> \in Value \X Value /\ <<u, v>>[1] = u /\ <<u, v>>[2] = v BY <2>2
    <3> QED BY <3>1, <3>2, Zenon DEF Equal
  <2>4. CASE IsCons(h, u) /\ IsCons(h, v)
    <3>1. /\ Fine(h, Car(h, u)) /\ Fine(h, Cdr(h, u)) /\ Fine(h, Car(h, v)) /\ Fine(h, Cdr(h, v))
      BY <1>3, <2>4, ConsElements
    <3>2. /\ Depth(h, u) > 0 /\ Depth(h, u) \in 0 .. N
          /\ Depth(h, Car(h, u)) < Depth(h, u) /\ Depth(h, Cdr(h, u)) < Depth(h, u)
      <4>1. u \in NODE /\ Parts(h, u) = {Car(h, u), Cdr(h, u)} BY <2>4, PartsOf DEF IsCons, Car, Cdr
      <4> QED BY <1>3, <4>1, DepthIs
    <3>3. Depth(h, Car(h, u)) \in 0 .. N /\ Depth(h, Cdr(h, u)) \in 0 .. N BY <3>1, DepthIs
    <3>4. k > 0 /\ Depth(h, Car(h, u)) <= k - 1 /\ Depth(h, Cdr(h, u)) <= k - 1
      <4> DEFINE d == Depth(h, u) d1 == Depth(h, Car(h, u)) d2 == Depth(h, Cdr(h, u))
      <4>1. d > 0 /\ d \in Int /\ d1 \in Int /\ d2 \in Int /\ d1 < d /\ d2 < d /\ d <= k /\ k \in Int
        BY <1>2, <1>3, <3>2, <3>3
      <4> HIDE DEF d, d1, d2
      <4>2. k > 0 /\ d1 <= k - 1 /\ d2 <= k - 1 BY <4>1
      <4> QED BY <4>2 DEF d1, d2
    <3>5. Agree(k - 1) BY <1>3, <3>4
    <3>6. /\ <<Car(h, u), Car(h, v)>> \in z <=> SameShape(h, Car(h, u), Car(h, v))
          /\ <<Cdr(h, u), Cdr(h, v)>> \in z <=> SameShape(h, Cdr(h, u), Cdr(h, v))
      <4>1. <<Car(h, u), Car(h, v)>> \in s[k - 1] <=> SameShape(h, Car(h, u), Car(h, v))
        BY <3>1, <3>4, <3>5
      <4>2. <<Cdr(h, u), Cdr(h, v)>> \in s[k - 1] <=> SameShape(h, Cdr(h, u), Cdr(h, v))
        BY <3>1, <3>4, <3>5
      <4> QED BY <4>1, <4>2
    <3>7. SameShape(h, u, v) <=> SameShape(h, Car(h, u), Car(h, v)) /\ SameShape(h, Cdr(h, u), Cdr(h, v))
      BY <1>3, <2>4, ConsesSame
    <3> QED BY <2>3, <2>4, <3>4, <3>6, <3>7, Zenon
  <2>5. CASE ~(IsCons(h, u) /\ IsCons(h, v))
    <3>1. SameShape(h, u, v) <=> IF {u, v} \subseteq Word THEN SameWord(u, v) ELSE u = v
      BY <1>3, <2>5, OthersSame
    <3> QED BY <2>3, <2>5, <3>1, Zenon
  <2> QED BY <2>4, <2>5
<1>4. 0 \in T
  <2>1. 0 \in 0 .. N /\ ~(0 > 0) BY <1>2
  <2>2. Agree(0) BY <1>3, <2>1
  <2> QED BY <2>1, <2>2
<1>5. ASSUME NEW k \in 1 .. N, k - 1 \in T PROVE k \in T
  <2>1. k \in 0 .. N /\ Agree(k - 1) BY <1>2, <1>5
  <2> HIDE DEF T
  <2>2. Agree(k) BY <1>3, <2>1
  <2> QED BY <2>1, <2>2 DEF T
<1>6. \A k \in 0 .. N : k \in T
  <2> HIDE DEF T
  <2> QED BY <1>2, <1>4, <1>5, Upward
<1>7. Agree(N) BY <1>2, <1>6
<1>8. Depth(h, a) <= N
  <2>1. Depth(h, a) \in 0 .. N BY DepthIs
  <2> QED BY <1>2, <2>1
<1> QED BY <1>1, <1>7, <1>8

\* MEMBER.
MemberRight(h, a, b) ==
    LET of(v) == Shape(h, v, caseignored)
        rest == of(Member(h, a, b))[2]
        all == of(b)[2]
        first == Len(all) - Len(rest) + 1
    IN /\ \A i \in 1 .. first - 1 : of(a) # all[i]
       /\ rest # <<>> => of(a) = all[first] /\ rest = SubSeq(all, first, Len(all))

LEMMA MemberMeant ==
  ASSUME NEW h, Tidy(h), NEW a, NEW b, Fine(h, a), Fine(h, b), IsList(h, b), caseignored \in BOOLEAN
  PROVE  MemberRight(h, a, b)
<1> DEFINE lower == caseignored of(v) == Shape(h, v, lower) c == Conses(h, b) e == Elements(h, b)
           l == Len(c) m == Member(h, a, b) rest == of(m)[2] all == of(b)[2]
           first == Len(all) - Len(rest) + 1 at == {i \in 1 .. l : Equalp(h, a, Car(h, c[i]))}
<1>1. \A v : Fine(h, v) => (Equalp(h, a, v) <=> of(a) = of(v)) BY EqualpMeant DEF SameShape
<1> HIDE DEF lower
<1>2. e \in Seq(Value) /\ SeqFine(h, e) /\ Len(e) = l /\ l \in Nat /\ all = Mapped(h, e, lower)
  BY ElementsFine, MembersAre
<1>3. Len(all) = l /\ \A i \in 1 .. l : all[i] = of(e[i])
  <2> HIDE DEF c, e, all
  <2>1. Len(Mapped(h, e, lower)) = Len(e) /\ \A i \in 1 .. Len(e) : Mapped(h, e, lower)[i] = Shape(h, e[i], lower)
    BY <1>2, MappedIs
  <2> QED BY <1>2, <2>1
<1>4. \A i \in 1 .. l : Car(h, c[i]) = e[i] /\ Elements(h, c[i]) = SubSeq(e, i, l) /\ Fine(h, c[i]) /\ IsList(h, c[i])
  <2> SUFFICES ASSUME NEW i \in 1 .. l
               PROVE  Car(h, c[i]) = e[i] /\ Elements(h, c[i]) = SubSeq(e, i, l) /\ Fine(h, c[i]) /\ IsList(h, c[i])
    OBVIOUS
  <2>1. /\ Fine(h, c[i]) /\ IsCons(h, c[i]) /\ Car(h, c[i]) = e[i]
        /\ Elements(h, c[i]) = SubSeq(e, i, Len(e))
    BY ElementsRest
  <2> HIDE DEF c, e
  <2> QED BY <1>2, <2>1 DEF IsList
<1>5. \/ at = {} /\ m = Nil
      \/ \E i \in at : m = c[i] /\ \A j \in at : i <= j
  BY MemberIs
<1> HIDE DEF c, e, l, m, all
<1>6. \A i \in 1 .. l : i \in at <=> of(a) = all[i]
  <2>1. \A i \in 1 .. l : Fine(h, e[i]) BY <1>2 DEF SeqFine
  <2> HIDE DEF of
  <2> QED BY <1>1, <1>3, <1>4, <2>1
<1>7. CASE at = {} /\ m = Nil
  <2>1. rest = <<>>
    <3>1. of(Nil) = <<"list", <<>> >> BY NilShape
    <3> QED BY <1>7, <3>1
  <2>2. Len(rest) = 0 BY <2>1
  <2> HIDE DEF rest
  <2>3. first - 1 = l BY <1>2, <1>3, <2>2
  <2>4. \A i \in 1 .. first - 1 : of(a) # all[i]
    <3> HIDE DEF at, of, first
    <3> QED BY <1>6, <1>7, <2>3
  <2> QED BY <2>1, <2>4 DEF MemberRight, rest, m, all, lower
<1>8. ASSUME NEW i \in at, m = c[i], \A j \in at : i <= j
      PROVE  MemberRight(h, a, b)
  <2>0. i \in 1 .. l OBVIOUS
  <2>1. rest = SubSeq(all, i, l) /\ Len(rest) = l - i + 1
    <3>1. of(m)[2] = Mapped(h, Elements(h, m), lower) BY <1>4, <1>8, <2>0, MembersAre
    <3>2. Elements(h, m) = SubSeq(e, i, l) BY <1>4, <1>8, <2>0
    <3>3. SubMapped(h, lower, e, i, l)
      <4>1. i \in Nat /\ i > 0 /\ i <= l + 1 /\ l <= Len(e) BY <1>2, <2>0
      <4> QED BY <1>2, <4>1, MappedSub
    <3>4. Mapped(h, SubSeq(e, i, l), lower) = SubSeq(all, i, l) BY <1>2, <3>3, Zenon DEF SubMapped
    <3>5. rest = SubSeq(all, i, l) BY <3>1, <3>2, <3>4, Zenon
    <3>6. Len(SubSeq(all, i, l)) = l - i + 1
      <4>1. i \in Int /\ l \in Int /\ i <= l BY <1>2, <2>0
      <4>2. \A j \in i .. l : all[j] \in Shapes(h, lower)
        <5>1. \A j \in i .. l : j \in 1 .. l BY <1>2, <2>0
        <5>2. \A j \in 1 .. l : e[j] \in Value BY <1>2
        <5> QED BY <1>3, <5>1, <5>2 DEF Shapes
      <4>3. Len(SubSeq(all, i, l)) = IF i <= l THEN l - i + 1 ELSE 0 BY <4>1, <4>2, SubSeqProperties
      <4> QED BY <4>1, <4>3
    <3> HIDE DEF rest
    <3> QED BY <3>5, <3>6
  <2> HIDE DEF rest
  <2>2. first = i BY <1>2, <1>3, <2>0, <2>1
  <2>3. \A j \in 1 .. first - 1 : of(a) # all[j]
    <3>1. \A j \in 1 .. first - 1 : j \in 1 .. l /\ ~(i <= j) BY <1>2, <2>0, <2>2
    <3> HIDE DEF at, of, first
    <3> QED BY <1>6, <1>8, <3>1
  <2>4. of(a) = all[first]
    <3> HIDE DEF at, of, first
    <3> QED BY <1>6, <1>8, <2>0, <2>2
  <2>5. rest = SubSeq(all, first, Len(all))
    <3> HIDE DEF first
    <3> QED BY <1>3, <2>1, <2>2
  <2> QED BY <2>3, <2>4, <2>5 DEF MemberRight, rest, m, all, lower
<1> QED BY <1>5, <1>7, <1>8

LEMMA EqualpRight ==
  ASSUME DataTypeOK, PlistIsPrivate PROVE EqualpIsEquality
<1> SUFFICES ASSUME Plain, NEW a \in Values, NEW b \in Values
             PROVE  LET of(v) == Shape(heap, v, caseignored)
                    IN /\ Equalp(heap, a, b) <=> of(a) = of(b)
                       /\ IsList(heap, b) => MemberRight(heap, a, b)
  BY Zenon DEF EqualpIsEquality, MemberRight
<1>1. Tidy(heap) /\ Fine(heap, a) /\ Fine(heap, b) BY HeapTidy
<1>2. caseignored \in BOOLEAN BY DEF DataTypeOK
<1>3. Equalp(heap, a, b) <=> SameShape(heap, a, b) BY <1>1, <1>2, EqualpMeant
<1>4. IsList(heap, b) => MemberRight(heap, a, b) BY <1>1, <1>2, MemberMeant
<1> QED BY <1>3, <1>4, Zenon DEF SameShape

(* On whatever structure the calls have built and changed, every primitive *)
(* outputs the list it is meant to, EQUALP is equality and MEMBER finds *)
(* the first of the elements that are equal (lists.c, math.c:700-723): for *)
(* any heap, any words and any calls. *)
THEOREM DataIsRight == DataSpec => []DataInv
<1>1. DataTypeOK /\ PlistIsPrivate => DataInv BY OpsMeant, EqualpRight DEF DataInv
<1> QED BY <1>1, DataTypes, PTL
----
(* LogoHeap, from here on. *)

USE NilAssumption, KindAssumption, PtrFieldsAssumption, NumGensAssumption,
    AgeAssumption, ThresholdAssumption
----
(* Typing. *)

\* Every step of the mutator and of the collector keeps every variable in its
\* range; the interesting ones are max_gen, next_gen_gc and my_gen, which the
\* sweep increments and which must stay below NUM_GENS.
LEMMA TypeStep == TypeOK /\ [Next]_vars => TypeOK'
<1> SUFFICES ASSUME TypeOK, [Next]_vars PROVE TypeOK' OBVIOUS
<1> USE DEF TypeOK, Gen
<1>1. ASSUME NEW n \in Node, NEW k \in Kind, NewNode(n, k) PROVE TypeOK'
  <2>1. /\ kind' \in [Node -> Kind \cup {NTFREE}]
        /\ ptr' \in [Node -> [Field -> Node \cup {NIL}]]
    BY <1>1 DEF NewNode, Cleared
  <2>2. my_gen' \in [Node -> Gen] /\ gen_age' \in [Node -> Nat] BY <1>1 DEF NewNode
  <2>3. generation' \in [Gen -> SUBSET Node] BY <1>1 DEF NewNode
  <2>4. free_list' \subseteq Node /\ regs' \subseteq Node /\ mem_nodes' \in Int BY <1>1 DEF NewNode
  <2>5. UNCHANGED <<oldyoungs, reserve_tank, segs, pc, throwing, gc_overflow_flag,
                    gcVars>>
    BY <1>1 DEF NewNode
  <2>6. pending' \in BOOLEAN BY <1>1 DEF NewNode
  <2> QED BY <2>1, <2>2, <2>3, <2>4, <2>5, <2>6 DEF gcVars
<1>2. ASSUME NEW n \in Node, NEW f \in Field, NEW v \in Node \cup {NIL},
             SetField(n, f, v)
      PROVE TypeOK'
  BY <1>2 DEF SetField, Mutating, Remember, ctlVars, gcVars
<1>3. ASSUME NEW n \in Node, NEW f \in Field, Load(n, f) PROVE TypeOK'
  BY <1>3 DEF Load, Mutating, ctlVars, gcVars
<1>4. ASSUME NEW n \in Node, Drop(n) PROVE TypeOK' BY <1>4 DEF Drop, Mutating, ctlVars, gcVars
<1>5. CASE TopLevelRecover BY <1>5 DEF TopLevelRecover, Mutating, heapVars, gcVars
<1>6. ASSUME NEW S \in SUBSET Node, FillReserveTank(S) PROVE TypeOK'
  BY <1>6 DEF FillReserveTank, Mutating, ctlVars, gcVars
<1>7. ASSUME NEW no_error \in BOOLEAN, StartGc(no_error), pending' \in BOOLEAN
      PROVE TypeOK'
  BY <1>7 DEF StartGc, GenToCollect, heapVars
<1>8. ASSUME NewNodeGc \/ \E no_error \in BOOLEAN : GcCommand(no_error)
      PROVE TypeOK'
  <2>1. /\ \E no_error \in BOOLEAN : StartGc(no_error)
        /\ pending' \in BOOLEAN
    BY <1>8 DEF NewNodeGc, GcCommand
  <2> QED BY <2>1, <1>7
<1>9. ASSUME NEW n \in Node, MarkNode(n) PROVE TypeOK'
  <2>1. Children(n) \subseteq Node BY SegmentAssumption DEF Children, Valid
  <2> QED BY <1>9, <2>1 DEF MarkNode, Markable, heapVars, ctlVars
<1>10. CASE GcStackOverflow BY <1>10 DEF GcStackOverflow, heapVars
<1>11. ASSUME NEW n \in Node, InterGenMark(n) PROVE TypeOK'
  <2>1. Younger(n) \subseteq Node BY SegmentAssumption DEF Younger, Children, Valid
  <2> QED BY <1>11, <2>1 DEF InterGenMark, Markable, ctlVars
<1>12. CASE GcAbandon BY <1>12 DEF GcAbandon, GcVarsReset, heapVars
<1>13. CASE StartSweep BY <1>13 DEF StartSweep, heapVars
<1>14. ASSUME NEW n \in Node, SweepKeep(n) PROVE TypeOK' BY <1>14 DEF SweepKeep, Aged, ctlVars
<1>15. ASSUME NEW n \in Node, SweepPromote(n) PROVE TypeOK'
  <2>1. loop + 1 \in Gen /\ loop \in Gen BY <1>15 DEF SweepPromote, Promotable
  <2>2. generation' \in [Gen -> SUBSET Node] BY <1>15, <2>1 DEF SweepPromote
  <2>3. my_gen' \in [Node -> Gen] /\ gen_age' \in [Node -> Nat] BY <1>15, <2>1 DEF SweepPromote
  <2>4. /\ max_gen' \in Gen /\ oldyoungs' \subseteq Node /\ todo' \subseteq Node
    BY <1>15, <2>1 DEF SweepPromote, RememberPromoted
  <2> QED BY <1>15, <2>2, <2>3, <2>4 DEF SweepPromote, ctlVars
<1>16. ASSUME NEW n \in Node, SweepFree(n) PROVE TypeOK' BY <1>16 DEF SweepFree, ctlVars
<1>17. CASE SweepNextGen BY <1>17 DEF SweepNextGen, heapVars, ctlVars
<1>18. ASSUME GcEnd PROVE next_gen_gc' \in Gen /\ full' = full /\ gen_gc' = gen_gc
                         /\ max_gen' = max_gen /\ pending' = pending
                         /\ gc_overflow_flag' = gc_overflow_flag /\ GcVarsReset
  BY <1>18 DEF GcEnd, NextGenGc
<1>19. CASE GcEndAddSeg BY <1>18, <1>19, SegmentAssumption
     DEF GcEndAddSeg, AddSeg, NextSegment, GcVarsReset, GcEnd
<1>20. CASE GcEndOutOfMem BY <1>18, <1>20 DEF GcEndOutOfMem, OutOfMem, TankFreed, GcVarsReset, GcEnd
<1>21. CASE GcEndReturn BY <1>18, <1>21 DEF GcEndReturn, heapVars, GcVarsReset, GcEnd
<1>22. CASE GcAfterOverflow
  <2>1. pending' \in BOOLEAN /\ UNCHANGED <<gc_overflow_flag, gcVars>> BY <1>22 DEF GcAfterOverflow
  <2>2. CASE AddSeg BY <2>1, <2>2, SegmentAssumption DEF AddSeg, NextSegment, gcVars
  <2>3. CASE OutOfMem BY <2>1, <2>3 DEF OutOfMem, TankFreed, gcVars
  <2> QED BY <1>22, <2>2, <2>3 DEF GcAfterOverflow
<1>23. CASE UNCHANGED vars BY <1>23 DEF vars, heapVars, ctlVars, gcVars
<1> QED BY <1>1, <1>2, <1>3, <1>4, <1>5, <1>6, <1>8, <1>9, <1>10, <1>11, <1>12,
     <1>13, <1>14, <1>15, <1>16, <1>17, <1>19, <1>20, <1>21, <1>22, <1>23
     DEF Next, Mutator, Collector

LEMMA TypeInit == Init => TypeOK
<1> SUFFICES ASSUME Init PROVE TypeOK OBVIOUS
<1>1. FirstSegment \subseteq DOMAIN Segment /\ free_list \subseteq Node
  BY SegmentAssumption DEF Init, FirstSegment
<1>2. /\ kind \in [Node -> Kind \cup {NTFREE}]
      /\ ptr \in [Node -> [Field -> Node \cup {NIL}]]
      /\ my_gen \in [Node -> Gen] /\ gen_age \in [Node -> Nat]
      /\ generation \in [Gen -> SUBSET Node]
  BY DEF Init, Gen
<1>3. /\ oldyoungs \subseteq Node /\ reserve_tank \subseteq Node /\ regs \subseteq Node
      /\ marked \subseteq Node /\ gray \subseteq Node /\ scan \subseteq Node
      /\ todo \subseteq Node /\ segs \subseteq DOMAIN Segment
  BY <1>1 DEF Init
<1>4. /\ mem_nodes \in Int /\ gen_gc \in Gen /\ next_gen_gc \in Gen
      /\ max_gen \in Gen /\ loop \in Gen /\ num_freed \in Nat
  BY DEF Init, Gen
<1>5. /\ pc \in {"run", "mark", "sweep", "exit"} /\ pending \in BOOLEAN
      /\ throwing \in BOOLEAN /\ gc_overflow_flag \in BOOLEAN /\ full \in BOOLEAN
  BY DEF Init
<1> QED BY <1>1, <1>2, <1>3, <1>4, <1>5 DEF TypeOK

\* Type correctness of the collector's data structures.
THEOREM TypeCorrect == Spec => []TypeOK
  BY TypeInit, TypeStep, PTL DEF Spec
----
(* The lists: what is where, and what the sweep has still to visit. *)

SegNodes == UNION {Segment[i] : i \in segs}

LEMMA InUseIff == ASSUME NEW n PROVE n \in InUse <=> \E g \in Gen : n \in generation[g]
  BY DEF InUse

LEMMA InUsePrimeIff ==
    ASSUME NEW n PROVE n \in InUse' <=> \E g \in Gen : n \in generation'[g]
  BY DEF InUse

LEMMA SegNodesNode == ASSUME TypeOK PROVE SegNodes \subseteq Node
  BY SegmentAssumption DEF SegNodes, TypeOK

\* The nodes on the generation lists after each of the steps that edit them.
LEMMA NewNodeInUse ==
    ASSUME TypeOK, NEW n \in Node, NEW k \in Kind, NewNode(n, k)
    PROVE  InUse' = InUse \cup {n}
<1>1. 0 \in Gen BY NumGensAssumption DEF Gen
<1>2. /\ generation'[0] = generation[0] \cup {n}
      /\ \A g \in Gen : g # 0 => generation'[g] = generation[g]
  BY <1>1 DEF NewNode, TypeOK
<1> QED BY <1>1, <1>2 DEF InUse

LEMMA PromoteInUse ==
    ASSUME TypeOK, NEW n \in Node, SweepPromote(n), n \in generation[loop]
    PROVE  InUse' = InUse
<1>1. loop \in Gen /\ loop + 1 \in Gen /\ loop # loop + 1
  BY NumGensAssumption DEF SweepPromote, Promotable, Gen, TypeOK
<1>2. /\ generation'[loop] = generation[loop] \ {n}
      /\ generation'[loop + 1] = generation[loop + 1] \cup {n}
      /\ \A g \in Gen \ {loop, loop + 1} : generation'[g] = generation[g]
  BY <1>1 DEF SweepPromote, TypeOK
<1>3. ASSUME NEW m PROVE m \in InUse' <=> m \in InUse BY <1>1, <1>2, InUseIff, InUsePrimeIff
<1> QED BY <1>3

LEMMA FreeInUse ==
    ASSUME TypeOK, HeapPartition, NEW n \in Node, SweepFree(n), n \in generation[loop]
    PROVE  InUse' = InUse \ {n}
<1>1. loop \in Gen /\ my_gen[n] = loop BY DEF TypeOK, HeapPartition
<1>2. /\ generation'[loop] = generation[loop] \ {n}
      /\ \A g \in Gen \ {loop} : generation'[g] = generation[g]
  BY <1>1 DEF SweepFree, TypeOK
<1>3. \A g \in Gen \ {loop} : n \notin generation[g] BY <1>1 DEF HeapPartition
<1>4. ASSUME NEW m PROVE m \in InUse' <=> m \in InUse \ {n}
  BY <1>1, <1>2, <1>3, InUseIff, InUsePrimeIff
<1> QED BY <1>4

\* A step that leaves segments, types and lists alone keeps the partition.
LEMMA PartitionFrame ==
    ASSUME HeapPartition,
           UNCHANGED <<kind, my_gen, generation, free_list, reserve_tank, segs>>
    PROVE  HeapPartition'
  BY DEF HeapPartition, InUse

\* addseg gives the free list nodes that no other list holds.
LEMMA AddSegPartition ==
    ASSUME TypeOK, HeapPartition, AddSeg PROVE HeapPartition'
<1> DEFINE Got == UNION {Segment[i] : i \in NextSegment}
<1>1. Got \subseteq Node /\ Got \cap SegNodes = {}
  BY SegmentAssumption DEF NextSegment, SegNodes, TypeOK
<1>2. SegNodes' = SegNodes \cup Got BY DEF AddSeg, SegNodes
<1>3. InUse' = InUse BY DEF AddSeg, InUse
<1>4. SegNodes = free_list \cup reserve_tank \cup InUse BY DEF HeapPartition, SegNodes
<1>5. SegNodes' = free_list' \cup reserve_tank' \cup InUse' BY <1>2, <1>3, <1>4 DEF AddSeg
<1>6. /\ free_list' \cap reserve_tank' = {}
      /\ InUse' \cap (free_list' \cup reserve_tank') = {}
  BY <1>1, <1>3, <1>4 DEF AddSeg, HeapPartition
<1> QED BY <1>3, <1>5, <1>6 DEF AddSeg, HeapPartition, SegNodes

\* The reserve tank goes back to the free list.
LEMMA OutOfMemPartition ==
    ASSUME TypeOK, HeapPartition, OutOfMem PROVE HeapPartition'
<1>1. InUse' = InUse /\ SegNodes' = SegNodes BY DEF OutOfMem, InUse, SegNodes
<1>2. SegNodes' = free_list' \cup reserve_tank' \cup InUse'
  BY <1>1 DEF OutOfMem, HeapPartition, SegNodes
<1>3. /\ free_list' \cap reserve_tank' = {}
      /\ InUse' \cap (free_list' \cup reserve_tank') = {}
  BY <1>1 DEF OutOfMem, HeapPartition
<1>4. \A n \in Node : kind'[n] # NTFREE <=> n \in InUse' \cup reserve_tank'
  BY <1>1 DEF OutOfMem, TankFreed, HeapPartition, TypeOK
<1> QED BY <1>1, <1>2, <1>3, <1>4 DEF OutOfMem, HeapPartition, SegNodes

\* Every step keeps every node of every segment in exactly one place.
LEMMA PartitionStep ==
    TypeOK /\ HeapPartition /\ SweepInv /\ [Next]_vars => HeapPartition'
<1> SUFFICES ASSUME TypeOK, HeapPartition, SweepInv, [Next]_vars PROVE HeapPartition' OBVIOUS
<1> DEFINE Same == UNCHANGED <<kind, my_gen, generation, free_list, reserve_tank, segs>>
<1>0. /\ SegNodes = free_list \cup reserve_tank \cup InUse
      /\ SegNodes \subseteq Node
  BY SegNodesNode DEF HeapPartition, SegNodes
<1>1. ASSUME NEW n \in Node, NEW k \in Kind, NewNode(n, k) PROVE HeapPartition'
  <2>1. InUse' = InUse \cup {n} /\ SegNodes' = SegNodes BY <1>1, NewNodeInUse DEF NewNode, SegNodes
  <2>2. SegNodes' = free_list' \cup reserve_tank' \cup InUse' BY <1>0, <1>1, <2>1 DEF NewNode
  <2>3. /\ free_list' \cap reserve_tank' = {}
        /\ InUse' \cap (free_list' \cup reserve_tank') = {}
    BY <1>1, <2>1 DEF NewNode, HeapPartition
  <2>4. n \notin InUse BY <1>1 DEF NewNode, HeapPartition
  <2>5. ASSUME NEW g \in Gen, NEW m \in generation'[g] PROVE my_gen'[m] = g
    <3>1. m \in Node /\ 0 \in Gen BY <1>1, NumGensAssumption DEF NewNode, TypeOK, Gen
    <3>2. CASE m = n BY <1>1, <2>4, <2>5, <3>1, <3>2, InUseIff DEF NewNode, TypeOK
    <3>3. CASE m # n BY <1>1, <2>5, <3>1, <3>3 DEF NewNode, HeapPartition, TypeOK
    <3> QED BY <3>2, <3>3
  <2>6. \A m \in Node : kind'[m] # NTFREE <=> m \in InUse' \cup reserve_tank'
    BY <1>1, <2>1, KindAssumption DEF NewNode, HeapPartition, TypeOK
  <2> QED BY <2>2, <2>3, <2>5, <2>6 DEF HeapPartition, SegNodes
<1>2. ASSUME NEW n \in Node, NEW f \in Field, NEW v \in Node \cup {NIL},
             SetField(n, f, v)
      PROVE Same
  BY <1>2 DEF SetField
<1>3. ASSUME NEW n \in Node, NEW f \in Field, Load(n, f) PROVE Same BY <1>3 DEF Load
<1>4. ASSUME NEW n \in Node, Drop(n) PROVE Same BY <1>4 DEF Drop
<1>5. CASE TopLevelRecover BY <1>5, PartitionFrame DEF TopLevelRecover, heapVars
<1>6. ASSUME NEW S \in SUBSET Node, FillReserveTank(S) PROVE HeapPartition'
  <2>1. InUse' = InUse /\ SegNodes' = SegNodes BY <1>6 DEF FillReserveTank, InUse, SegNodes
  <2>2. SegNodes' = free_list' \cup reserve_tank' \cup InUse'
    BY <1>0, <1>6, <2>1 DEF FillReserveTank
  <2>3. /\ free_list' \cap reserve_tank' = {}
        /\ InUse' \cap (free_list' \cup reserve_tank') = {}
    BY <1>6, <2>1 DEF FillReserveTank, HeapPartition
  <2>4. \A n \in Node : kind'[n] # NTFREE <=> n \in InUse' \cup reserve_tank'
    BY <1>6, <2>1, KindAssumption DEF FillReserveTank, HeapPartition, TypeOK
  <2> QED BY <1>6, <2>1, <2>2, <2>3, <2>4 DEF FillReserveTank, HeapPartition, SegNodes
<1>7. ASSUME NEW no_error \in BOOLEAN, GcCommand(no_error) PROVE Same
  BY <1>7 DEF GcCommand, StartGc, heapVars
<1>8. CASE NewNodeGc BY <1>8, PartitionFrame DEF NewNodeGc, StartGc, heapVars
<1>9. ASSUME NEW n \in Node, MarkNode(n) \/ InterGenMark(n) \/ SweepKeep(n) PROVE Same
  BY <1>9 DEF MarkNode, InterGenMark, SweepKeep, heapVars
<1>10. CASE GcStackOverflow \/ GcAbandon \/ StartSweep \/ SweepNextGen \/ GcEndReturn
  BY <1>10, PartitionFrame
     DEF GcStackOverflow, GcAbandon, StartSweep, SweepNextGen, GcEndReturn, heapVars
<1>11. ASSUME NEW n \in Node, SweepPromote(n) PROVE HeapPartition'
  <2>1. n \in generation[loop] BY <1>11 DEF SweepPromote, SweepInv
  <2>2. InUse' = InUse /\ SegNodes' = SegNodes
    BY <1>11, <2>1, PromoteInUse DEF SweepPromote, SegNodes
  <2>3. loop \in Gen /\ loop + 1 \in Gen /\ loop # loop + 1 /\ my_gen[n] = loop
    BY <1>11, <2>1, NumGensAssumption DEF SweepPromote, Promotable, Gen, TypeOK, HeapPartition
  <2>4. ASSUME NEW g \in Gen, NEW m \in generation'[g] PROVE my_gen'[m] = g
    <3>1. m \in Node BY <1>11, <2>3 DEF SweepPromote, TypeOK
    <3>2. CASE m = n
      <4>1. g = loop + 1 BY <1>11, <2>3, <2>4, <3>2 DEF SweepPromote, HeapPartition, TypeOK
      <4> QED BY <1>11, <3>1, <3>2, <4>1 DEF SweepPromote, TypeOK
    <3>3. CASE m # n
      <4>1. m \in generation[g] BY <1>11, <2>3, <2>4, <3>3 DEF SweepPromote, TypeOK
      <4> QED BY <1>11, <3>1, <3>3, <4>1 DEF SweepPromote, HeapPartition, TypeOK
    <3> QED BY <3>2, <3>3
  <2> QED BY <1>11, <2>2, <2>4 DEF SweepPromote, HeapPartition, SegNodes
<1>12. ASSUME NEW n \in Node, SweepFree(n) PROVE HeapPartition'
  <2>1. n \in generation[loop] /\ loop \in Gen BY <1>12 DEF SweepFree, SweepInv, TypeOK
  <2>2. InUse' = InUse \ {n} /\ SegNodes' = SegNodes /\ n \in InUse
    BY <1>12, <2>1, FreeInUse, InUseIff DEF SweepFree, SegNodes
  <2>3. SegNodes' = free_list' \cup reserve_tank' \cup InUse' BY <1>0, <1>12, <2>2 DEF SweepFree
  <2>4. /\ free_list' \cap reserve_tank' = {}
        /\ InUse' \cap (free_list' \cup reserve_tank') = {}
    BY <1>12, <2>2 DEF SweepFree, HeapPartition
  <2>5. \A g \in Gen : \A m \in generation'[g] : my_gen'[m] = g
    BY <1>12, <2>1 DEF SweepFree, HeapPartition, TypeOK
  <2>6. \A m \in Node : kind'[m] # NTFREE <=> m \in InUse' \cup reserve_tank'
    BY <1>12, <2>2 DEF SweepFree, HeapPartition, TypeOK
  <2> QED BY <2>3, <2>4, <2>5, <2>6 DEF HeapPartition, SegNodes
<1>13. CASE GcEndAddSeg \/ GcEndOutOfMem \/ GcAfterOverflow
  BY <1>13, AddSegPartition, OutOfMemPartition DEF GcEndAddSeg, GcEndOutOfMem, GcAfterOverflow
<1>14. CASE UNCHANGED vars BY <1>14, PartitionFrame DEF vars, heapVars
<1> HIDE DEF Same
<1>15. Same => HeapPartition' BY PartitionFrame DEF Same
<1> QED BY <1>1, <1>2, <1>3, <1>4, <1>5, <1>6, <1>7, <1>8, <1>9, <1>10, <1>11, <1>12,
     <1>13, <1>14, <1>15 DEF Next, Mutator, Collector
----
(* What the steps do to the nodes that are kept. *)

\* When the sweep is over nothing condemned is left.
LEMMA SweepDone ==
    ASSUME TypeOK, HeapPartition, SweepInv, pc = "sweep", todo = {}, loop = 0
    PROVE  Kept = InUse
<1>1. ASSUME NEW n \in Condemned PROVE FALSE
  <2>1. n \in InUse /\ my_gen[n] < 0 BY <1>1 DEF SweepInv, Condemned
  <2>2. my_gen[n] \in Nat BY <2>1, InUseIff DEF TypeOK, Gen
  <2> QED BY <2>1, <2>2
<1> QED BY <1>1 DEF Kept

\* Nothing the mutator can see changes: the kept nodes stay, with their fields.
Quiet == /\ Kept' = Kept
         /\ regs' = regs
         /\ \A n \in Kept : kind'[n] = kind[n] /\ ptr'[n] = ptr[n]

\* The steps outside the sweep that leave the generations alone.
LEMMA QuietOutside ==
    ASSUME pc # "sweep", pc' # "sweep",
           UNCHANGED <<kind, ptr, generation, regs>>
    PROVE  Quiet
  BY DEF Quiet, Kept, Condemned, InUse

LEMMA QuietSweep ==
    ASSUME TypeOK, HeapPartition, SweepInv,
           NEW n \in Node, SweepKeep(n) \/ SweepPromote(n) \/ SweepFree(n)
    PROVE  Quiet
<1>1. pc = "sweep" /\ pc' = "sweep" /\ gen_gc' = gen_gc /\ marked' = marked
  BY DEF SweepKeep, SweepPromote, SweepFree, ctlVars
<1>2. /\ n \in generation[loop] /\ loop \in Gen /\ loop <= gen_gc
      /\ my_gen[n] = loop /\ n \in InUse
  BY <1>1, InUseIff DEF SweepKeep, SweepPromote, SweepFree, SweepInv, TypeOK, HeapPartition
<1>3. CASE SweepKeep(n) BY <1>1, <1>3 DEF SweepKeep, Quiet, Kept, Condemned, InUse
<1>4. CASE SweepPromote(n)
  <2>1. InUse' = InUse BY <1>2, <1>4, PromoteInUse
  <2>2. n \in marked /\ \A m \in Node \ {n} : my_gen'[m] = my_gen[m]
    BY <1>4 DEF SweepPromote, TypeOK
  <2>3. InUse \subseteq Node BY InUseIff DEF TypeOK
  <2>4. Condemned' = Condemned BY <1>1, <2>1, <2>2, <2>3 DEF Condemned
  <2> QED BY <1>4, <2>1, <2>4 DEF SweepPromote, Quiet, Kept
<1>5. CASE SweepFree(n)
  <2>1. InUse' = InUse \ {n} BY <1>2, <1>5, FreeInUse
  <2>2. n \in Condemned BY <1>1, <1>2, <1>5 DEF Condemned, SweepFree
  <2>3. Condemned' = Condemned \ {n} BY <1>1, <1>5, <2>1 DEF Condemned, SweepFree
  <2>4. Kept' = Kept /\ n \notin Kept BY <2>1, <2>2, <2>3 DEF Kept
  <2>5. \A m \in Kept : kind'[m] = kind[m] BY <1>5, <2>4, InUseIff DEF SweepFree, TypeOK, Kept
  <2> QED BY <1>5, <2>4, <2>5 DEF SweepFree, Quiet
<1> QED BY <1>3, <1>4, <1>5

LEMMA QuietEnd ==
    ASSUME TypeOK, HeapPartition, SweepInv,
           GcEndAddSeg \/ GcEndOutOfMem \/ GcEndReturn
    PROVE  Quiet
<1>1. pc = "sweep" /\ todo = {} /\ loop = 0 /\ pc' # "sweep"
  BY DEF GcEndAddSeg, GcEndOutOfMem, GcEndReturn, GcEnd, AddSeg, OutOfMem
<1>2. Kept = InUse BY <1>1, SweepDone
<1>3. /\ UNCHANGED <<ptr, generation, regs>>
      /\ kind' = kind \/ kind' = TankFreed
  BY DEF GcEndAddSeg, GcEndOutOfMem, GcEndReturn, AddSeg, OutOfMem, heapVars
<1>4. Kept' = InUse' /\ InUse' = InUse BY <1>1, <1>3 DEF Kept, Condemned, InUse
<1>5. \A n \in InUse : kind'[n] = kind[n] BY <1>3, InUseIff DEF TankFreed, HeapPartition, TypeOK
<1> QED BY <1>2, <1>3, <1>4, <1>5 DEF Quiet

\* A step either is one of the mutator's, or starts the sweep, or is quiet.
LEMMA StepKinds ==
    ASSUME TypeOK, HeapPartition, SweepInv, [Next]_vars
    PROVE  \/ \E n \in Node, k \in Kind : NewNode(n, k)
           \/ \E n \in Node, f \in Field, v \in Node \cup {NIL} : SetField(n, f, v)
           \/ \E n \in Node, f \in Field : Load(n, f)
           \/ \E n \in Node : Drop(n)
           \/ StartSweep
           \/ Quiet
<1>1. CASE TopLevelRecover BY <1>1, QuietOutside DEF TopLevelRecover, Mutating, heapVars
<1>2. ASSUME NEW S \in SUBSET Node, FillReserveTank(S) PROVE Quiet
  <2>1. /\ Kept = InUse /\ Kept' = InUse' /\ InUse' = InUse
        /\ UNCHANGED regs
    BY <1>2 DEF FillReserveTank, Mutating, Kept, Condemned, InUse, ctlVars
  <2>2. S \cap InUse = {} /\ InUse \subseteq Node
    BY <1>2, InUseIff DEF FillReserveTank, HeapPartition, TypeOK
  <2>3. \A n \in Node \ S : kind'[n] = kind[n] /\ ptr'[n] = ptr[n]
    BY <1>2 DEF FillReserveTank, TypeOK
  <2> QED BY <2>1, <2>2, <2>3 DEF Quiet
<1>3. ASSUME NEW no_error \in BOOLEAN, GcCommand(no_error) PROVE Quiet
  BY <1>3, QuietOutside DEF GcCommand, StartGc, Mutating, heapVars
<1>4. CASE NewNodeGc BY <1>4, QuietOutside DEF NewNodeGc, StartGc, heapVars
<1>5. ASSUME NEW n \in Node, MarkNode(n) \/ InterGenMark(n) PROVE Quiet
  BY <1>5, QuietOutside DEF MarkNode, InterGenMark, heapVars, ctlVars
<1>6. CASE GcStackOverflow \/ GcAbandon
  BY <1>6, QuietOutside DEF GcStackOverflow, GcAbandon, heapVars
<1>7. ASSUME NEW n \in Node, SweepKeep(n) \/ SweepPromote(n) \/ SweepFree(n)
      PROVE Quiet
  BY <1>7, QuietSweep
<1>8. CASE SweepNextGen BY <1>8 DEF SweepNextGen, Quiet, Kept, Condemned, InUse, heapVars, ctlVars
<1>9. CASE GcEndAddSeg \/ GcEndOutOfMem \/ GcEndReturn BY <1>9, QuietEnd
<1>10. CASE GcAfterOverflow
  <2>1. /\ pc = "run" /\ pc' # "sweep"
        /\ UNCHANGED <<ptr, generation, regs>>
        /\ kind' = kind \/ kind' = TankFreed
    BY <1>10 DEF GcAfterOverflow, AddSeg, OutOfMem
  <2>2. Kept = InUse /\ Kept' = InUse' /\ InUse' = InUse BY <2>1 DEF Kept, Condemned, InUse
  <2>3. \A n \in InUse : kind'[n] = kind[n] BY <2>1, InUseIff DEF TankFreed, HeapPartition, TypeOK
  <2> QED BY <2>1, <2>2, <2>3 DEF Quiet
<1>11. CASE UNCHANGED vars
  BY <1>11 DEF vars, Quiet, Kept, Condemned, InUse, heapVars, ctlVars, gcVars
<1> QED BY <1>1, <1>2, <1>3, <1>4, <1>5, <1>6, <1>7, <1>8, <1>9, <1>10, <1>11
     DEF Next, Mutator, Collector
----
(* No dangling pointers. *)

LEMMA KeptInUse == Kept \subseteq InUse
  BY DEF Kept

LEMMA InUseNode == ASSUME TypeOK PROVE InUse \subseteq Node
  BY InUseIff DEF TypeOK

LEMMA NoDanglingStep ==
    TypeOK /\ HeapPartition /\ SweepInv /\ MarkInv /\ NoDangling /\ [Next]_vars
        => NoDangling'
<1> SUFFICES ASSUME TypeOK, HeapPartition, SweepInv, MarkInv, NoDangling, [Next]_vars
             PROVE  NoDangling'
    OBVIOUS
<1>1. ASSUME NEW n \in Node, NEW k \in Kind, NewNode(n, k) PROVE NoDangling'
  <2>1. /\ Kept = InUse /\ Kept' = InUse' /\ InUse' = InUse \cup {n}
        /\ n \notin InUse
    BY <1>1, NewNodeInUse DEF NewNode, Kept, Condemned, HeapPartition
  <2>2. regs' \subseteq Kept' BY <1>1, <2>1 DEF NewNode, NoDangling
  <2>3. ASSUME NEW m \in Kept', NEW f \in PtrFields[kind'[m]]
        PROVE  ptr'[m][f] \in Kept' \cup {NIL}
    <3>1. CASE m = n
      <4>1. kind'[n] = k /\ ptr'[n] = [g \in Field |-> NIL] BY <1>1 DEF NewNode, Cleared, TypeOK
      <4>2. f \in Field BY <2>3, <3>1, <4>1, PtrFieldsAssumption
      <4> QED BY <3>1, <4>1, <4>2
    <3>2. CASE m # n
      <4>1. m \in Kept /\ m \in Node BY <2>1, <2>3, <3>2, InUseNode
      <4>2. kind'[m] = kind[m] /\ ptr'[m] = ptr[m] BY <1>1, <3>2, <4>1 DEF NewNode, TypeOK
      <4> QED BY <2>1, <2>3, <4>1, <4>2 DEF NoDangling
    <3> QED BY <3>1, <3>2
  <2> QED BY <2>2, <2>3 DEF NoDangling
<1>2. ASSUME NEW n \in Node, NEW f \in Field, NEW v \in Node \cup {NIL},
             SetField(n, f, v)
      PROVE NoDangling'
  <2>1. Kept' = Kept /\ regs' = regs /\ kind' = kind
    BY <1>2 DEF SetField, Mutating, Kept, Condemned, InUse, ctlVars, gcVars
  <2>2. \A m \in Node, g \in Field :
            ptr'[m][g] = IF m = n /\ g = f THEN v ELSE ptr[m][g]
    BY <1>2 DEF SetField, TypeOK
  <2>3. v \in Kept \cup {NIL} BY <1>2 DEF SetField, NoDangling
  <2>4. \A m \in Kept : m \in Node /\ PtrFields[kind[m]] \subseteq Field
    <3>1. \A m \in Kept : m \in Node /\ kind[m] \in Kind
      BY KeptInUse, InUseNode DEF HeapPartition, TypeOK
    <3> QED BY <3>1, PtrFieldsAssumption
  <2> QED BY <2>1, <2>2, <2>3, <2>4 DEF NoDangling
<1>3. ASSUME NEW n \in Node, NEW f \in Field, Load(n, f) PROVE NoDangling'
  <2>1. Kept' = Kept /\ kind' = kind /\ ptr' = ptr
    BY <1>3 DEF Load, Mutating, Kept, Condemned, InUse, ctlVars, gcVars
  <2> QED BY <1>3, <2>1 DEF Load, NoDangling
<1>4. ASSUME NEW n \in Node, Drop(n) PROVE NoDangling'
  <2>1. Kept' = Kept /\ kind' = kind /\ ptr' = ptr
    BY <1>4 DEF Drop, Mutating, Kept, Condemned, InUse, ctlVars, gcVars
  <2> QED BY <1>4, <2>1 DEF Drop, NoDangling
<1>5. CASE StartSweep
  <2>1. /\ gray = {} /\ scan = {} /\ pc = "mark" /\ pc' = "sweep"
        /\ ~gc_overflow_flag
        /\ UNCHANGED <<heapVars, gen_gc, marked>>
    BY <1>5 DEF StartSweep
  <2>2. /\ Kept = InUse /\ InUse' = InUse
        /\ Kept' = {n \in InUse : my_gen[n] > gen_gc \/ n \in marked}
    <3>1. Kept = InUse /\ InUse' = InUse BY <2>1 DEF Kept, Condemned, InUse, heapVars
    <3>2. Condemned' = {n \in InUse : my_gen[n] <= gen_gc /\ n \notin marked}
      BY <2>1, <3>1 DEF Condemned, heapVars
    <3>3. \A n \in InUse : my_gen[n] \in Int /\ gen_gc \in Int BY InUseNode DEF TypeOK, Gen
    <3> QED BY <3>1, <3>2, <3>3 DEF Kept
  <2>3. \A n \in InUse : my_gen[n] \in Int /\ gen_gc \in Int BY InUseNode DEF TypeOK, Gen
  <2>4. regs \subseteq Kept' BY <2>1, <2>2, <2>3 DEF MarkInv, NoDangling
  <2>5. ASSUME NEW n \in Kept', NEW f \in PtrFields[kind[n]], ptr[n][f] # NIL
        PROVE  ptr[n][f] \in Kept'
    <3>1. n \in InUse /\ ptr[n][f] \in InUse BY <2>2, <2>5 DEF NoDangling
    <3>2. my_gen[ptr[n][f]] <= gen_gc => ptr[n][f] \in marked BY <2>1, <2>2, <2>5, <3>1 DEF MarkInv
    <3> QED BY <2>2, <2>3, <3>1, <3>2
  <2> QED BY <2>1, <2>4, <2>5 DEF NoDangling, heapVars
<1>6. CASE Quiet BY <1>6 DEF Quiet, NoDangling
<1> QED BY <1>1, <1>2, <1>3, <1>4, <1>5, <1>6, StepKinds
----
(* The sweep. *)

LEMMA SweepInvStep ==
    TypeOK /\ HeapPartition /\ SweepInv /\ [Next]_vars => SweepInv'
<1> SUFFICES ASSUME TypeOK, HeapPartition, SweepInv, [Next]_vars, pc' = "sweep"
             PROVE  SweepInv'
    BY DEF SweepInv
<1>1. \/ StartSweep \/ SweepNextGen \/ UNCHANGED vars
      \/ \E n \in Node : SweepKeep(n) \/ SweepPromote(n) \/ SweepFree(n)
  BY DEF Next, Mutator, Collector, NewNode, SetField, Load, Drop, TopLevelRecover,
         FillReserveTank, GcCommand, StartGc, NewNodeGc, MarkNode, GcStackOverflow,
         InterGenMark, GcAbandon, GcEndAddSeg, AddSeg, GcEndOutOfMem, OutOfMem,
         GcEndReturn, GcAfterOverflow, Mutating, ctlVars
<1>2. CASE StartSweep
  <2>1. /\ gen_gc' = gen_gc /\ loop' = gen_gc /\ my_gen' = my_gen
        /\ generation' = generation /\ todo' = generation[gen_gc]
    BY <1>2 DEF StartSweep, heapVars
  <2>2. \A n \in Condemned' : my_gen[n] <= gen_gc /\ n \in generation[my_gen[n]]
                             /\ my_gen[n] \in Int
    BY <2>1, InUsePrimeIff DEF Condemned, HeapPartition, Gen
  <2>3. gen_gc \in Int BY DEF TypeOK, Gen
  <2> QED BY <2>1, <2>2, <2>3 DEF SweepInv
<1>3. CASE SweepNextGen
  <2>1. /\ pc = "sweep" /\ todo = {} /\ loop' = loop - 1 /\ loop \in Int
        /\ UNCHANGED <<gen_gc, generation, my_gen, marked>>
        /\ todo' = generation[loop - 1] /\ gen_gc \in Int
    BY <1>3 DEF SweepNextGen, heapVars, TypeOK, Gen
  <2>2. Condemned' = Condemned BY <2>1 DEF Condemned, InUse
  <2>3. \A n \in Condemned : my_gen[n] < loop /\ n \in generation[my_gen[n]]
                            /\ my_gen[n] \in Int
    BY <2>1, InUseIff DEF Condemned, SweepInv, HeapPartition, Gen
  <2> QED BY <2>1, <2>2, <2>3 DEF SweepInv
<1>4. CASE UNCHANGED vars BY <1>4 DEF SweepInv, Condemned, InUse, vars, heapVars, ctlVars, gcVars
<1>5. ASSUME NEW n \in Node, SweepKeep(n) \/ SweepPromote(n) \/ SweepFree(n)
      PROVE SweepInv'
  <2>1. /\ pc = "sweep" /\ UNCHANGED <<gen_gc, loop, marked>> /\ loop \in Gen
        /\ todo' = todo \ {n} /\ n \in generation[loop] /\ loop <= gen_gc
        /\ todo \subseteq generation[loop]
    BY <1>5 DEF SweepKeep, SweepPromote, SweepFree, SweepInv, TypeOK
  <2>2. todo' \subseteq generation'[loop]
    <3>1. CASE SweepKeep(n) BY <2>1, <3>1 DEF SweepKeep
    <3>2. CASE SweepPromote(n)
      <4>1. generation'[loop] = generation[loop] \ {n}
        BY <2>1, <3>2, NumGensAssumption DEF SweepPromote, Promotable, TypeOK, Gen
      <4> QED BY <2>1, <4>1
    <3>3. CASE SweepFree(n)
      <4>1. generation'[loop] = generation[loop] \ {n} BY <2>1, <3>3 DEF SweepFree, TypeOK
      <4> QED BY <2>1, <4>1
    <3> QED BY <1>5, <3>1, <3>2, <3>3
  <2>3. ASSUME NEW m \in Condemned' PROVE m \in Condemned \ {n} /\ my_gen'[m] = my_gen[m]
    <3>1. CASE SweepKeep(n) BY <2>1, <2>3, <3>1 DEF SweepKeep, Condemned, InUse
    <3>2. CASE SweepPromote(n) BY <2>1, <2>3, <3>2, PromoteInUse, InUseNode
         DEF SweepPromote, Condemned, TypeOK
    <3>3. CASE SweepFree(n) BY <2>1, <2>3, <3>3, FreeInUse DEF SweepFree, Condemned
    <3> QED BY <1>5, <3>1, <3>2, <3>3
  <2> QED BY <2>1, <2>2, <2>3 DEF SweepInv
<1> QED BY <1>1, <1>2, <1>3, <1>4, <1>5
----
(* The remembered set. *)

\* OldYoungComplete without valid_pointer, whose test kept pointers always pass.
OldYoungPtr ==
    \A n \in Kept : \A f \in PtrFields[kind[n]] :
        ptr[n][f] # NIL /\ my_gen[ptr[n][f]] < my_gen[n] => n \in oldyoungs

LEMMA ChildrenKept ==
    TypeOK /\ HeapPartition /\ NoDangling =>
        \A n \in Kept : Children(n) = {ptr[n][f] : f \in PtrFields[kind[n]]} \ {NIL}
<1> SUFFICES ASSUME TypeOK, HeapPartition, NoDangling, NEW n \in Kept
             PROVE  Children(n) = {ptr[n][f] : f \in PtrFields[kind[n]]} \ {NIL}
    OBVIOUS
<1>1. ASSUME NEW m \in Kept PROVE Valid(m)
  <2>1. m \in InUse /\ m \in Node BY KeptInUse, InUseNode
  <2>2. kind[m] # NTFREE /\ m \in UNION {Segment[i] : i \in segs} BY <2>1 DEF HeapPartition
  <2> QED BY <2>1, <2>2, NilAssumption DEF Valid
<1>2. \A f \in PtrFields[kind[n]] : ptr[n][f] # NIL => Valid(ptr[n][f]) BY <1>1 DEF NoDangling
<1> QED BY <1>2 DEF Children, Valid

LEMMA OldYoungEquiv ==
    TypeOK /\ HeapPartition /\ NoDangling => (OldYoungComplete <=> OldYoungPtr)
  BY ChildrenKept DEF OldYoungComplete, OldYoungPtr

LEMMA OldYoungStep ==
    TypeOK /\ HeapPartition /\ SweepInv /\ NoDangling /\ NoDangling'
        /\ OldYoungPtr /\ [Next]_vars => OldYoungPtr'
<1> SUFFICES ASSUME TypeOK, HeapPartition, SweepInv, NoDangling, NoDangling',
                    OldYoungPtr, [Next]_vars
             PROVE  OldYoungPtr'
    OBVIOUS
<1>0. /\ \A n \in Kept : n \in Node /\ kind[n] \in Kind
                          /\ PtrFields[kind[n]] \subseteq Field
      /\ \A n \in Node : my_gen[n] \in Int
  <2>1. \A n \in Kept : n \in Node /\ kind[n] \in Kind
    BY KeptInUse, InUseNode DEF HeapPartition, TypeOK
  <2> QED BY <2>1, PtrFieldsAssumption DEF TypeOK, Gen
<1>1. ASSUME NEW n \in Node, NEW k \in Kind, NewNode(n, k) PROVE OldYoungPtr'
  <2>1. Kept = InUse /\ Kept' = InUse \cup {n} /\ n \notin InUse
    BY <1>1, NewNodeInUse DEF NewNode, Kept, Condemned, HeapPartition
  <2>2. ASSUME NEW m \in Kept', NEW f \in PtrFields[kind'[m]], ptr'[m][f] # NIL,
               my_gen'[ptr'[m][f]] < my_gen'[m]
        PROVE  m \in oldyoungs'
    <3>1. CASE m = n
      <4>1. kind'[n] = k /\ ptr'[n] = [g \in Field |-> NIL] BY <1>1 DEF NewNode, Cleared, TypeOK
      <4>2. f \in Field BY <2>2, <3>1, <4>1, PtrFieldsAssumption
      <4> QED BY <2>2, <3>1, <4>1, <4>2
    <3>2. CASE m # n
      <4>1. m \in Kept /\ m \in Node BY <1>0, <2>1, <2>2, <3>2
      <4>2. kind'[m] = kind[m] /\ ptr'[m] = ptr[m] /\ my_gen'[m] = my_gen[m]
        BY <1>1, <3>2, <4>1 DEF NewNode, TypeOK
      <4>3. ptr[m][f] \in Kept /\ ptr[m][f] # n /\ ptr[m][f] \in Node
        BY <1>0, <2>1, <2>2, <4>1, <4>2 DEF NoDangling
      <4>4. my_gen'[ptr[m][f]] = my_gen[ptr[m][f]] BY <1>1, <4>3 DEF NewNode, TypeOK
      <4> QED BY <1>1, <2>2, <4>1, <4>2, <4>4 DEF OldYoungPtr, NewNode
    <3> QED BY <3>1, <3>2
  <2> QED BY <2>2 DEF OldYoungPtr
<1>2. ASSUME NEW n \in Node, NEW f \in Field, NEW v \in Node \cup {NIL},
             SetField(n, f, v)
      PROVE OldYoungPtr'
  <2>1. Kept' = Kept /\ kind' = kind /\ my_gen' = my_gen
    BY <1>2 DEF SetField, Mutating, Kept, Condemned, InUse, ctlVars, gcVars
  <2>2. \A m \in Node, g \in Field :
            ptr'[m][g] = IF m = n /\ g = f THEN v ELSE ptr[m][g]
    BY <1>2 DEF SetField, TypeOK
  <2>3. /\ oldyoungs \subseteq oldyoungs'
        /\ v # NIL /\ my_gen[v] < my_gen[n] => n \in oldyoungs'
    BY <1>2 DEF SetField, Remember
  <2> QED BY <1>0, <2>1, <2>2, <2>3 DEF OldYoungPtr
<1>3. ASSUME NEW n \in Node, (\E f \in Field : Load(n, f)) \/ Drop(n)
      PROVE  OldYoungPtr'
  BY <1>3 DEF Load, Drop, Mutating, OldYoungPtr, Kept, Condemned, InUse, ctlVars, gcVars
<1>4. CASE StartSweep
  <2>1. Kept' \subseteq Kept BY <1>4 DEF StartSweep, Kept, Condemned, InUse, heapVars
  <2> QED BY <1>4, <2>1 DEF StartSweep, OldYoungPtr, heapVars
<1>5. ASSUME Quiet, my_gen' = my_gen, Kept \cap oldyoungs \subseteq oldyoungs'
      PROVE  OldYoungPtr'
  BY <1>5 DEF Quiet, OldYoungPtr
<1>6. ASSUME NEW n \in Node, InterGenMark(n), Quiet PROVE OldYoungPtr'
  <2>1. my_gen' = my_gen BY <1>6 DEF InterGenMark
  <2>2. CASE oldyoungs \subseteq oldyoungs' BY <1>5, <1>6, <2>1, <2>2
  <2>3. CASE Younger(n) = {} /\ oldyoungs' = oldyoungs \ {n}
    <3>1. n \in Kept => \A f \in PtrFields[kind[n]] :
              ptr[n][f] # NIL => ~(my_gen[ptr[n][f]] < my_gen[n])
      BY <2>3, ChildrenKept DEF Younger
    <3> QED BY <1>6, <2>1, <2>3, <3>1 DEF Quiet, OldYoungPtr
  <2> QED BY <1>6, <2>2, <2>3 DEF InterGenMark
<1>7. ASSUME NEW n \in Node, SweepPromote(n), Quiet PROVE OldYoungPtr'
  <2>1. n \in generation[loop] /\ loop \in Gen BY <1>7 DEF SweepPromote, SweepInv, TypeOK
  <2>2. n \in Kept /\ my_gen[n] = loop /\ loop \in Int
    BY <1>7, <2>1, InUseIff DEF Kept, Condemned, SweepPromote, HeapPartition, Gen
  <2>3. \A m \in Node : my_gen'[m] = IF m = n THEN loop + 1 ELSE my_gen[m]
    BY <1>7 DEF SweepPromote, TypeOK
  <2>4. ASSUME NEW m \in Kept, NEW f \in PtrFields[kind[m]], ptr[m][f] # NIL,
               my_gen'[ptr[m][f]] < my_gen'[m]
        PROVE  m \in oldyoungs'
    <3>1. m \in Node /\ ptr[m][f] \in Node /\ ptr[m][f] \in Kept BY <1>0, <2>4 DEF NoDangling
    <3>2. oldyoungs' = RememberPromoted(n, loop + 1) BY <1>7 DEF SweepPromote
    <3>3. CASE m = n
      <4>1. ptr[n][f] \in Children(n) \ {n} BY <1>0, <2>2, <2>3, <2>4, <3>1, <3>3, ChildrenKept
      <4>2. my_gen[ptr[n][f]] < loop + 1 BY <2>3, <2>4, <3>1, <3>3, <4>1
      <4> QED BY <3>2, <3>3, <4>1, <4>2 DEF RememberPromoted
    <3>4. CASE m # n
      <4>1. my_gen[ptr[m][f]] < my_gen[m] BY <1>0, <2>2, <2>3, <2>4, <3>1, <3>4
      <4> QED BY <2>4, <3>2, <4>1 DEF OldYoungPtr, RememberPromoted
    <3> QED BY <3>3, <3>4
  <2> QED BY <1>7, <2>4 DEF Quiet, OldYoungPtr
<1>8. ASSUME NEW n \in Node, SweepFree(n), Quiet PROVE OldYoungPtr'
  <2>1. n \notin Kept
    <3>1. n \in generation[loop] /\ loop <= gen_gc /\ my_gen[n] = loop
      BY <1>8 DEF SweepFree, SweepInv, HeapPartition, TypeOK
    <3> QED BY <1>8, <3>1 DEF SweepFree, Kept, Condemned
  <2> QED BY <1>5, <1>8, <2>1 DEF SweepFree
<1>9. CASE Quiet
  <2>1. \/ my_gen' = my_gen /\ oldyoungs' = oldyoungs
        \/ \E n \in Node : InterGenMark(n) \/ SweepPromote(n) \/ SweepFree(n)
        \/ \E n \in Node, k \in Kind : NewNode(n, k)
        \/ \E n \in Node, f \in Field, v \in Node \cup {NIL} : SetField(n, f, v)
    BY DEF Next, Mutator, Collector, Load, Drop, TopLevelRecover,
         FillReserveTank, GcCommand, StartGc, NewNodeGc, MarkNode, GcStackOverflow,
         GcAbandon, GcEndAddSeg, AddSeg, GcEndOutOfMem, OutOfMem, StartSweep,
         SweepKeep, SweepNextGen, GcEndReturn, GcAfterOverflow, vars, heapVars
  <2> QED BY <1>1, <1>2, <1>5, <1>6, <1>7, <1>8, <1>9, <2>1
<1> QED BY <1>1, <1>2, <1>3, <1>4, <1>9, StepKinds
----
(* The mark phase. *)

LEMMA MarkInvStep ==
    TypeOK /\ HeapPartition /\ NoDangling /\ OldYoungPtr /\ MarkInv /\ [Next]_vars
        => MarkInv'
<1> SUFFICES ASSUME TypeOK, HeapPartition, NoDangling, OldYoungPtr, MarkInv,
                    [Next]_vars, pc' = "mark", ~gc_overflow_flag'
             PROVE  MarkInv'
    BY DEF MarkInv
<1>0. /\ \A n \in InUse : n \in Node
      /\ \A n \in Node : my_gen[n] \in Int
      /\ gen_gc \in Int
  BY InUseNode DEF TypeOK, Gen
<1>1. \/ \E no_error \in BOOLEAN : pc = "run" /\ StartGc(no_error)
      \/ \E n \in Node : MarkNode(n) \/ InterGenMark(n)
      \/ UNCHANGED vars
  <2>1. CASE NewNodeGc \/ \E no_error \in BOOLEAN : GcCommand(no_error)
    BY <2>1 DEF NewNodeGc, GcCommand, Mutating
  <2> QED BY <2>1 DEF Next, Mutator, Collector, NewNode, SetField, Load, Drop, TopLevelRecover,
           FillReserveTank, StartSweep, GcStackOverflow, SweepKeep, SweepPromote,
           SweepFree, SweepNextGen, GcAbandon, GcEndAddSeg, AddSeg, GcEndOutOfMem,
           OutOfMem, GcEndReturn, GcAfterOverflow, Mutating, ctlVars
<1>2. ASSUME NEW no_error \in BOOLEAN, pc = "run", StartGc(no_error) PROVE MarkInv'
  <2>1. /\ UNCHANGED <<kind, ptr, my_gen, generation, regs>>
        /\ marked' = {} /\ scan' = oldyoungs
        /\ gray' = {n \in regs : my_gen[n] <= gen_gc'}
        /\ gen_gc' \in Int
    BY <1>2 DEF StartGc, GenToCollect, heapVars, TypeOK, Gen
  <2>2. InUse' = InUse /\ Kept = InUse BY <1>2, <2>1 DEF InUse, Kept, Condemned
  <2>3. ASSUME NEW n \in InUse, NEW f \in PtrFields[kind[n]],
               my_gen[n] > gen_gc', n \notin oldyoungs, ptr[n][f] # NIL,
               my_gen[ptr[n][f]] <= gen_gc'
        PROVE  FALSE
    <3>1. ptr[n][f] \in InUse BY <2>2, <2>3 DEF NoDangling
    <3>2. my_gen[ptr[n][f]] < my_gen[n] BY <1>0, <2>1, <2>3, <3>1
    <3> QED BY <2>2, <2>3, <3>2 DEF OldYoungPtr
  <2> QED BY <2>1, <2>2, <2>3 DEF MarkInv
<1>3. ASSUME NEW n \in Node, MarkNode(n) PROVE MarkInv'
  <2>1. /\ UNCHANGED <<kind, ptr, my_gen, generation, regs, gen_gc, scan>>
        /\ pc = "mark" /\ ~gc_overflow_flag /\ n \in gray
        /\ marked' = marked \cup {n}
        /\ gray' = (gray \ {n}) \cup Markable(Children(n), marked \cup {n})
    BY <1>3 DEF MarkNode, heapVars, ctlVars
  <2>2. InUse' = InUse /\ Kept = InUse BY <2>1 DEF InUse, Kept, Condemned
  <2>3. marked \cup gray \subseteq marked' \cup gray' BY <2>1
  <2>4. ASSUME n \in InUse, NEW f \in PtrFields[kind[n]], ptr[n][f] # NIL,
               my_gen[ptr[n][f]] <= gen_gc
        PROVE  ptr[n][f] \in marked' \cup gray'
    <3>1. ptr[n][f] \in Children(n) BY <2>2, <2>4, ChildrenKept
    <3> QED BY <2>1, <2>4, <3>1 DEF Markable
  <2> QED BY <2>1, <2>2, <2>3, <2>4 DEF MarkInv
<1>4. ASSUME NEW n \in Node, InterGenMark(n) PROVE MarkInv'
  <2>1. /\ UNCHANGED <<kind, ptr, my_gen, generation, regs, gen_gc, marked>>
        /\ pc = "mark" /\ ~gc_overflow_flag /\ gray = {} /\ scan' = scan \ {n}
    BY <1>4 DEF InterGenMark, ctlVars
  <2>2. InUse' = InUse /\ Kept = InUse BY <2>1 DEF InUse, Kept, Condemned
  <2>3. ASSUME n \in InUse, my_gen[n] > gen_gc, NEW f \in PtrFields[kind[n]],
               ptr[n][f] # NIL, my_gen[ptr[n][f]] <= gen_gc
        PROVE  ptr[n][f] \in marked' \cup gray'
    <3>1. ptr[n][f] \in Children(n) /\ ptr[n][f] \in InUse
      BY <2>2, <2>3, ChildrenKept DEF NoDangling
    <3>2. ptr[n][f] \in Younger(n) /\ ~(my_gen[n] <= gen_gc) BY <1>0, <2>3, <3>1 DEF Younger
    <3>3. gray' = Markable(Younger(n), marked) BY <1>4, <2>1, <3>2 DEF InterGenMark
    <3> QED BY <2>1, <2>3, <3>2, <3>3 DEF Markable
  <2> QED BY <2>1, <2>2, <2>3 DEF MarkInv
<1>5. CASE UNCHANGED vars BY <1>5 DEF MarkInv, InUse, vars, heapVars, ctlVars, gcVars
<1> QED BY <1>1, <1>2, <1>3, <1>4, <1>5
----
(* The invariant and what it gives. *)

LEMMA HeapInit == Init => HeapInv
<1> SUFFICES ASSUME Init PROVE HeapInv OBVIOUS
<1>1. TypeOK BY TypeInit
<1>2. InUse = {} /\ Kept = {} BY DEF Init, InUse, Kept
<1>3. HeapPartition
  <2>1. UNION {Segment[i] : i \in segs} = free_list \cup reserve_tank \cup InUse BY <1>2 DEF Init
  <2>2. /\ \A g \in Gen : \A n \in generation[g] : my_gen[n] = g
        /\ \A n \in Node : kind[n] # NTFREE <=> n \in InUse \cup reserve_tank
    BY <1>2 DEF Init
  <2> QED BY <1>2, <2>1, <2>2 DEF HeapPartition, Init
<1>4. NoDangling /\ OldYoungComplete BY <1>2 DEF Init, NoDangling, OldYoungComplete
<1>5. MarkInv /\ SweepInv BY DEF Init, MarkInv, SweepInv
<1> QED BY <1>1, <1>3, <1>4, <1>5 DEF HeapInv

LEMMA HeapStep == HeapInv /\ [Next]_vars => HeapInv'
<1> SUFFICES ASSUME HeapInv, [Next]_vars PROVE HeapInv' OBVIOUS
<1>1. TypeOK' /\ HeapPartition' /\ SweepInv' /\ NoDangling'
  BY TypeStep, PartitionStep, SweepInvStep, NoDanglingStep DEF HeapInv
<1>2. OldYoungPtr BY OldYoungEquiv DEF HeapInv
<1>3. OldYoungPtr' /\ MarkInv' BY <1>1, <1>2, OldYoungStep, MarkInvStep DEF HeapInv
<1>4. (TypeOK /\ HeapPartition /\ NoDangling => (OldYoungComplete <=> OldYoungPtr))'
  BY OldYoungEquiv, PTL
<1> QED BY <1>1, <1>3, <1>4 DEF HeapInv

THEOREM HeapInvariant == Spec => []HeapInv
  BY HeapInit, HeapStep, PTL DEF Spec

\* Every node of every segment is always in exactly one place.
THEOREM PartitionHolds == Spec => []HeapPartition
<1>1. HeapInv => HeapPartition BY DEF HeapInv
<1> QED BY <1>1, HeapInvariant, PTL

\* The collector never frees a node the mutator can still reach, in a heap of any
\* size, whatever the order of marking and sweeping and wherever it stops.
THEOREM MemorySafety == Spec => []NoDangling
<1>1. HeapInv => NoDangling BY DEF HeapInv
<1> QED BY <1>1, HeapInvariant, PTL

\* The remembered set never misses a pointer from an older to a younger node.
THEOREM RememberedSetComplete == Spec => []OldYoungComplete
<1>1. HeapInv => OldYoungComplete BY DEF HeapInv
<1> QED BY <1>1, HeapInvariant, PTL
----
(* Reachability. *)

\* The two instances of LogoStore mean the same by it.
LEMMA SameReach ==
    /\ \A c, S : Store!Reach(c, S) = Abstract!Reach(c, S)
    /\ \A c, S : Store!Prune(c, S) = [n \in Abstract!Reach(c, S) |-> c[n]]
  BY DEF Store!Reach, Store!Closed, Store!Points, Abstract!Reach, Abstract!Closed,
         Abstract!Points, Store!Prune

LEMMA PointsIff ==
    ASSUME NEW c, NEW n, NEW m
    PROVE  m \in Abstract!Points(c, n) <=> m # NIL /\ \E f \in PtrFields[c[n].kind] : m = c[n].ptr[f]
  BY DEF Abstract!Points

LEMMA ReachStart ==
    ASSUME NEW c, NEW S \in SUBSET Node
    PROVE  S \subseteq Abstract!Reach(c, S)
  BY DEF Abstract!Reach

LEMMA ReachLeast ==
    ASSUME NEW c, NEW S, NEW C \in SUBSET Node, S \subseteq C, Abstract!Closed(c, C)
    PROVE  Abstract!Reach(c, S) \subseteq C
  BY DEF Abstract!Reach

LEMMA ReachClosed ==
    ASSUME NEW c, NEW S, NEW n \in Abstract!Reach(c, S), n \in DOMAIN c,
           NEW m \in Abstract!Points(c, n), m \in Node
    PROVE  m \in Abstract!Reach(c, S)
<1> SUFFICES ASSUME NEW C \in SUBSET Node, S \subseteq C, Abstract!Closed(c, C)
             PROVE  m \in C
  BY DEF Abstract!Reach
<1>1. n \in C BY DEF Abstract!Reach
<1> QED BY <1>1 DEF Abstract!Closed

\* What c reaches from S another store d reaches from more, if c and d agree on it.
LEMMA ReachGrows ==
    ASSUME NEW c, NEW d, NEW S, NEW T, NEW R \in SUBSET Node,
           R \subseteq DOMAIN c, R \subseteq DOMAIN d, S \subseteq R, S \subseteq T,
           Abstract!Closed(c, R),
           \A n \in R : Abstract!Points(d, n) = Abstract!Points(c, n)
    PROVE  Abstract!Reach(c, S) \subseteq Abstract!Reach(d, T)
<1> SUFFICES ASSUME NEW n \in Abstract!Reach(c, S),
                    NEW C \in SUBSET Node, T \subseteq C, Abstract!Closed(d, C)
             PROVE  n \in C
  BY DEF Abstract!Reach
<1>1. Abstract!Closed(c, C \cap R) BY DEF Abstract!Closed
<1>2. C \cap R \in SUBSET Node /\ S \subseteq C \cap R OBVIOUS
<1>3. n \in C \cap R BY <1>1, <1>2, ReachLeast
<1> QED BY <1>3

\* Two stores that agree on a set the pointers do not leave.
LEMMA ReachSame ==
    ASSUME NEW c, NEW d, NEW S, NEW R \in SUBSET Node,
           R \subseteq DOMAIN c, R \subseteq DOMAIN d, S \subseteq R,
           Abstract!Closed(c, R),
           \A n \in R : Abstract!Points(d, n) = Abstract!Points(c, n)
    PROVE  Abstract!Reach(d, S) = Abstract!Reach(c, S) /\ Abstract!Reach(c, S) \subseteq R
<1>1. Abstract!Closed(d, R) BY DEF Abstract!Closed
<1>2. Abstract!Reach(c, S) \subseteq Abstract!Reach(d, S) BY ReachGrows
<1>3. \A n \in R : Abstract!Points(c, n) = Abstract!Points(d, n) OBVIOUS
<1>4. Abstract!Reach(d, S) \subseteq Abstract!Reach(c, S) BY <1>1, <1>3, ReachGrows
<1>5. Abstract!Reach(c, S) \subseteq R BY ReachLeast
<1> QED BY <1>2, <1>4, <1>5
----
(* The store that the registers see. *)

\* It is kept, and it is all that can be seen.
LEMMA Seen ==
    ASSUME HeapInv
    PROVE  /\ regs \subseteq Reached /\ Reached \subseteq Kept /\ Reached \subseteq InUse
           /\ Reached \in SUBSET Node
           /\ Abstract!Closed(AllCells, Reached)
           /\ DOMAIN AllCells = InUse /\ DOMAIN Visible = Reached
           /\ \A n \in InUse : AllCells[n] = [kind |-> kind[n], ptr |-> ptr[n]]
           /\ \A n \in Reached : Visible[n] = AllCells[n]
<1>1. DOMAIN AllCells = InUse /\ \A n \in InUse : AllCells[n] = [kind |-> kind[n], ptr |-> ptr[n]]
  BY DEF AllCells
<1>2. Kept \subseteq InUse /\ InUse \subseteq Node /\ regs \subseteq Node
  BY KeptInUse, InUseNode DEF HeapInv, TypeOK
<1>3. ASSUME NEW n \in Kept PROVE Abstract!Points(AllCells, n) \subseteq Kept
  <2>1. AllCells[n].kind = kind[n] /\ AllCells[n].ptr = ptr[n] BY <1>1, <1>2
  <2> QED BY <2>1, PointsIff DEF HeapInv, NoDangling
<1>4. Abstract!Closed(AllCells, Kept) BY <1>3 DEF Abstract!Closed
<1>5. Kept \in SUBSET Node /\ regs \subseteq Kept BY <1>2 DEF HeapInv, NoDangling
<1>6. Reached \subseteq Kept BY <1>4, <1>5, ReachLeast DEF Reached
<1>7. regs \subseteq Reached BY <1>2, ReachStart DEF Reached
<1>8. Abstract!Closed(AllCells, Reached)
  <2> SUFFICES ASSUME NEW n \in Reached, n \in DOMAIN AllCells, NEW m \in Abstract!Points(AllCells, n)
               PROVE  m \in Reached
    BY DEF Abstract!Closed
  <2>1. m \in Node BY <1>2, <1>3, <1>6
  <2> QED BY <2>1, ReachClosed DEF Reached
<1>9. DOMAIN Visible = Reached /\ \A n \in Reached : Visible[n] = AllCells[n]
  BY DEF Visible, Reached
<1> QED BY <1>1, <1>2, <1>6, <1>7, <1>8, <1>9

LEMMA PointsOfCell ==
    ASSUME NEW c, NEW d, NEW n, c[n] = d[n]
    PROVE  Abstract!Points(c, n) = Abstract!Points(d, n)
  BY DEF Abstract!Points

\* A step that leaves the registers and the nodes in sight alone is not seen.
LEMMA Unseen ==
    ASSUME HeapInv, regs' = regs, Reached \subseteq InUse',
           \A n \in Reached : kind'[n] = kind[n] /\ ptr'[n] = ptr[n]
    PROVE  Visible' = Visible /\ Reached' = Reached
<1>1. DOMAIN AllCells' = InUse'
      /\ \A n \in InUse' : AllCells'[n] = [kind |-> kind'[n], ptr |-> ptr'[n]]
  BY DEF AllCells
<1>2. \A n \in Reached : AllCells'[n] = AllCells[n] BY <1>1, Seen
<1>3. \A n \in Reached : Abstract!Points(AllCells', n) = Abstract!Points(AllCells, n)
  BY <1>2, PointsOfCell
<1>4. Abstract!Reach(AllCells', regs) = Abstract!Reach(AllCells, regs)
  BY <1>1, <1>3, Seen, ReachSame
<1>5. Reached' = Reached BY <1>4 DEF Reached
<1>6. Visible = [n \in Reached |-> AllCells[n]] BY DEF Visible, Reached
<1>7. Visible' = [n \in Reached' |-> AllCells'[n]] BY DEF Visible, Reached
<1> QED BY <1>2, <1>5, <1>6, <1>7
----
(* The collector implements LogoStore. *)

LEMMA StoreInit == Init => Store!Init
<1> SUFFICES ASSUME Init PROVE regs = {} /\ Visible = <<>> BY DEF Store!Init
<1>1. regs = {} BY DEF Init
<1>2. Abstract!Closed(AllCells, {}) BY DEF Abstract!Closed
<1>3. Abstract!Reach(AllCells, regs) = {} BY <1>1, <1>2, ReachLeast
<1> QED BY <1>1, <1>3 DEF Visible, Reached

\* newnode gives a node that was not in sight.
LEMMA NewNodeMakes ==
    ASSUME HeapInv, NEW n \in Node, NEW k \in Kind, NewNode(n, k)
    PROVE  Store!Make(n, k)
<1> DEFINE empty == [f \in Field |-> NIL] R == Reached \cup {n}
<1>1. InUse' = InUse \cup {n} /\ regs' = regs \cup {n} /\ n \notin InUse
  BY NewNodeInUse DEF HeapInv, NewNode, HeapPartition
<1>2. /\ kind'[n] = k /\ ptr'[n] = empty
      /\ \A m \in Node \ {n} : kind'[m] = kind[m] /\ ptr'[m] = ptr[m]
  BY DEF NewNode, Cleared, HeapInv, TypeOK
<1> HIDE DEF empty
<1>3. DOMAIN AllCells' = InUse'
      /\ \A m \in InUse' : AllCells'[m] = [kind |-> kind'[m], ptr |-> ptr'[m]]
  BY DEF AllCells
<1>4. n \notin Reached /\ \A m \in Reached : m # n /\ m \in Node /\ m \in InUse /\ m \in InUse'
  BY <1>1, Seen
<1>5. AllCells'[n] = [kind |-> k, ptr |-> empty] /\ \A m \in Reached : AllCells'[m] = AllCells[m]
  BY <1>1, <1>2, <1>3, <1>4, Seen
<1>6. Abstract!Points(AllCells', n) = {}
  <2>1. \A f \in PtrFields[AllCells'[n].kind] : AllCells'[n].ptr[f] = NIL
    BY <1>5, PtrFieldsAssumption DEF empty
  <2>2. \A m : m \notin Abstract!Points(AllCells', n) BY <2>1, PointsIff
  <2> QED BY <2>2
<1>7. \A m \in Reached : Abstract!Points(AllCells', m) = Abstract!Points(AllCells, m)
  BY <1>5, PointsOfCell
<1>8. Abstract!Closed(AllCells', R) BY <1>6, <1>7, Seen DEF Abstract!Closed
<1>9. Abstract!Reach(AllCells', regs') \subseteq R BY <1>1, <1>8, Seen, ReachLeast
<1>10. Reached \subseteq Abstract!Reach(AllCells', regs')
  <2>1. Reached \subseteq DOMAIN AllCells' /\ Reached \subseteq DOMAIN AllCells BY <1>3, <1>4, Seen
  <2>2. regs \subseteq regs' BY <1>1
  <2> QED BY <1>7, <2>1, <2>2, Seen, ReachGrows DEF Reached
<1>11. n \in Abstract!Reach(AllCells', regs')
  <2>1. regs' \in SUBSET Node BY <1>1 DEF HeapInv, TypeOK
  <2> QED BY <1>1, <2>1, ReachStart
<1>12. Abstract!Reach(AllCells', regs') = R BY <1>9, <1>10, <1>11
<1>13. Visible' = [m \in R |-> IF m = n THEN [kind |-> k, ptr |-> empty] ELSE Visible[m]]
  <2>1. Visible' = [m \in R |-> AllCells'[m]] BY <1>12 DEF Visible, Reached
  <2>2. \A m \in R : AllCells'[m] = IF m = n THEN [kind |-> k, ptr |-> empty] ELSE Visible[m]
    BY <1>4, <1>5, Seen
  <2> QED BY <2>1, <2>2
<1> QED BY <1>1, <1>4, <1>13, Seen DEF Store!Make, empty

\* A field of a node in sight is set.
LEMMA SetFieldSets ==
    ASSUME HeapInv, NEW n \in Node, NEW f \in Field, NEW v \in Node \cup {NIL}, SetField(n, f, v)
    PROVE  Store!Set(n, f, v)
<1> DEFINE W == [Visible EXCEPT ![n].ptr[f] = v]
<1>1. n \in regs /\ v \in regs \cup {NIL} /\ f \in PtrFields[kind[n]]
      /\ regs' = regs /\ kind' = kind /\ generation' = generation
      /\ ptr' = [ptr EXCEPT ![n][f] = v]
  BY DEF SetField
<1>2. n \in Reached /\ n \in InUse /\ Reached \subseteq Node /\ Reached \subseteq InUse
  BY <1>1, Seen
<1>3. ptr'[n] = [ptr[n] EXCEPT ![f] = v] /\ \A m \in Node \ {n} : ptr'[m] = ptr[m]
  BY <1>1 DEF HeapInv, TypeOK
<1>4. InUse' = InUse BY <1>1 DEF InUse
<1>5. DOMAIN AllCells' = InUse
      /\ \A m \in InUse : AllCells'[m] = [kind |-> kind[m], ptr |-> ptr'[m]]
  BY <1>1, <1>4 DEF AllCells
<1>6. Visible[n] = [kind |-> kind[n], ptr |-> ptr[n]] BY <1>2, Seen
<1>7. DOMAIN W = Reached
      /\ W[n] = [kind |-> kind[n], ptr |-> ptr'[n]]
      /\ \A m \in Reached \ {n} : W[m] = Visible[m]
  <2>1. DOMAIN Visible = Reached /\ Visible = [m \in Reached |-> Visible[m]] BY DEF Visible, Reached
  <2>2. DOMAIN W = Reached /\ \A m \in Reached \ {n} : W[m] = Visible[m] BY <2>1
  <2>3. W[n] = [Visible[n] EXCEPT !.ptr = [Visible[n].ptr EXCEPT ![f] = v]] BY <1>2, <2>1
  <2>4. W[n] = [kind |-> kind[n], ptr |-> [ptr[n] EXCEPT ![f] = v]] BY <1>6, <2>3
  <2> QED BY <1>3, <2>2, <2>4
<1> HIDE DEF W
<1>8. \A m \in Reached : AllCells'[m] = W[m] BY <1>2, <1>3, <1>5, <1>7, Seen
<1>9. Abstract!Closed(W, Reached)
  <2> SUFFICES ASSUME NEW m \in Reached, NEW q \in Abstract!Points(W, m) PROVE q \in Reached
    BY DEF Abstract!Closed
  <2>1. CASE m = n
    <3>1. PICK g \in PtrFields[kind[n]] : q = ptr'[n][g] /\ q # NIL BY <1>7, <2>1, PointsIff
    <3>2. CASE g = f
      <4>1. ptr'[n][f] = v BY <1>3 DEF HeapInv, TypeOK
      <4> QED BY <1>1, <3>1, <3>2, <4>1, Seen
    <3>3. CASE g # f
      <4>1. ptr'[n][g] = ptr[n][g] BY <1>3, <3>3
      <4>2. q \in Abstract!Points(AllCells, n) BY <1>2, <3>1, <4>1, Seen, PointsIff
      <4> QED BY <1>2, <4>2, Seen DEF Abstract!Closed
    <3> QED BY <3>2, <3>3
  <2>2. CASE m # n
    <3>1. W[m] = AllCells[m] BY <1>7, <2>2, Seen
    <3>2. q \in Abstract!Points(AllCells, m) BY <3>1, PointsOfCell
    <3> QED BY <1>2, <3>2, Seen DEF Abstract!Closed
  <2> QED BY <2>1, <2>2
<1>10. \A m \in Reached : Abstract!Points(AllCells', m) = Abstract!Points(W, m)
  BY <1>8, PointsOfCell
<1>11. Abstract!Reach(AllCells', regs) = Abstract!Reach(W, regs) /\ Abstract!Reach(W, regs) \subseteq Reached
  BY <1>2, <1>5, <1>7, <1>9, <1>10, Seen, ReachSame
<1>12. Visible' = [m \in Abstract!Reach(W, regs) |-> W[m]]
  <2>1. Visible' = [m \in Abstract!Reach(W, regs) |-> AllCells'[m]]
    BY <1>1, <1>11 DEF Visible, Reached
  <2> QED BY <1>8, <1>11, <2>1
<1>13. Visible' = Store!Prune(W, regs) BY <1>12, SameReach
<1> QED BY <1>1, <1>6, <1>13 DEF Store!Set, W

\* A register follows a pointer, and nothing new comes in sight.
LEMMA LoadFollows ==
    ASSUME HeapInv, NEW n \in Node, NEW f \in Field, Load(n, f)
    PROVE  Store!Follow(n, f)
<1> DEFINE m == ptr[n][f]
<1>1. n \in regs /\ f \in PtrFields[kind[n]] /\ m # NIL /\ regs' = regs \cup {m}
      /\ UNCHANGED <<kind, ptr, generation>>
  BY DEF Load
<1>2. n \in Reached /\ n \in InUse /\ Visible[n] = [kind |-> kind[n], ptr |-> ptr[n]]
      /\ AllCells[n] = [kind |-> kind[n], ptr |-> ptr[n]]
  BY <1>1, Seen
<1>3. m \in Reached
  <2>1. m \in Abstract!Points(AllCells, n) BY <1>1, <1>2, PointsIff
  <2> QED BY <1>2, <2>1, Seen DEF Abstract!Closed
<1>4. AllCells' = AllCells BY <1>1 DEF AllCells, InUse
<1> HIDE DEF m
<1>5. Abstract!Reach(AllCells, regs') \subseteq Reached BY <1>1, <1>3, Seen, ReachLeast
<1>6. Reached \subseteq Abstract!Reach(AllCells, regs')
  <2>1. regs \subseteq regs' BY <1>1
  <2> QED BY <2>1, Seen, ReachGrows DEF Reached
<1>7. Visible' = Visible
  <2>1. Abstract!Reach(AllCells', regs') = Abstract!Reach(AllCells, regs)
    BY <1>4, <1>5, <1>6 DEF Reached
  <2> QED BY <1>4, <2>1 DEF Visible, Reached
<1> QED BY <1>1, <1>2, <1>7 DEF Store!Follow, m

\* A register that is cleared takes out of sight what only it held.
LEMMA DropForgets ==
    ASSUME HeapInv, NEW n \in Node, Drop(n)
    PROVE  Store!Forget(n)
<1>1. n \in regs /\ regs' = regs \ {n} /\ UNCHANGED <<kind, ptr, generation>> BY DEF Drop
<1>2. AllCells' = AllCells BY <1>1 DEF AllCells, InUse
<1>3. \A m \in Reached : Abstract!Points(Visible, m) = Abstract!Points(AllCells, m)
  BY Seen, PointsOfCell
<1>4. regs' \subseteq Reached BY <1>1, Seen
<1>5. Abstract!Reach(Visible, regs') = Abstract!Reach(AllCells, regs')
      /\ Abstract!Reach(AllCells, regs') \subseteq Reached
  BY <1>3, <1>4, Seen, ReachSame
<1>6. Visible' = [m \in Abstract!Reach(Visible, regs') |-> Visible[m]]
  <2>1. Visible' = [m \in Abstract!Reach(Visible, regs') |-> AllCells[m]]
    BY <1>2, <1>5 DEF Visible, Reached
  <2> QED BY <1>5, <2>1, Seen
<1>7. Visible' = Store!Prune(Visible, regs') BY <1>6, SameReach
<1> QED BY <1>1, <1>7 DEF Store!Forget

LEMMA StoreStep ==
    ASSUME HeapInv, [Next]_vars
    PROVE  [Store!Next]_Store!vars
<1>1. CASE \E n \in Node, k \in Kind : NewNode(n, k) BY <1>1, NewNodeMakes DEF Store!Next
<1>2. CASE \E n \in Node, f \in Field, v \in Node \cup {NIL} : SetField(n, f, v)
  BY <1>2, SetFieldSets DEF Store!Next
<1>3. CASE \E n \in Node, f \in Field : Load(n, f) BY <1>3, LoadFollows DEF Store!Next
<1>4. CASE \E n \in Node : Drop(n) BY <1>4, DropForgets DEF Store!Next
<1>5. CASE Quiet
  <2>1. Reached \subseteq Kept' BY <1>5, Seen DEF Quiet
  <2>2. Reached \subseteq InUse' BY <2>1 DEF Kept
  <2>3. regs' = regs /\ \A n \in Reached : kind'[n] = kind[n] /\ ptr'[n] = ptr[n]
    BY <1>5, Seen DEF Quiet
  <2> QED BY <2>2, <2>3, Unseen DEF Store!vars
<1>6. CASE StartSweep
  <2>1. UNCHANGED <<kind, ptr, generation, regs>> BY <1>6 DEF StartSweep, heapVars
  <2>2. InUse' = InUse BY <2>1 DEF InUse
  <2> QED BY <2>1, <2>2, Seen, Unseen DEF Store!vars
<1> QED BY <1>1, <1>2, <1>3, <1>4, <1>5, <1>6, StepKinds DEF HeapInv

\* The memory manager is a store without a collector, for whoever looks at it
\* through the registers: every step of a collection is a stutter of LogoStore,
\* newnode gives a node that was not in sight, and loads and stores do what they
\* say (mem.c).
THEOREM CollectorIsInvisible == Spec => CollectorInvisible
<1>1. HeapInv /\ [Next]_vars => [Store!Next]_Store!vars BY StoreStep
<1> QED BY <1>1, StoreInit, HeapInvariant, PTL DEF Spec, CollectorInvisible, Store!Spec
----
(* A full collection is exact. *)

LEMMA CountedInit == Init => Counted
<1> SUFFICES ASSUME Init PROVE Counted OBVIOUS
<1>1. InUse = {} BY InUseIff DEF Init
<1>2. mem_nodes = 0 /\ oldyoungs = {} /\ next_gen_gc = 0 /\ max_gen = 0 BY DEF Init
<1> QED BY <1>1, <1>2, FS_EmptySet DEF Counted

LEMMA ExactInit == Init => Exact
  BY DEF Init, Exact

\* Steps that move no node between the lists.
LEMMA CountedFrame ==
    ASSUME Counted, UNCHANGED <<generation, my_gen, mem_nodes, max_gen>>,
           oldyoungs' \subseteq oldyoungs, next_gen_gc' <= max_gen'
    PROVE  Counted'
<1>1. InUse' = InUse BY DEF InUse
<1> QED BY <1>1 DEF Counted

LEMMA CountedMutator ==
    ASSUME HeapInv, Counted, Mutator
    PROVE  Counted'
<1>0. TypeOK /\ HeapPartition BY DEF HeapInv
<1>1. ASSUME NEW n \in Node, NEW k \in Kind, NewNode(n, k) PROVE Counted'
  <2>1. InUse' = InUse \cup {n} /\ n \notin InUse
    BY <1>0, <1>1, NewNodeInUse DEF NewNode, HeapPartition
  <2>2. IsFiniteSet(InUse') /\ Cardinality(InUse') = Cardinality(InUse) + 1
    BY <2>1, FS_AddElement DEF Counted
  <2>3. /\ mem_nodes' = mem_nodes + 1 /\ my_gen'[n] = 0
        /\ \A m \in Node \ {n} : my_gen'[m] = my_gen[m]
        /\ UNCHANGED <<oldyoungs, max_gen, next_gen_gc>>
    BY <1>0, <1>1 DEF NewNode, gcVars, TypeOK
  <2>4. \A m \in InUse' : my_gen'[m] <= max_gen'
    BY <1>0, <2>1, <2>3, InUseNode DEF Counted, TypeOK, Gen
  <2> QED BY <2>1, <2>2, <2>3, <2>4 DEF Counted
<1>2. ASSUME NEW n \in Node, NEW f \in Field, NEW v \in Node \cup {NIL},
             SetField(n, f, v)
      PROVE Counted'
  <2>1. n \in InUse BY <1>2, KeptInUse DEF SetField, HeapInv, NoDangling
  <2>2. UNCHANGED <<generation, my_gen, mem_nodes, max_gen, next_gen_gc>>
        /\ oldyoungs' \subseteq oldyoungs \cup {n}
    BY <1>2 DEF SetField, Remember, gcVars
  <2>3. InUse' = InUse BY <2>2 DEF InUse
  <2> QED BY <2>1, <2>2, <2>3 DEF Counted
<1>3. ASSUME NEW n \in Node, Drop(n) \/ \E f \in Field : Load(n, f) PROVE Counted'
  <2>1. UNCHANGED <<generation, my_gen, mem_nodes, max_gen, next_gen_gc, oldyoungs>>
    BY <1>3 DEF Drop, Load, gcVars
  <2> QED BY <2>1, CountedFrame DEF Counted
<1>4. CASE TopLevelRecover \/ \E S \in SUBSET Node : FillReserveTank(S)
  <2>1. UNCHANGED <<generation, my_gen, mem_nodes, max_gen, next_gen_gc, oldyoungs>>
    BY <1>4 DEF TopLevelRecover, FillReserveTank, heapVars, gcVars
  <2> QED BY <2>1, CountedFrame DEF Counted
<1>5. ASSUME NEW no_error \in BOOLEAN, GcCommand(no_error) PROVE Counted'
  <2>1. UNCHANGED <<generation, my_gen, mem_nodes, max_gen, next_gen_gc, oldyoungs>>
    BY <1>5 DEF GcCommand, StartGc, heapVars
  <2> QED BY <2>1, CountedFrame DEF Counted
<1> QED BY <1>1, <1>2, <1>3, <1>4, <1>5 DEF Mutator

LEMMA CountedCollector ==
    ASSUME HeapInv, Counted, Exact, Collector
    PROVE  Counted'
<1>0. TypeOK /\ HeapPartition /\ SweepInv BY DEF HeapInv
<1>1. CASE NewNodeGc \/ GcStackOverflow \/ GcAbandon \/ StartSweep \/ SweepNextGen
  <2>1. UNCHANGED <<generation, my_gen, mem_nodes, max_gen, next_gen_gc, oldyoungs>>
    BY <1>1 DEF NewNodeGc, StartGc, GcStackOverflow, GcAbandon, StartSweep, SweepNextGen, heapVars
  <2> QED BY <2>1, CountedFrame DEF Counted
<1>2. ASSUME NEW n \in Node, MarkNode(n) \/ InterGenMark(n) \/ SweepKeep(n)
      PROVE Counted'
  <2>1. /\ UNCHANGED <<generation, my_gen, mem_nodes, max_gen, next_gen_gc>>
        /\ oldyoungs' \subseteq oldyoungs
    BY <1>2 DEF MarkNode, InterGenMark, SweepKeep, heapVars
  <2> QED BY <2>1, CountedFrame DEF Counted
<1>3. ASSUME NEW n \in Node, SweepPromote(n) \/ SweepFree(n)
      PROVE /\ n \in generation[loop] /\ n \in InUse /\ loop \in Gen
            /\ loop <= max_gen /\ max_gen \in Gen
  <2>1. pc = "sweep" /\ n \in todo BY <1>3 DEF SweepPromote, SweepFree
  <2>2. gen_gc <= max_gen /\ gen_gc \in Gen /\ max_gen \in Gen /\ loop \in Gen
    BY <1>0, <2>1 DEF Exact, TypeOK
  <2> QED BY <1>0, <2>1, <2>2, InUseIff DEF SweepInv, Gen
<1>4. ASSUME NEW n \in Node, SweepPromote(n) PROVE Counted'
  <2>1. InUse' = InUse BY <1>0, <1>3, <1>4, PromoteInUse DEF HeapPartition
  <2>2. UNCHANGED <<mem_nodes, next_gen_gc>>
        /\ oldyoungs' \subseteq oldyoungs \cup {n}
    BY <1>4 DEF SweepPromote, RememberPromoted
  <2>3. max_gen <= max_gen' /\ loop + 1 <= max_gen' /\ max_gen' \in Int
    <3>1. max_gen \in Int /\ loop \in Int /\ loop <= max_gen BY <1>3, <1>4 DEF Gen
    <3>2. max_gen' = IF max_gen = loop THEN loop + 1 ELSE max_gen BY <1>4 DEF SweepPromote
    <3> QED BY <3>1, <3>2
  <2>4. my_gen'[n] = loop + 1 /\ \A m \in Node \ {n} : my_gen'[m] = my_gen[m]
    BY <1>0, <1>4 DEF SweepPromote, TypeOK
  <2>5. ASSUME NEW m \in InUse PROVE my_gen'[m] <= max_gen'
    <3>1. m \in Node /\ my_gen[m] \in Int /\ max_gen \in Int /\ my_gen[m] <= max_gen
      BY <1>0, <1>3, InUseNode DEF Counted, TypeOK, Gen
    <3> QED BY <2>3, <2>4, <3>1
  <2>6. next_gen_gc' <= max_gen' BY <1>0, <2>2, <2>3 DEF Counted, TypeOK, Gen
  <2>7. oldyoungs' \subseteq InUse BY <1>3, <1>4, <2>2 DEF Counted
  <2> QED BY <2>1, <2>2, <2>5, <2>6, <2>7 DEF Counted
<1>5. ASSUME NEW n \in Node, SweepFree(n) PROVE Counted'
  <2>1. InUse' = InUse \ {n} BY <1>0, <1>3, <1>5, FreeInUse DEF HeapPartition
  <2>2. IsFiniteSet(InUse') /\ Cardinality(InUse') = Cardinality(InUse) - 1
    BY <1>3, <1>5, <2>1, FS_RemoveElement DEF Counted
  <2>3. /\ UNCHANGED <<my_gen, next_gen_gc, max_gen>>
        /\ mem_nodes' = mem_nodes - 1 /\ oldyoungs' = oldyoungs \ {n}
    BY <1>5 DEF SweepFree
  <2> QED BY <2>1, <2>2, <2>3 DEF Counted
<1>6. CASE GcEndAddSeg \/ GcEndOutOfMem \/ GcEndReturn
  <2>1. UNCHANGED <<generation, my_gen, mem_nodes, max_gen, oldyoungs>>
        /\ next_gen_gc' = NextGenGc
    BY <1>6 DEF GcEndAddSeg, GcEndOutOfMem, GcEndReturn, GcEnd, AddSeg, OutOfMem, heapVars
  <2>2. next_gen_gc' <= max_gen' BY <1>0, <2>1 DEF NextGenGc, TypeOK, Gen
  <2> QED BY <2>1, <2>2, CountedFrame
<1>7. CASE GcAfterOverflow
  <2>1. UNCHANGED <<generation, my_gen, mem_nodes, max_gen, next_gen_gc, oldyoungs>>
    BY <1>7 DEF GcAfterOverflow, AddSeg, OutOfMem, gcVars
  <2> QED BY <2>1, CountedFrame DEF Counted
<1> QED BY <1>1, <1>2, <1>4, <1>5, <1>6, <1>7 DEF Collector

LEMMA CountedStep == HeapInv /\ Counted /\ Exact /\ [Next]_vars => Counted'
<1>1. ASSUME Counted, UNCHANGED vars PROVE Counted'
  <2>1. UNCHANGED <<generation, my_gen, mem_nodes, max_gen, next_gen_gc, oldyoungs>>
    BY <1>1 DEF vars, heapVars, gcVars
  <2> QED BY <1>1, <2>1, CountedFrame DEF Counted
<1> QED BY <1>1, CountedMutator, CountedCollector DEF Next

\* While a collection goes on the registers reach the same nodes.
LEMMA ReachedInGc ==
    ASSUME HeapInv, [Next]_vars, pc' \in {"mark", "sweep"}
    PROVE  Reached' = Reached
<1>1. Quiet \/ StartSweep
  <2>1. /\ \A n \in Node, k \in Kind : NewNode(n, k) => pc' = "run"
        /\ \A n \in Node, f \in Field, v \in Node \cup {NIL} : SetField(n, f, v) => pc' = "run"
        /\ \A n \in Node, f \in Field : Load(n, f) => pc' = "run"
        /\ \A n \in Node : Drop(n) => pc' = "run"
    BY DEF NewNode, SetField, Load, Drop, Mutating, ctlVars
  <2> QED BY <2>1, StepKinds DEF HeapInv
<1>2. CASE Quiet
  <2>1. Reached \subseteq InUse' BY <1>2, Seen DEF Quiet, Kept
  <2>2. regs' = regs /\ \A n \in Reached : kind'[n] = kind[n] /\ ptr'[n] = ptr[n]
    BY <1>2, Seen DEF Quiet
  <2> QED BY <2>1, <2>2, Unseen
<1>3. CASE StartSweep
  <2>1. UNCHANGED <<kind, ptr, generation, regs>> BY <1>3 DEF StartSweep, heapVars
  <2>2. InUse' = InUse BY <2>1 DEF InUse
  <2> QED BY <2>1, <2>2, Seen, Unseen
<1> QED BY <1>1, <1>2, <1>3

LEMMA ExactStart ==
    ASSUME HeapInv, Counted, NEW no_error \in BOOLEAN, StartGc(no_error)
    PROVE  Exact'
<1>1. TypeOK BY DEF HeapInv
<1>2. /\ gen_gc' = GenToCollect(no_error) /\ full' = no_error /\ marked' = {}
      /\ gray' \subseteq regs /\ scan' = oldyoungs /\ pc' = "mark"
      /\ UNCHANGED <<my_gen, max_gen, generation>>
  BY DEF StartGc, heapVars
<1>3. InUse' = InUse BY <1>2 DEF InUse
<1>4. gen_gc' <= max_gen /\ (no_error => gen_gc' = max_gen)
  BY <1>1, <1>2 DEF GenToCollect, Counted, TypeOK, Gen
<1>5. gray' \subseteq Reached'
  <2>1. Reached' = Reached BY <1>2, Seen, Unseen DEF StartGc, heapVars, InUse
  <2> QED BY <1>2, <2>1, Seen
<1>6. \A n \in InUse : my_gen[n] <= max_gen BY DEF Counted
<1> QED BY <1>2, <1>3, <1>4, <1>5, <1>6 DEF Exact, Counted

LEMMA ExactMutator == ASSUME Exact, HeapInv, Counted, Mutator PROVE Exact'
<1>1. CASE \E no_error \in BOOLEAN : GcCommand(no_error) BY <1>1, ExactStart DEF GcCommand
<1>2. ASSUME ~ \E no_error \in BOOLEAN : GcCommand(no_error) PROVE pc' = "run"
  BY <1>2 DEF Mutator, NewNode, SetField, Load, Drop, TopLevelRecover, FillReserveTank,
              Mutating, ctlVars
<1> QED BY <1>1, <1>2 DEF Exact

\* A node that is marked leads to nodes the registers reach.
LEMMA ChildrenReached ==
    ASSUME HeapInv, NEW n \in Reached
    PROVE  Children(n) \subseteq Reached
<1> SUFFICES ASSUME NEW m \in Children(n) PROVE m \in Reached OBVIOUS
<1>1. AllCells[n].kind = kind[n] /\ AllCells[n].ptr = ptr[n] BY Seen
<1>2. m # NIL /\ \E f \in PtrFields[kind[n]] : m = ptr[n][f] BY DEF Children, Valid
<1>3. m \in Abstract!Points(AllCells, n) BY <1>1, <1>2, PointsIff
<1> QED BY <1>3, Seen DEF Abstract!Closed

LEMMA ExactMark ==
    ASSUME Exact, HeapInv, NEW n \in Node, MarkNode(n), Reached' = Reached
    PROVE  Exact'
<1>1. /\ UNCHANGED <<gen_gc, max_gen, my_gen, generation, full, scan>>
      /\ pc = "mark" /\ pc' = "mark" /\ n \in gray
      /\ marked' = marked \cup {n} /\ gray' \subseteq gray \cup Children(n)
  BY DEF MarkNode, heapVars, ctlVars, Markable
<1>2. InUse' = InUse BY <1>1 DEF InUse
<1>3. full => n \in Reached /\ Children(n) \subseteq Reached BY <1>1, ChildrenReached DEF Exact
<1>4. full => marked' \cup gray' \subseteq Reached' BY <1>1, <1>3 DEF Exact
<1> QED BY <1>1, <1>2, <1>4 DEF Exact

LEMMA ExactRemembered ==
    ASSUME Exact, HeapInv, NEW n \in Node, InterGenMark(n), Reached' = Reached
    PROVE  Exact'
<1>1. /\ UNCHANGED <<gen_gc, max_gen, my_gen, generation, full, marked>>
      /\ pc = "mark" /\ pc' = "mark" /\ n \in scan
      /\ scan' \subseteq scan
      /\ my_gen[n] <= gen_gc => gray' = gray
  BY DEF InterGenMark, ctlVars
<1>2. InUse' = InUse BY <1>1 DEF InUse
<1>3. full => my_gen[n] <= gen_gc BY <1>1 DEF Exact
<1> QED BY <1>1, <1>2, <1>3 DEF Exact

LEMMA ExactSweep ==
    ASSUME Exact, HeapInv, NEW n \in Node, SweepKeep(n) \/ SweepPromote(n) \/ SweepFree(n),
           Reached' = Reached
    PROVE  Exact'
<1>0. TypeOK /\ HeapPartition /\ SweepInv BY DEF HeapInv
<1>1. /\ UNCHANGED <<gen_gc, full, marked, gray>>
      /\ pc = "sweep" /\ pc' = "sweep" /\ n \in todo
  BY DEF SweepKeep, SweepPromote, SweepFree, ctlVars
<1>2. n \in generation[loop] BY <1>0, <1>1 DEF SweepInv
<1>3. InUse' \subseteq InUse
  <2>1. CASE SweepKeep(n) BY <2>1 DEF SweepKeep, InUse
  <2>2. CASE SweepPromote(n) BY <1>0, <1>2, <2>2, PromoteInUse
  <2>3. CASE SweepFree(n) BY <1>0, <1>2, <2>3, FreeInUse
  <2> QED BY <2>1, <2>2, <2>3
<1>4. n \in marked \/ my_gen' = my_gen BY DEF SweepKeep, SweepPromote, SweepFree
<1>5. \A m \in Node \ {n} : my_gen'[m] = my_gen[m]
  BY <1>0 DEF SweepKeep, SweepPromote, SweepFree, TypeOK
<1>6. gen_gc' <= max_gen'
  <2>1. max_gen \in Int /\ gen_gc \in Int /\ loop \in Int /\ gen_gc <= max_gen
    BY <1>0, <1>1 DEF TypeOK, Gen, Exact
  <2>2. max_gen' = max_gen \/ (max_gen = loop /\ max_gen' = loop + 1)
    BY DEF SweepKeep, SweepPromote, SweepFree
  <2> QED BY <1>1, <2>1, <2>2
<1>7. full' => \A m \in InUse' : my_gen'[m] <= gen_gc' \/ m \in marked'
  <2> SUFFICES ASSUME full, NEW m \in InUse' PROVE my_gen'[m] <= gen_gc \/ m \in marked BY <1>1
  <2>1. m \in Node /\ (my_gen[m] <= gen_gc \/ m \in marked) BY <1>0, <1>1, <1>3, InUseNode DEF Exact
  <2> QED BY <1>4, <1>5, <2>1
<1>8. full' => marked' \cup gray' \subseteq Reached' BY <1>1 DEF Exact
<1> QED BY <1>1, <1>6, <1>7, <1>8 DEF Exact

LEMMA ExactFrame ==
    ASSUME Exact, UNCHANGED <<gen_gc, max_gen, my_gen, generation, full, marked, scan>>,
           gray' \subseteq gray, Reached' = Reached,
           pc' = pc \/ (pc = "mark" /\ pc' = "sweep")
    PROVE  Exact'
<1>1. InUse' = InUse BY DEF InUse
<1> QED BY <1>1 DEF Exact

LEMMA ExactStep == HeapInv /\ Counted /\ Exact /\ [Next]_vars => Exact'
<1> SUFFICES ASSUME HeapInv, Counted, Exact, [Next]_vars, pc' \in {"mark", "sweep"}
             PROVE  Exact'
  BY DEF Exact
<1>0. Reached' = Reached BY ReachedInGc
<1>1. CASE Mutator BY <1>1, ExactMutator
<1>2. CASE NewNodeGc BY <1>2, ExactStart DEF NewNodeGc
<1>3. ASSUME NEW n \in Node, MarkNode(n) PROVE Exact' BY <1>0, <1>3, ExactMark
<1>4. ASSUME NEW n \in Node, InterGenMark(n) PROVE Exact' BY <1>0, <1>4, ExactRemembered
<1>5. ASSUME NEW n \in Node, SweepKeep(n) \/ SweepPromote(n) \/ SweepFree(n) PROVE Exact'
  BY <1>0, <1>5, ExactSweep
<1>6. CASE GcStackOverflow \/ StartSweep \/ SweepNextGen
  <2>1. /\ UNCHANGED <<gen_gc, max_gen, my_gen, generation, full, marked, scan>>
        /\ gray' \subseteq gray
        /\ pc' = pc \/ (pc = "mark" /\ pc' = "sweep")
    BY <1>6 DEF GcStackOverflow, StartSweep, SweepNextGen, heapVars, ctlVars
  <2> QED BY <1>0, <2>1, ExactFrame
<1>7. CASE GcAbandon \/ GcEndAddSeg \/ GcEndOutOfMem \/ GcEndReturn \/ GcAfterOverflow
  BY <1>7 DEF GcAbandon, GcEndAddSeg, GcEndOutOfMem, GcEndReturn, GcAfterOverflow, AddSeg, OutOfMem
<1>8. CASE UNCHANGED vars BY <1>0, <1>8, ExactFrame DEF vars, heapVars, ctlVars, gcVars
<1> QED BY <1>1, <1>2, <1>3, <1>4, <1>5, <1>6, <1>7, <1>8 DEF Next, Collector

\* After a full collection (recycle, nodes) the nodes in use are exactly those the
\* registers reach, cycles and garbage of every age included, and mem_nodes counts
\* them, in a heap of any size (gc in mem.c).
THEOREM FullCollectionIsExact == Spec => []FullGcExact
<1> DEFINE Inv == HeapInv /\ Counted /\ Exact
<1>1. Init => Inv BY HeapInit, CountedInit, ExactInit
<1>2. Inv /\ [Next]_vars => Inv' BY HeapStep, CountedStep, ExactStep
<1>3. Inv => FullGcExact
  <2> SUFFICES ASSUME HeapInv, Counted, Exact, pc = "sweep", todo = {}, loop = 0, full
               PROVE  InUse = Reached /\ mem_nodes = Cardinality(InUse)
    BY Seen DEF FullGcExact
  <2>1. Kept = InUse BY SweepDone DEF HeapInv
  <2>2. InUse \subseteq marked BY <2>1 DEF Kept, Condemned, Exact
  <2> QED BY <2>2, Seen DEF Exact, Counted
<1> QED BY <1>1, <1>2, <1>3, PTL DEF Spec
=============================================================================
