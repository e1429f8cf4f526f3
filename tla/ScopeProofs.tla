------------------------------- MODULE ScopeProofs -------------------------------
(***************************************************************************)
(* Shallow binding is dynamic scope, for any names, values and programs:   *)
(* any nesting of calls, tail calls, default expressions, REPEAT, APPLY,   *)
(* CATCH, evaluations of ERRACT lists and throws.                          *)
(*                                                                         *)
(* The argument.  The control stack divides var_stack, at the positions    *)
(* where its continuations will call reset_args, and the environment, at   *)
(* the frames they will cut it back to.  Between two such points the names *)
(* with a saved binding are the names with a variable, and the oldest      *)
(* saved binding of a name above a point is its value in the frames below  *)
(* it.  CATCH is no such point.  A list of CATCH that ends in a call of a  *)
(* procedure leaves that procedure's frame to the construct around the     *)
(* CATCH, so the theorems about values assume that none does; the types,   *)
(* the flags and the way back to the top level need no such assumption.    *)
(*                                                                         *)
(* That a search meets an oldest binding and a nearest variable is part of *)
(* the invariant, as induction over sequences is not to be had here.       *)
(***************************************************************************)
EXTENDS Scope, TLAPS

-----------------------------------------------------------------------------
(* The invariant.  It is stated of the values of the variables, so that an   *)
(* action that does two things, such as reset_args and a new binding, can be *)
(* proved as one after the other.                                            *)

Binding == [name : Name, old : Thing, localsave : BOOLEAN]
EntryRecord == [cont : Cont, var : Nat, vsp : Nat, formals : SUBSET Name,
                tag : Tag \cup Name \cup {NoTag}, frames : Nat, erract : Thing]

\* The register var, and the number of frames, when the work above entry i - 1
\* of the control stack was interrupted, or now.
VarAt(stk, vr, i) == IF i <= Len(stk) THEN stk[i].var ELSE vr
FramesAt(stk, e, i) == IF i <= Len(stk) THEN stk[i].frames ELSE Len(e)

\* Entries whose continuation calls reset_args.
Resets(stk, i) == stk[i].cont # "catch_followup"

\* A name has a saved binding, or a variable, between two positions.
Named(vst, n, a, b) == \E p \in a + 1 .. b : vst[p].name = n
HasVar(e, n, a, b) == \E j \in a + 1 .. b : n \in DOMAIN e[j]

\* p is the oldest saved binding of n above a; j is the innermost variable n of k frames.
First(vst, n, a, p) ==
    /\ p \in a + 1 .. Len(vst)
    /\ vst[p].name = n
    /\ \A q \in a + 1 .. Len(vst) : vst[q].name = n => p <= q
Nearest(e, n, k, j) ==
    /\ j \in 1 .. k
    /\ n \in DOMAIN e[j]
    /\ \A i \in 1 .. k : n \in DOMAIN e[i] => i <= j

Types(val, loc, vst, vr, stk, e) ==
    /\ val \in [Name -> Thing]
    /\ loc \in [Name -> BOOLEAN]
    /\ vst \in Seq(Binding)
    /\ vr \in 0 .. Len(vst)
    /\ stk \in Seq(EntryRecord)
    /\ e \in Seq(Frame)
    /\ Len(e) >= 1
    /\ DOMAIN e[1] = Name

\* Outer positions are below inner ones, outer frames below the frames of what a
\* construct that will be reset has begun.
Ordered(stk, vr, e) ==
    /\ \A i \in 1 .. Len(stk) : stk[i].frames >= 1
    /\ \A i, j \in 1 .. Len(stk) + 1 : i < j =>
           /\ VarAt(stk, vr, i) <= VarAt(stk, vr, j)
           /\ FramesAt(stk, e, i) <= FramesAt(stk, e, j)
           /\ Resets(stk, i) => FramesAt(stk, e, i) < FramesAt(stk, e, j)

\* CATCH changes neither the frame nor the register var.
CatchKeeps(stk, vr, e) ==
    \A i \in 1 .. Len(stk) : ~Resets(stk, i) =>
        /\ VarAt(stk, vr, i + 1) = stk[i].var
        /\ CatchTail = FALSE => FramesAt(stk, e, i + 1) = stk[i].frames

\* The evaluation at the bottom began with nothing but the global variables.
Bottom(vst, vr, stk, e) ==
    /\ Len(stk) = 0 => Len(vst) = 0 /\ vr = 0 /\ Len(e) = 1
    /\ Len(stk) > 0 => /\ stk[1].cont = "all_done"
                       /\ stk[1].var = 0
                       /\ stk[1].frames = 1
                       /\ VarAt(stk, vr, 2) = 0

\* A default expression interrupts the binding of a variable that is there.
Defaults(stk, vr, e) ==
    \A i \in 1 .. Len(stk) : stk[i].cont = "set_args_continue" =>
        /\ stk[i].tag \in DOMAIN e[stk[i].frames]
        /\ stk[i].vsp <= VarAt(stk, vr, i + 1)

\* LOCALSAVE of a saved binding says that there was an earlier one.
Flags(loc, vst) ==
    /\ \A n \in Name : loc[n] <=> Named(vst, n, 0, Len(vst))
    /\ \A p \in 1 .. Len(vst) : vst[p].localsave <=> Named(vst, vst[p].name, 0, p - 1)

\* A search finds what there is.
Found(vst, e) ==
    /\ \A n \in Name, a \in 0 .. Len(vst) :
           Named(vst, n, a, Len(vst)) => \E p \in 1 .. Len(vst) : First(vst, n, a, p)
    /\ \A n \in Name, k \in 1 .. Len(e) : \E j \in 1 .. k : Nearest(e, n, k, j)

Shape(val, loc, vst, vr, stk, e) ==
    /\ Types(val, loc, vst, vr, stk, e)
    /\ Ordered(stk, vr, e)
    /\ CatchKeeps(stk, vr, e)
    /\ Bottom(vst, vr, stk, e)
    /\ Defaults(stk, vr, e)
    /\ Flags(loc, vst)
    /\ Found(vst, e)

\* Between two constructs that will be reset, and from such a construct to now,
\* the names with saved bindings are the names with variables.
SameNames(vst, vr, stk, e) ==
    \A i \in 1 .. Len(stk), n \in Name \ {ERRACT} : Resets(stk, i) =>
        /\ Named(vst, n, VarAt(stk, vr, i + 1), Len(vst)) <=> HasVar(e, n, stk[i].frames, Len(e))
        /\ \A k \in i .. Len(stk) : Resets(stk, k) =>
               (Named(vst, n, VarAt(stk, vr, i + 1), VarAt(stk, vr, k + 1))
                   <=> HasVar(e, n, stk[i].frames, stk[k].frames))

\* What reset_args would restore is what the frames below say.
Restores(vst, vr, stk, e) ==
    \A i \in 1 .. Len(stk), n \in Name \ {ERRACT} : Resets(stk, i) =>
        \A p \in 1 .. Len(vst), j \in 1 .. Len(e) :
            First(vst, n, VarAt(stk, vr, i + 1), p) /\ Nearest(e, n, stk[i].frames, j)
                => vst[p].old = e[j][n]

\* The value of a name is that of its innermost variable.
Current(val, e) ==
    \A n \in Name \ {ERRACT}, j \in 1 .. Len(e) : Nearest(e, n, Len(e), j) => val[n] = e[j][n]

Meaning(val, vst, vr, stk, e) ==
    SameNames(vst, vr, stk, e) /\ Restores(vst, vr, stk, e) /\ Current(val, e)

Sound(val, loc, vst, vr, stk, e) ==
    /\ Shape(val, loc, vst, vr, stk, e)
    /\ CatchTail = FALSE => Meaning(val, vst, vr, stk, e)

\* The registers of lambda_apply.
Registers ==
    /\ has_global \in [Name -> BOOLEAN]
    /\ binding \in BOOLEAN
    /\ formals \in SUBSET Name
    /\ vsp \in Nat
    /\ binding => stack # <<>> /\ vsp <= Len(var_stack)
    /\ stack = <<>> => throwing = NoTag

\* The inductive invariant.
IInv ==
    /\ Sound(valnode, is_local, var_stack, var, stack, env)
    /\ Registers
    /\ CatchTail = FALSE => GlobalFlag

-----------------------------------------------------------------------------
(* Sequences and frames. *)

LEMMA AboveOne ==
  ASSUME NEW k \in Nat, k # 0, k # 1
  PROVE  k > 1 /\ k - 1 # 0 /\ k - 1 \in 0 .. k
  OBVIOUS

LEMMA Appended ==
  ASSUME NEW S, NEW s \in Seq(S), NEW r \in S
  PROVE  /\ Append(s, r) \in Seq(S)
         /\ Len(Append(s, r)) = Len(s) + 1
         /\ Len(s) \in Nat
         /\ \A i \in 1 .. Len(s) : Append(s, r)[i] = s[i]
         /\ Append(s, r)[Len(s) + 1] = r
  OBVIOUS

LEMMA Prefix ==
  ASSUME NEW S, NEW s \in Seq(S), NEW k \in 0 .. Len(s)
  PROVE  /\ SubSeq(s, 1, k) \in Seq(S)
         /\ Len(SubSeq(s, 1, k)) = k
         /\ \A i \in 1 .. k : SubSeq(s, 1, k)[i] = s[i]
  OBVIOUS

LEMMA FrameType ==
  ASSUME NEW f
  PROVE  f \in Frame <=> \E S \in SUBSET Name : f \in [S -> Thing]
  BY DEF Frame

LEMMA EmptyFrameType == EmptyFrame \in Frame /\ DOMAIN EmptyFrame = {}
<1>1. EmptyFrame \in [{} -> Thing]
  BY DEF EmptyFrame
<1> QED
  BY <1>1, FrameType

LEMMA WithType ==
  ASSUME NEW f \in Frame, NEW n \in Name, NEW v \in Thing
  PROVE  /\ With(f, n, v) \in Frame
         /\ DOMAIN With(f, n, v) = DOMAIN f \cup {n}
         /\ With(f, n, v)[n] = v
         /\ \A m \in DOMAIN f : m # n => With(f, n, v)[m] = f[m]
<1>1. PICK S \in SUBSET Name : f \in [S -> Thing]
  BY FrameType
<1>2. With(f, n, v) \in [S \cup {n} -> Thing]
  BY <1>1 DEF With
<1>3. With(f, n, v) \in Frame
  BY <1>2, FrameType
<1> QED
  BY <1>1, <1>3 DEF With

LEMMA FrameValue ==
  ASSUME NEW f \in Frame, NEW n \in DOMAIN f
  PROVE  n \in Name /\ f[n] \in Thing
  BY FrameType

\* What is said of the positions up to b needs only the positions up to b.
LEMMA NamedSame ==
  ASSUME NEW v, NEW w, NEW n, NEW a \in Nat, NEW b \in Nat, \A p \in 1 .. b : v[p] = w[p]
  PROVE  Named(v, n, a, b) <=> Named(w, n, a, b)
  BY DEF Named

LEMMA HasVarSame ==
  ASSUME NEW e, NEW f, NEW n, NEW a \in Nat, NEW b \in Nat,
         \A j \in 1 .. b : DOMAIN e[j] = DOMAIN f[j]
  PROVE  HasVar(e, n, a, b) <=> HasVar(f, n, a, b)
  BY DEF HasVar

LEMMA NearestSame ==
  ASSUME NEW e, NEW f, NEW n, NEW k \in Nat, \A j \in 1 .. k : DOMAIN e[j] = DOMAIN f[j], NEW j
  PROVE  Nearest(e, n, k, j) <=> Nearest(f, n, k, j)
  BY DEF Nearest

LEMMA NearestIsOne ==
  ASSUME NEW e, NEW n, NEW k \in Nat, NEW i, NEW j, Nearest(e, n, k, i), Nearest(e, n, k, j)
  PROVE  i = j
  BY DEF Nearest

LEMMA FirstIsOne ==
  ASSUME NEW v, NEW n, NEW a \in Nat, Len(v) \in Nat, NEW p, NEW q, First(v, n, a, p), First(v, n, a, q)
  PROVE  p = q
  BY DEF First

\* Without a variable between, the nearest below is the nearest.
LEMMA NearestBelow ==
  ASSUME NEW e, NEW n, NEW a \in Nat, NEW b \in Nat, a <= b, ~HasVar(e, n, a, b), NEW j
  PROVE  Nearest(e, n, a, j) <=> Nearest(e, n, b, j)
  BY DEF Nearest, HasVar

\* With one between, the nearest is not below.
LEMMA NearestAbove ==
  ASSUME NEW e, NEW n, NEW a \in Nat, NEW b \in Nat, a <= b, HasVar(e, n, a, b), NEW j,
         Nearest(e, n, b, j)
  PROVE  j > a
  BY DEF Nearest, HasVar

LEMMA EntryType ==
  ASSUME NEW r \in EntryRecord
  PROVE  r.var \in Nat /\ r.vsp \in Nat /\ r.frames \in Nat
  BY DEF EntryRecord

LEMMA TypesFacts ==
  ASSUME NEW val, NEW loc, NEW vst, NEW vr, NEW stk, NEW e, Types(val, loc, vst, vr, stk, e)
  PROVE  /\ Len(stk) \in Nat /\ Len(vst) \in Nat /\ Len(e) \in Nat \ {0}
         /\ vr \in Nat /\ vr <= Len(vst)
         /\ \A i \in 1 .. Len(stk) : /\ stk[i] \in EntryRecord
                                     /\ stk[i].var \in Nat
                                     /\ stk[i].vsp \in Nat
                                     /\ stk[i].frames \in Nat
         /\ \A j \in 1 .. Len(e) : e[j] \in Frame
         /\ \A p \in 1 .. Len(vst) : /\ vst[p] \in Binding
                                     /\ vst[p].name \in Name
                                     /\ vst[p].old \in Thing
                                     /\ vst[p].localsave \in BOOLEAN
<1>1. stk \in Seq(EntryRecord) /\ e \in Seq(Frame) /\ vst \in Seq(Binding)
      /\ vr \in 0 .. Len(vst) /\ Len(e) >= 1
  BY DEF Types
<1>2. \A i \in 1 .. Len(stk) : stk[i] \in EntryRecord
  BY <1>1
<1>3. \A p \in 1 .. Len(vst) : vst[p] \in Binding
  BY <1>1
<1>4. \A p \in 1 .. Len(vst) : vst[p].name \in Name /\ vst[p].old \in Thing /\ vst[p].localsave \in BOOLEAN
  BY <1>3 DEF Binding
<1> QED
  BY <1>1, <1>2, <1>3, <1>4, EntryType

\* Every position and every frame that the control stack knows is still there.
LEMMA AtFacts ==
  ASSUME NEW val, NEW loc, NEW vst, NEW vr, NEW stk, NEW e, Types(val, loc, vst, vr, stk, e),
         Ordered(stk, vr, e)
  PROVE  /\ \A i \in 1 .. Len(stk) + 1 : /\ VarAt(stk, vr, i) \in Nat
                                         /\ VarAt(stk, vr, i) <= vr
                                         /\ VarAt(stk, vr, i) <= Len(vst)
                                         /\ FramesAt(stk, e, i) \in Nat
                                         /\ FramesAt(stk, e, i) \in 1 .. Len(e)
         /\ \A i \in 1 .. Len(stk) : /\ FramesAt(stk, e, i) = stk[i].frames
                                     /\ VarAt(stk, vr, i) = stk[i].var
                                     /\ stk[i].frames \in 1 .. Len(e)
                                     /\ Resets(stk, i) => stk[i].frames < Len(e)
         /\ VarAt(stk, vr, Len(stk) + 1) = vr
         /\ FramesAt(stk, e, Len(stk) + 1) = Len(e)
<1>1. /\ Len(stk) \in Nat /\ Len(vst) \in Nat /\ Len(e) \in Nat \ {0}
      /\ vr \in Nat /\ vr <= Len(vst)
      /\ \A i \in 1 .. Len(stk) : stk[i].var \in Nat /\ stk[i].frames \in Nat
  BY TypesFacts
<1>2. VarAt(stk, vr, Len(stk) + 1) = vr /\ FramesAt(stk, e, Len(stk) + 1) = Len(e)
  BY <1>1 DEF VarAt, FramesAt
<1>3. \A i \in 1 .. Len(stk) : VarAt(stk, vr, i) = stk[i].var /\ FramesAt(stk, e, i) = stk[i].frames
  BY <1>1 DEF VarAt, FramesAt
<1>4. ASSUME NEW i \in 1 .. Len(stk)
      PROVE  /\ stk[i].var <= vr
             /\ stk[i].frames <= Len(e)
             /\ stk[i].frames >= 1
             /\ Resets(stk, i) => stk[i].frames < Len(e)
  <2>1. i \in 1 .. Len(stk) + 1 /\ Len(stk) + 1 \in 1 .. Len(stk) + 1 /\ i < Len(stk) + 1
    BY <1>1
  <2> QED
    BY <1>2, <1>3, <2>1 DEF Ordered
<1> QED
  BY <1>1, <1>2, <1>3, <1>4

-----------------------------------------------------------------------------
(* A construct begins: an entry is pushed that will reset, with a new frame. *)

\* An empty frame hides nothing.
LEMMA FoundWithFrame ==
  ASSUME NEW vst, NEW e, NEW e2, Found(vst, e), Len(e) \in Nat \ {0}, Len(e2) = Len(e) + 1,
         \A i \in 1 .. Len(e) : e2[i] = e[i], e2[Len(e) + 1] = EmptyFrame
  PROVE  Found(vst, e2)
<1>1. ASSUME NEW n \in Name, NEW k \in 1 .. Len(e) + 1
      PROVE  \E j \in 1 .. k : Nearest(e2, n, k, j)
  <2>1. CASE k \in 1 .. Len(e)
    <3>1. PICK j \in 1 .. k : Nearest(e, n, k, j)
      BY <2>1 DEF Found
    <3>2. \A i \in 1 .. k : DOMAIN e[i] = DOMAIN e2[i]
      BY <2>1
    <3> QED
      BY <2>1, <3>1, <3>2, NearestSame
  <2>2. CASE k = Len(e) + 1
    <3>1. PICK j \in 1 .. Len(e) : Nearest(e, n, Len(e), j)
      BY DEF Found
    <3>2. n \notin DOMAIN e2[k]
      BY <2>2, EmptyFrameType
    <3> QED
      BY <2>2, <3>1, <3>2 DEF Nearest
  <2> QED
    BY <2>1, <2>2
<1> QED
  BY <1>1 DEF Found

LEMMA EnterShape ==
  ASSUME NEW val, NEW loc, NEW vst, NEW vr, NEW stk, NEW e, Shape(val, loc, vst, vr, stk, e),
         NEW r \in EntryRecord, r.cont # "catch_followup",
         r.var = vr, r.frames = Len(e),
         r.cont = "set_args_continue" => r.tag \in DOMAIN e[Len(e)] /\ r.vsp <= Len(vst),
         Len(stk) = 0 => r.cont = "all_done"
  PROVE  Shape(val, loc, vst, Len(vst), Append(stk, r), Append(e, EmptyFrame))
<1> DEFINE stk2 == Append(stk, r)
           e2 == Append(e, EmptyFrame)
           N == Len(stk)
<1>0. Types(val, loc, vst, vr, stk, e) /\ Ordered(stk, vr, e) /\ CatchKeeps(stk, vr, e)
      /\ Bottom(vst, vr, stk, e) /\ Defaults(stk, vr, e) /\ Flags(loc, vst) /\ Found(vst, e)
  BY DEF Shape
<1>1. /\ stk2 \in Seq(EntryRecord) /\ Len(stk2) = N + 1 /\ N \in Nat
      /\ \A i \in 1 .. N : stk2[i] = stk[i]
      /\ stk2[N + 1] = r
  BY <1>0, Appended DEF Types
<1>2. /\ e2 \in Seq(Frame) /\ Len(e2) = Len(e) + 1 /\ Len(e) \in Nat \ {0}
      /\ \A i \in 1 .. Len(e) : e2[i] = e[i]
      /\ e2[Len(e) + 1] = EmptyFrame
  <2>1. e \in Seq(Frame) /\ Len(e) >= 1
    BY <1>0 DEF Types
  <2> QED
    BY <2>1, Appended, EmptyFrameType
<1>3. Len(vst) \in Nat /\ vr \in Nat /\ vr <= Len(vst)
  BY <1>0, TypesFacts
<1> HIDE DEF stk2, e2
<1>4. /\ \A i \in 1 .. N + 1 : /\ VarAt(stk2, Len(vst), i) = VarAt(stk, vr, i)
                               /\ FramesAt(stk2, e2, i) = FramesAt(stk, e, i)
      /\ VarAt(stk2, Len(vst), N + 2) = Len(vst)
      /\ FramesAt(stk2, e2, N + 2) = Len(e) + 1
  BY <1>1, <1>2, <1>3 DEF VarAt, FramesAt
<1>5. /\ \A i \in 1 .. N : Resets(stk2, i) = Resets(stk, i)
      /\ Resets(stk2, N + 1)
  BY <1>1 DEF Resets
<1>6. /\ \A i \in 1 .. N + 1 : /\ VarAt(stk, vr, i) \in Nat /\ VarAt(stk, vr, i) <= Len(vst)
                               /\ FramesAt(stk, e, i) \in 1 .. Len(e)
      /\ VarAt(stk, vr, N + 1) = vr
      /\ FramesAt(stk, e, N + 1) = Len(e)
      /\ \A i \in 1 .. N : stk[i].frames \in 1 .. Len(e)
  BY <1>0, AtFacts
<1>7. Types(val, loc, vst, Len(vst), stk2, e2)
  BY <1>0, <1>1, <1>2, <1>3 DEF Types
<1>8. Ordered(stk2, Len(vst), e2)
  <2>1. ASSUME NEW i \in 1 .. N + 1 PROVE stk2[i].frames >= 1
    BY SMTT(30), <1>1, <1>2, <1>6
  <2>2. ASSUME NEW i \in 1 .. N + 2, NEW j \in 1 .. N + 2, i < j
        PROVE  /\ VarAt(stk2, Len(vst), i) <= VarAt(stk2, Len(vst), j)
               /\ FramesAt(stk2, e2, i) <= FramesAt(stk2, e2, j)
               /\ Resets(stk2, i) => FramesAt(stk2, e2, i) < FramesAt(stk2, e2, j)
    <3>1. CASE j = N + 2
      BY SMTT(30), <1>1, <1>2, <1>3, <1>4, <1>6, <2>2, <3>1
    <3>2. CASE j # N + 2
      <4>1. i \in 1 .. N /\ j \in 1 .. N + 1
        BY <1>1, <2>2, <3>2
      <4> QED
        BY <1>0, <1>1, <1>4, <1>5, <2>2, <4>1 DEF Ordered
    <3> QED
      BY <3>1, <3>2
  <2> QED
    BY <1>1, <2>1, <2>2 DEF Ordered
<1>9. CatchKeeps(stk2, Len(vst), e2)
  <2>1. ASSUME NEW i \in 1 .. N + 1, ~Resets(stk2, i)
        PROVE  /\ VarAt(stk2, Len(vst), i + 1) = stk2[i].var
               /\ CatchTail = FALSE => FramesAt(stk2, e2, i + 1) = stk2[i].frames
    <3>1. i \in 1 .. N /\ i + 1 \in 1 .. N + 1
      BY <1>1, <1>5, <2>1
    <3> QED
      BY <1>0, <1>1, <1>4, <1>5, <2>1, <3>1 DEF CatchKeeps
  <2> QED
    BY <1>1, <2>1 DEF CatchKeeps
<1>10. Bottom(vst, Len(vst), stk2, e2)
  <2>1. CASE N = 0
    BY <1>0, <1>1, <1>4, <2>1 DEF Bottom
  <2>2. CASE N # 0
    BY <1>0, <1>1, <1>4, <2>2 DEF Bottom
  <2> QED
    BY <2>1, <2>2
<1>11. Defaults(stk2, Len(vst), e2)
  <2>1. ASSUME NEW i \in 1 .. N + 1, stk2[i].cont = "set_args_continue"
        PROVE  /\ stk2[i].tag \in DOMAIN e2[stk2[i].frames]
               /\ stk2[i].vsp <= VarAt(stk2, Len(vst), i + 1)
    <3>1. CASE i = N + 1
      BY <1>1, <1>2, <1>4, <2>1, <3>1
    <3>2. CASE i # N + 1
      <4>1. i \in 1 .. N /\ i + 1 \in 1 .. N + 1
        BY <1>1, <3>2
      <4> QED
        BY <1>0, <1>1, <1>2, <1>4, <1>6, <2>1, <4>1 DEF Defaults
    <3> QED
      BY <3>1, <3>2
  <2> QED
    BY <1>1, <2>1 DEF Defaults
<1>12. Found(vst, e2)
  BY <1>0, <1>2, FoundWithFrame
<1>13. Shape(val, loc, vst, Len(vst), stk2, e2)
  BY <1>0, <1>7, <1>8, <1>9, <1>10, <1>11, <1>12 DEF Shape
<1> QED
  BY <1>13 DEF stk2, e2

\* An empty frame on top has no variables.
LEMMA EmptyOnTop ==
  ASSUME NEW e, NEW e2, Len(e) \in Nat, Len(e2) = Len(e) + 1,
         \A i \in 1 .. Len(e) : e2[i] = e[i], e2[Len(e) + 1] = EmptyFrame, NEW n
  PROVE  /\ \A a \in Nat : HasVar(e2, n, a, Len(e) + 1) <=> HasVar(e, n, a, Len(e))
         /\ \A a \in Nat, b \in 1 .. Len(e) : HasVar(e2, n, a, b) <=> HasVar(e, n, a, b)
         /\ \A j : Nearest(e2, n, Len(e) + 1, j) <=> Nearest(e, n, Len(e), j)
         /\ \A b \in 1 .. Len(e) : \A j : Nearest(e2, n, b, j) <=> Nearest(e, n, b, j)
<1>1. n \notin DOMAIN e2[Len(e) + 1]
  BY EmptyFrameType
<1>2. \A a \in Nat : HasVar(e2, n, a, Len(e) + 1) <=> HasVar(e, n, a, Len(e))
  BY <1>1 DEF HasVar
<1>3. \A a \in Nat, b \in 1 .. Len(e) : HasVar(e2, n, a, b) <=> HasVar(e, n, a, b)
  BY DEF HasVar
<1>4. \A j : Nearest(e2, n, Len(e) + 1, j) <=> Nearest(e, n, Len(e), j)
  BY <1>1 DEF Nearest
<1>5. \A b \in 1 .. Len(e) : \A j : Nearest(e2, n, b, j) <=> Nearest(e, n, b, j)
  BY DEF Nearest
<1> QED
  BY <1>2, <1>3, <1>4, <1>5

LEMMA NothingBetween ==
  ASSUME NEW v, NEW n, NEW a \in Nat
  PROVE  ~Named(v, n, a, a) /\ ~HasVar(v, n, a, a)
  BY DEF Named, HasVar

LEMMA EnterMeaning ==
  ASSUME NEW val, NEW loc, NEW vst, NEW vr, NEW stk, NEW e, Shape(val, loc, vst, vr, stk, e),
         Meaning(val, vst, vr, stk, e),
         NEW r \in EntryRecord, r.cont # "catch_followup",
         r.var = vr, r.frames = Len(e)
  PROVE  Meaning(val, vst, Len(vst), Append(stk, r), Append(e, EmptyFrame))
<1> DEFINE stk2 == Append(stk, r)
           e2 == Append(e, EmptyFrame)
           N == Len(stk)
<1>0. Types(val, loc, vst, vr, stk, e) /\ Ordered(stk, vr, e)
      /\ SameNames(vst, vr, stk, e) /\ Restores(vst, vr, stk, e) /\ Current(val, e)
  BY DEF Shape, Meaning
<1>1. /\ Len(stk2) = N + 1 /\ N \in Nat
      /\ \A i \in 1 .. N : stk2[i] = stk[i]
      /\ stk2[N + 1] = r
  BY <1>0, Appended DEF Types
<1>2. /\ Len(e2) = Len(e) + 1 /\ Len(e) \in Nat \ {0}
      /\ \A i \in 1 .. Len(e) : e2[i] = e[i]
      /\ e2[Len(e) + 1] = EmptyFrame
  <2>1. e \in Seq(Frame) /\ Len(e) >= 1
    BY <1>0 DEF Types
  <2> QED
    BY <2>1, Appended, EmptyFrameType
<1>3. Len(vst) \in Nat /\ vr \in Nat /\ vr <= Len(vst)
  BY <1>0, TypesFacts
<1> HIDE DEF stk2, e2
<1>4. /\ \A i \in 1 .. N + 1 : VarAt(stk2, Len(vst), i) = VarAt(stk, vr, i)
      /\ VarAt(stk2, Len(vst), N + 2) = Len(vst)
  BY <1>1, <1>2, <1>3 DEF VarAt
<1>5. /\ \A i \in 1 .. N : Resets(stk2, i) = Resets(stk, i)
      /\ Resets(stk2, N + 1)
  BY <1>1 DEF Resets
<1>6. /\ \A i \in 1 .. N + 1 : VarAt(stk, vr, i) \in Nat /\ VarAt(stk, vr, i) <= Len(vst)
      /\ \A i \in 1 .. N : stk[i].frames \in 1 .. Len(e)
  BY <1>0, AtFacts
<1>7. ASSUME NEW n
       PROVE  /\ \A a \in 1 .. Len(e) : HasVar(e2, n, a, Len(e) + 1) <=> HasVar(e, n, a, Len(e))
              /\ \A a \in 1 .. Len(e), b \in 1 .. Len(e) : HasVar(e2, n, a, b) <=> HasVar(e, n, a, b)
  BY <1>2, EmptyOnTop
<1>8. SameNames(vst, Len(vst), stk2, e2)
  <2>1. ASSUME NEW i \in 1 .. N + 1, NEW n \in Name \ {ERRACT}, Resets(stk2, i)
        PROVE  /\ Named(vst, n, VarAt(stk2, Len(vst), i + 1), Len(vst))
                      <=> HasVar(e2, n, stk2[i].frames, Len(e2))
               /\ \A k \in i .. N + 1 : Resets(stk2, k) =>
                      (Named(vst, n, VarAt(stk2, Len(vst), i + 1), VarAt(stk2, Len(vst), k + 1))
                          <=> HasVar(e2, n, stk2[i].frames, stk2[k].frames))
    <3>1. CASE i = N + 1
      <4>1. ~Named(vst, n, Len(vst), Len(vst)) /\ ~HasVar(e2, n, Len(e), Len(e))
            /\ ~HasVar(e, n, Len(e), Len(e))
        BY <1>2, <1>3, NothingBetween
      <4>2. ~HasVar(e2, n, Len(e), Len(e) + 1)
        BY <1>2, <4>1, <1>7
      <4> QED
        BY <1>1, <1>2, <1>4, <3>1, <4>1, <4>2
    <3>2. CASE i # N + 1
      <4>1. i \in 1 .. N /\ i + 1 \in 1 .. N + 1 /\ Resets(stk, i) /\ stk2[i] = stk[i]
            /\ stk[i].frames \in 1 .. Len(e)
        BY <1>1, <1>5, <1>6, <2>1, <3>2
      <4>2. Named(vst, n, VarAt(stk, vr, i + 1), Len(vst)) <=> HasVar(e, n, stk[i].frames, Len(e))
        BY <1>0, <4>1 DEF SameNames
      <4>3. HasVar(e2, n, stk[i].frames, Len(e) + 1) <=> HasVar(e, n, stk[i].frames, Len(e))
        BY <4>1, <1>7
      <4>4. ASSUME NEW k \in i .. N + 1, Resets(stk2, k)
            PROVE  Named(vst, n, VarAt(stk2, Len(vst), i + 1), VarAt(stk2, Len(vst), k + 1))
                       <=> HasVar(e2, n, stk2[i].frames, stk2[k].frames)
        <5>1. CASE k = N + 1
          <6>1. HasVar(e2, n, stk[i].frames, Len(e)) <=> HasVar(e, n, stk[i].frames, Len(e))
            BY <1>2, <4>1, <1>7
          <6> QED
            BY <1>1, <1>4, <4>1, <4>2, <5>1, <6>1
        <5>2. CASE k # N + 1
          <6>1. k \in i .. N /\ k \in 1 .. N /\ k + 1 \in 1 .. N + 1
            BY <1>1, <4>1, <5>2
          <6>2. HasVar(e2, n, stk[i].frames, stk[k].frames)
                    <=> HasVar(e, n, stk[i].frames, stk[k].frames)
            BY <1>6, <4>1, <6>1, <1>7
          <6> QED
            BY <1>0, <1>1, <1>4, <1>5, <4>1, <4>4, <6>1, <6>2 DEF SameNames
        <5> QED
          BY <5>1, <5>2
      <4> QED
        BY <1>2, <1>4, <4>1, <4>2, <4>3, <4>4
    <3> QED
      BY <3>1, <3>2
  <2> QED
    BY <1>1, <2>1 DEF SameNames
<1>9. Restores(vst, Len(vst), stk2, e2)
  <2>1. ASSUME NEW i \in 1 .. N + 1, NEW n \in Name \ {ERRACT}, Resets(stk2, i),
               NEW p \in 1 .. Len(vst), NEW j \in 1 .. Len(e2),
               First(vst, n, VarAt(stk2, Len(vst), i + 1), p), Nearest(e2, n, stk2[i].frames, j)
        PROVE  vst[p].old = e2[j][n]
    <3>1. i # N + 1
      BY <1>1, <1>3, <1>4, <2>1 DEF First
    <3>2. i \in 1 .. N /\ i + 1 \in 1 .. N + 1 /\ Resets(stk, i) /\ stk2[i] = stk[i]
      BY <1>1, <1>5, <2>1, <3>1
    <3>3. Nearest(e, n, stk[i].frames, j)
      BY <1>2, <1>6, <2>1, <3>2, EmptyOnTop
    <3>4. j \in 1 .. Len(e)
      BY <1>2, <1>6, <3>2, <3>3 DEF Nearest
    <3>5. First(vst, n, VarAt(stk, vr, i + 1), p)
      BY <1>4, <2>1, <3>2
    <3>6. vst[p].old = e[j][n]
      BY <1>0, <3>2, <3>3, <3>4, <3>5 DEF Restores
    <3> QED
      BY <1>2, <3>4, <3>6
  <2> QED
    BY <1>1, <2>1 DEF Restores
<1>10. Current(val, e2)
  <2>1. ASSUME NEW n \in Name \ {ERRACT}, NEW j \in 1 .. Len(e2), Nearest(e2, n, Len(e2), j)
        PROVE  val[n] = e2[j][n]
    <3>1. Nearest(e, n, Len(e), j)
      BY <1>2, <2>1, EmptyOnTop
    <3>2. j \in 1 .. Len(e)
      BY <1>2, <3>1 DEF Nearest
    <3> QED
      BY <1>0, <1>2, <3>1, <3>2 DEF Current
  <2> QED
    BY <2>1 DEF Current
<1>11. Meaning(val, vst, Len(vst), stk2, e2)
  BY <1>8, <1>9, <1>10 DEF Meaning
<1> QED
  BY <1>11 DEF stk2, e2

-----------------------------------------------------------------------------
(* A tail call begins: a new frame, and nothing is saved. *)

LEMMA TailShape ==
  ASSUME NEW val, NEW loc, NEW vst, NEW vr, NEW stk, NEW e, Shape(val, loc, vst, vr, stk, e),
         Len(stk) > 0, Resets(stk, Len(stk)) \/ CatchTail # FALSE
  PROVE  Shape(val, loc, vst, vr, stk, Append(e, EmptyFrame))
<1> DEFINE e2 == Append(e, EmptyFrame)
           N == Len(stk)
<1>0. Types(val, loc, vst, vr, stk, e) /\ Ordered(stk, vr, e) /\ CatchKeeps(stk, vr, e)
      /\ Bottom(vst, vr, stk, e) /\ Defaults(stk, vr, e) /\ Flags(loc, vst) /\ Found(vst, e)
  BY DEF Shape
<1>1. N \in Nat /\ N > 0
  BY <1>0, TypesFacts
<1>2. /\ e2 \in Seq(Frame) /\ Len(e2) = Len(e) + 1 /\ Len(e) \in Nat \ {0}
      /\ \A i \in 1 .. Len(e) : e2[i] = e[i]
      /\ e2[Len(e) + 1] = EmptyFrame
  <2>1. e \in Seq(Frame) /\ Len(e) >= 1
    BY <1>0 DEF Types
  <2> QED
    BY <2>1, Appended, EmptyFrameType
<1> HIDE DEF e2
<1>3. /\ \A i \in 1 .. N : /\ FramesAt(stk, e2, i) = FramesAt(stk, e, i)
                           /\ FramesAt(stk, e, i) \in 1 .. Len(e)
                           /\ stk[i].frames \in 1 .. Len(e)
      /\ FramesAt(stk, e2, N + 1) = Len(e) + 1
      /\ FramesAt(stk, e, N + 1) = Len(e)
  BY <1>0, <1>1, <1>2, AtFacts DEF FramesAt
<1>4. Ordered(stk, vr, e2)
  <2>1. ASSUME NEW i \in 1 .. N + 1, NEW j \in 1 .. N + 1, i < j
        PROVE  /\ FramesAt(stk, e2, i) <= FramesAt(stk, e2, j)
               /\ Resets(stk, i) => FramesAt(stk, e2, i) < FramesAt(stk, e2, j)
    <3>1. CASE j = N + 1
      BY <1>1, <1>2, <1>3, <2>1, <3>1
    <3>2. CASE j # N + 1
      <4>1. i \in 1 .. N /\ j \in 1 .. N
        BY <1>1, <2>1, <3>2
      <4>2. /\ FramesAt(stk, e, i) <= FramesAt(stk, e, j)
            /\ Resets(stk, i) => FramesAt(stk, e, i) < FramesAt(stk, e, j)
        BY <1>0, <2>1 DEF Ordered
      <4> QED
        BY <1>3, <4>1, <4>2
    <3> QED
      BY <3>1, <3>2
  <2> QED
    BY <1>0, <2>1 DEF Ordered
<1>5. CatchKeeps(stk, vr, e2)
  <2>1. ASSUME NEW i \in 1 .. N, ~Resets(stk, i), CatchTail = FALSE
        PROVE  FramesAt(stk, e2, i + 1) = stk[i].frames
    <3>1. i # N
      BY <2>1
    <3>2. i + 1 \in 1 .. N
      BY <1>1, <3>1
    <3> QED
      BY <1>0, <1>3, <2>1, <3>2 DEF CatchKeeps
  <2> QED
    BY <1>0, <2>1 DEF CatchKeeps
<1>6. Defaults(stk, vr, e2)
  BY <1>0, <1>2, <1>3 DEF Defaults
<1>7. Found(vst, e2)
  BY <1>0, <1>2, FoundWithFrame
<1>8. Types(val, loc, vst, vr, stk, e2) /\ Bottom(vst, vr, stk, e2)
  BY <1>0, <1>1, <1>2 DEF Types, Bottom
<1>9. Shape(val, loc, vst, vr, stk, e2)
  BY <1>0, <1>4, <1>5, <1>6, <1>7, <1>8 DEF Shape
<1> QED
  BY <1>9 DEF e2

LEMMA TailMeaning ==
  ASSUME NEW val, NEW loc, NEW vst, NEW vr, NEW stk, NEW e, Shape(val, loc, vst, vr, stk, e),
         Meaning(val, vst, vr, stk, e)
  PROVE  Meaning(val, vst, vr, stk, Append(e, EmptyFrame))
<1> DEFINE e2 == Append(e, EmptyFrame)
           N == Len(stk)
<1>0. Types(val, loc, vst, vr, stk, e) /\ Ordered(stk, vr, e)
      /\ SameNames(vst, vr, stk, e) /\ Restores(vst, vr, stk, e) /\ Current(val, e)
  BY DEF Shape, Meaning
<1>1. /\ Len(e2) = Len(e) + 1 /\ Len(e) \in Nat \ {0}
      /\ \A i \in 1 .. Len(e) : e2[i] = e[i]
      /\ e2[Len(e) + 1] = EmptyFrame
  <2>1. e \in Seq(Frame) /\ Len(e) >= 1
    BY <1>0 DEF Types
  <2> QED
    BY <2>1, Appended, EmptyFrameType
<1> HIDE DEF e2
<1>2. \A i \in 1 .. N : stk[i].frames \in 1 .. Len(e)
  BY <1>0, AtFacts
<1>3. ASSUME NEW n
      PROVE  /\ \A a \in 1 .. Len(e) : HasVar(e2, n, a, Len(e) + 1) <=> HasVar(e, n, a, Len(e))
             /\ \A a \in 1 .. Len(e), b \in 1 .. Len(e) : HasVar(e2, n, a, b) <=> HasVar(e, n, a, b)
             /\ \A j : Nearest(e2, n, Len(e) + 1, j) <=> Nearest(e, n, Len(e), j)
             /\ \A b \in 1 .. Len(e) : \A j : Nearest(e2, n, b, j) <=> Nearest(e, n, b, j)
  BY <1>1, EmptyOnTop
<1>4. SameNames(vst, vr, stk, e2)
  <2>1. ASSUME NEW i \in 1 .. N, NEW n \in Name \ {ERRACT}, Resets(stk, i)
        PROVE  /\ Named(vst, n, VarAt(stk, vr, i + 1), Len(vst))
                      <=> HasVar(e2, n, stk[i].frames, Len(e2))
               /\ \A k \in i .. N : Resets(stk, k) =>
                      (Named(vst, n, VarAt(stk, vr, i + 1), VarAt(stk, vr, k + 1))
                          <=> HasVar(e2, n, stk[i].frames, stk[k].frames))
    <3>1. HasVar(e2, n, stk[i].frames, Len(e2)) <=> HasVar(e, n, stk[i].frames, Len(e))
      BY <1>1, <1>2, <1>3
    <3>2. ASSUME NEW k \in i .. N
          PROVE  HasVar(e2, n, stk[i].frames, stk[k].frames)
                     <=> HasVar(e, n, stk[i].frames, stk[k].frames)
      <4>1. k \in 1 .. N
        OBVIOUS
      <4> QED
        BY <1>2, <1>3, <4>1
    <3> QED
      BY <1>0, <2>1, <3>1, <3>2 DEF SameNames
  <2> QED
    BY <2>1 DEF SameNames
<1>5. Restores(vst, vr, stk, e2)
  <2>1. ASSUME NEW i \in 1 .. N, NEW n \in Name \ {ERRACT}, Resets(stk, i),
               NEW p \in 1 .. Len(vst), NEW j \in 1 .. Len(e2),
               First(vst, n, VarAt(stk, vr, i + 1), p), Nearest(e2, n, stk[i].frames, j)
        PROVE  vst[p].old = e2[j][n]
    <3>1. Nearest(e, n, stk[i].frames, j)
      BY <1>2, <1>3, <2>1
    <3>2. j \in 1 .. Len(e)
      BY <1>2, <3>1 DEF Nearest
    <3>3. vst[p].old = e[j][n]
      BY <1>0, <2>1, <3>1, <3>2 DEF Restores
    <3> QED
      BY <1>1, <3>2, <3>3
  <2> QED
    BY <2>1 DEF Restores
<1>6. Current(val, e2)
  <2>1. ASSUME NEW n \in Name \ {ERRACT}, NEW j \in 1 .. Len(e2), Nearest(e2, n, Len(e2), j)
        PROVE  val[n] = e2[j][n]
    <3>1. Nearest(e, n, Len(e), j)
      BY <1>1, <1>3, <2>1
    <3>2. j \in 1 .. Len(e)
      BY <1>1, <3>1 DEF Nearest
    <3> QED
      BY <1>0, <1>1, <3>1, <3>2 DEF Current
  <2> QED
    BY <2>1 DEF Current
<1>7. Meaning(val, vst, vr, stk, e2)
  BY <1>4, <1>5, <1>6 DEF Meaning
<1> QED
  BY <1>7 DEF e2

-----------------------------------------------------------------------------
(* A binding is pushed aside. *)

LEMMA PushShape ==
  ASSUME NEW val, NEW loc, NEW vst, NEW vr, NEW stk, NEW e, Shape(val, loc, vst, vr, stk, e),
         Len(stk) > 0, NEW n \in Name, NEW v \in Thing
  PROVE  Shape(val, [loc EXCEPT ![n] = TRUE],
               Append(vst, [name |-> n, old |-> v, localsave |-> loc[n]]), vr, stk, e)
<1> DEFINE b == [name |-> n, old |-> v, localsave |-> loc[n]]
           vst2 == Append(vst, b)
           loc2 == [loc EXCEPT ![n] = TRUE]
           L == Len(vst)
<1>0. Types(val, loc, vst, vr, stk, e) /\ Ordered(stk, vr, e) /\ CatchKeeps(stk, vr, e)
      /\ Bottom(vst, vr, stk, e) /\ Defaults(stk, vr, e) /\ Flags(loc, vst) /\ Found(vst, e)
  BY DEF Shape
<1>1. loc \in [Name -> BOOLEAN] /\ loc[n] \in BOOLEAN
  BY <1>0 DEF Types
<1>2. b \in Binding /\ b.name = n /\ b.localsave = loc[n]
  BY <1>1 DEF Binding
<1> HIDE DEF b
<1>3. /\ vst2 \in Seq(Binding) /\ Len(vst2) = L + 1 /\ L \in Nat
      /\ \A i \in 1 .. L : vst2[i] = vst[i]
      /\ vst2[L + 1] = b
  <2>1. vst \in Seq(Binding)
    BY <1>0 DEF Types
  <2> QED
    BY <1>2, <2>1, Appended
<1>4. loc2 \in [Name -> BOOLEAN] /\ loc2[n] /\ \A m \in Name : m # n => loc2[m] = loc[m]
  BY <1>1
<1> HIDE DEF vst2, loc2
<1>5. Types(val, loc2, vst2, vr, stk, e)
  BY <1>0, <1>3, <1>4 DEF Types
<1>6. Bottom(vst2, vr, stk, e)
  BY <1>0 DEF Bottom
<1>7. Flags(loc2, vst2)
  <2>1. ASSUME NEW m \in Name PROVE loc2[m] <=> Named(vst2, m, 0, L + 1)
    <3>1. CASE m = n
      BY <1>2, <1>3, <1>4, <3>1 DEF Named
    <3>2. CASE m # n
      <4>1. loc[m] <=> Named(vst, m, 0, L)
        BY <1>0 DEF Flags
      <4> QED
        BY <1>2, <1>3, <1>4, <3>2, <4>1 DEF Named
    <3> QED
      BY <3>1, <3>2
  <2>2. ASSUME NEW p \in 1 .. L + 1
        PROVE  vst2[p].localsave <=> Named(vst2, vst2[p].name, 0, p - 1)
    <3>1. CASE p = L + 1
      <4>1. loc[n] <=> Named(vst, n, 0, L)
        BY <1>0 DEF Flags
      <4>2. Named(vst, n, 0, L) <=> Named(vst2, n, 0, L)
        BY <1>3, NamedSame
      <4> QED
        BY <1>2, <1>3, <3>1, <4>1, <4>2
    <3>2. CASE p # L + 1
      <4>1. p \in 1 .. L /\ p - 1 \in Nat /\ vst2[p] = vst[p]
        BY <1>3, <3>2
      <4>2. vst[p].localsave <=> Named(vst, vst[p].name, 0, p - 1)
        BY <1>0, <4>1 DEF Flags
      <4>3. Named(vst, vst[p].name, 0, p - 1) <=> Named(vst2, vst[p].name, 0, p - 1)
        BY <1>3, <4>1, NamedSame
      <4> QED
        BY <4>1, <4>2, <4>3
    <3> QED
      BY <3>1, <3>2
  <2> QED
    BY <1>3, <2>1, <2>2 DEF Flags
<1>8. Found(vst2, e)
  <2>1. ASSUME NEW m \in Name, NEW a \in 0 .. L + 1, Named(vst2, m, a, L + 1)
        PROVE  \E p \in 1 .. L + 1 : First(vst2, m, a, p)
    <3>1. CASE a \in 0 .. L /\ Named(vst, m, a, L)
      <4>1. PICK p \in 1 .. L : First(vst, m, a, p)
        BY <1>0, <3>1 DEF Found
      <4> QED
        BY <1>3, <3>1, <4>1 DEF First
    <3>2. CASE ~(a \in 0 .. L /\ Named(vst, m, a, L))
      <4>1. \A q \in a + 1 .. L : vst2[q].name # m
        BY <1>3, <3>2 DEF Named
      <4>2. a \in 0 .. L /\ vst2[L + 1].name = m
        BY <1>3, <2>1, <4>1 DEF Named
      <4> QED
        BY <1>3, <4>1, <4>2 DEF First
    <3> QED
      BY <3>1, <3>2
  <2> QED
    BY <1>0, <1>3, <2>1 DEF Found
<1>9. Shape(val, loc2, vst2, vr, stk, e)
  BY <1>0, <1>5, <1>6, <1>7, <1>8 DEF Shape
<1> QED
  BY <1>9 DEF vst2, loc2, b

-----------------------------------------------------------------------------
(* Values change, and the frame on top may get a variable. *)

LEMMA ValuesShape ==
  ASSUME NEW val, NEW loc, NEW vst, NEW vr, NEW stk, NEW e, Shape(val, loc, vst, vr, stk, e),
         NEW val2 \in [Name -> Thing], NEW e2 \in Seq(Frame), Len(e2) = Len(e),
         \A j \in 1 .. Len(e) - 1 : DOMAIN e2[j] = DOMAIN e[j],
         NEW new \in SUBSET Name, DOMAIN e2[Len(e)] = DOMAIN e[Len(e)] \cup new
  PROVE  Shape(val2, loc, vst, vr, stk, e2)
<1> DEFINE N == Len(stk)
<1>0. Types(val, loc, vst, vr, stk, e) /\ Ordered(stk, vr, e) /\ CatchKeeps(stk, vr, e)
      /\ Bottom(vst, vr, stk, e) /\ Defaults(stk, vr, e) /\ Flags(loc, vst) /\ Found(vst, e)
  BY DEF Shape
<1>1. Len(e) \in Nat \ {0} /\ N \in Nat
  BY <1>0, TypesFacts
<1>2. \A j \in 1 .. Len(e) : DOMAIN e[j] \subseteq DOMAIN e2[j]
  BY <1>1
<1>3. Types(val2, loc, vst, vr, stk, e2)
  <2>1. DOMAIN e2[1] = Name
    <3>1. CASE Len(e) = 1
      BY <1>0, <3>1 DEF Types
    <3>2. CASE Len(e) # 1
      <4>1. 1 \in 1 .. Len(e) - 1
        BY <1>1, <3>2
      <4> QED
        BY <1>0, <4>1 DEF Types
    <3> QED
      BY <3>1, <3>2
  <2> QED
    BY <1>0, <2>1 DEF Types
<1>4. \A i : FramesAt(stk, e2, i) = FramesAt(stk, e, i)
  BY DEF FramesAt
<1>5. Ordered(stk, vr, e2) /\ CatchKeeps(stk, vr, e2) /\ Bottom(vst, vr, stk, e2)
  BY <1>0, <1>4 DEF Ordered, CatchKeeps, Bottom
<1>6. Defaults(stk, vr, e2)
  <2>1. \A i \in 1 .. N : stk[i].frames \in 1 .. Len(e)
    BY <1>0, AtFacts
  <2> QED
    BY <1>0, <1>2, <2>1 DEF Defaults
<1>7. Found(vst, e2)
  <2>1. ASSUME NEW n \in Name, NEW k \in 1 .. Len(e)
        PROVE  \E j \in 1 .. k : Nearest(e2, n, k, j)
    <3>1. PICK j \in 1 .. k : Nearest(e, n, k, j)
      BY <1>0 DEF Found
    <3>2. CASE k = Len(e) /\ n \in new
      BY <1>1, <3>2 DEF Nearest
    <3>3. CASE k # Len(e) \/ n \notin new
      <4>1. \A i \in 1 .. k : n \in DOMAIN e2[i] <=> n \in DOMAIN e[i]
        BY <1>1, <3>3
      <4> QED
        BY <3>1, <4>1 DEF Nearest
    <3> QED
      BY <3>2, <3>3
  <2> QED
    BY <1>0, <2>1 DEF Found
<1> QED
  BY <1>0, <1>3, <1>5, <1>6, <1>7 DEF Shape

-----------------------------------------------------------------------------
(* reset_args: the bindings above the register var are taken back. *)

LEMMA CutShape ==
  ASSUME NEW val, NEW loc, NEW vst, NEW vr, NEW stk, NEW e, Shape(val, loc, vst, vr, stk, e),
         NEW val2 \in [Name -> Thing], NEW loc2 \in [Name -> BOOLEAN],
         \A n \in Name : ~Named(vst, n, vr, Len(vst)) => loc2[n] = loc[n],
         \A n \in Name, p \in 1 .. Len(vst) : First(vst, n, vr, p) => loc2[n] = vst[p].localsave
  PROVE  Shape(val2, loc2, SubSeq(vst, 1, vr), vr, stk, e)
<1> DEFINE vst2 == SubSeq(vst, 1, vr)
           L == Len(vst)
<1>0. Types(val, loc, vst, vr, stk, e) /\ Ordered(stk, vr, e) /\ CatchKeeps(stk, vr, e)
      /\ Bottom(vst, vr, stk, e) /\ Defaults(stk, vr, e) /\ Flags(loc, vst) /\ Found(vst, e)
  BY DEF Shape
<1>1. /\ vst2 \in Seq(Binding) /\ Len(vst2) = vr /\ L \in Nat /\ vr \in 0 .. L
      /\ \A i \in 1 .. vr : vst2[i] = vst[i]
  <2>1. vst \in Seq(Binding) /\ vr \in 0 .. L
    BY <1>0 DEF Types
  <2> QED
    BY <2>1, Prefix
<1> HIDE DEF vst2
<1>2. Types(val2, loc2, vst2, vr, stk, e)
  BY <1>0, <1>1 DEF Types
<1>3. Bottom(vst2, vr, stk, e)
  BY <1>0, <1>1 DEF Bottom
<1>4. Flags(loc2, vst2)
  <2>1. ASSUME NEW n \in Name PROVE loc2[n] <=> Named(vst2, n, 0, vr)
    <3>1. Named(vst2, n, 0, vr) <=> Named(vst, n, 0, vr)
      BY <1>1, NamedSame
    <3>2. CASE ~Named(vst, n, vr, L)
      <4>1. loc[n] <=> Named(vst, n, 0, L)
        BY <1>0 DEF Flags
      <4>2. Named(vst, n, 0, L) <=> Named(vst, n, 0, vr)
        BY <1>1, <3>2 DEF Named
      <4> QED
        BY <3>1, <3>2, <4>1, <4>2
    <3>3. CASE Named(vst, n, vr, L)
      <4>1. PICK p \in 1 .. L : First(vst, n, vr, p)
        BY <1>0, <1>1, <3>3 DEF Found
      <4>2. vst[p].localsave <=> Named(vst, n, 0, p - 1)
        <5>1. vst[p].name = n
          BY <4>1 DEF First
        <5> QED
          BY <1>0, <5>1 DEF Flags
      <4>3. Named(vst, n, 0, p - 1) <=> Named(vst, n, 0, vr)
        BY <1>1, <4>1 DEF Named, First
      <4> QED
        BY <3>1, <4>1, <4>2, <4>3
    <3> QED
      BY <3>2, <3>3
  <2>2. ASSUME NEW p \in 1 .. vr
        PROVE  vst2[p].localsave <=> Named(vst2, vst2[p].name, 0, p - 1)
    <3>1. p \in 1 .. L /\ p - 1 \in Nat /\ vst2[p] = vst[p] /\ \A q \in 1 .. p - 1 : vst2[q] = vst[q]
      BY <1>1
    <3>2. vst[p].localsave <=> Named(vst, vst[p].name, 0, p - 1)
      BY <1>0, <3>1 DEF Flags
    <3>3. Named(vst, vst[p].name, 0, p - 1) <=> Named(vst2, vst[p].name, 0, p - 1)
      BY <3>1, NamedSame
    <3> QED
      BY <3>1, <3>2, <3>3
  <2> QED
    BY <1>1, <2>1, <2>2 DEF Flags
<1>5. Found(vst2, e)
  <2>1. ASSUME NEW n \in Name, NEW a \in 0 .. vr, Named(vst2, n, a, vr)
        PROVE  \E p \in 1 .. vr : First(vst2, n, a, p)
    <3>1. PICK q \in a + 1 .. vr : vst[q].name = n
      BY <1>1, <2>1 DEF Named
    <3>2. a \in 0 .. L /\ Named(vst, n, a, L)
      BY <1>1, <3>1 DEF Named
    <3>3. PICK p \in 1 .. L : First(vst, n, a, p)
      BY <1>0, <3>2 DEF Found
    <3>4. p \in 1 .. vr
      BY <1>1, <3>1, <3>3 DEF First
    <3> QED
      BY <1>1, <3>3, <3>4 DEF First
  <2> QED
    BY <1>0, <1>1, <2>1 DEF Found
<1>6. Shape(val2, loc2, vst2, vr, stk, e)
  BY <1>0, <1>2, <1>3, <1>4, <1>5 DEF Shape
<1> QED
  BY <1>6 DEF vst2

-----------------------------------------------------------------------------
(* The entry on top of the control stack is taken away, with its frames. *)

LEMMA PopAt ==
  ASSUME NEW val, NEW loc, NEW vst, NEW vr, NEW stk, NEW e, Shape(val, loc, vst, vr, stk, e),
         Len(stk) > 0
  PROVE  LET stk2 == SubSeq(stk, 1, Len(stk) - 1)
             e2 == SubSeq(e, 1, stk[Len(stk)].frames)
         IN  /\ stk2 \in Seq(EntryRecord) /\ Len(stk2) = Len(stk) - 1 /\ Len(stk2) \in Nat
             /\ \A i \in 1 .. Len(stk) - 1 : stk2[i] = stk[i] /\ (Resets(stk2, i) <=> Resets(stk, i))
             /\ e2 \in Seq(Frame) /\ Len(e2) = stk[Len(stk)].frames /\ Len(e2) \in 1 .. Len(e)
             /\ \A i \in 1 .. Len(e2) : e2[i] = e[i]
             /\ \A i \in 1 .. Len(stk) : /\ VarAt(stk2, stk[Len(stk)].var, i) = VarAt(stk, vr, i)
                                         /\ FramesAt(stk2, e2, i) = FramesAt(stk, e, i)
<1> DEFINE N == Len(stk)
           stk2 == SubSeq(stk, 1, Len(stk) - 1)
           e2 == SubSeq(e, 1, stk[Len(stk)].frames)
<1>0. Types(val, loc, vst, vr, stk, e) /\ Ordered(stk, vr, e)
  BY DEF Shape
<1>1. N \in Nat \ {0} /\ stk \in Seq(EntryRecord) /\ e \in Seq(Frame) /\ N - 1 \in 0 .. N
  BY <1>0 DEF Types
<1>2. stk[N].frames \in 1 .. Len(e)
  BY <1>0, <1>1, AtFacts
<1>3. stk2 \in Seq(EntryRecord) /\ Len(stk2) = N - 1 /\ \A i \in 1 .. N - 1 : stk2[i] = stk[i]
  BY <1>1, Prefix
<1>4. /\ e2 \in Seq(Frame) /\ Len(e2) = stk[N].frames
      /\ \A i \in 1 .. Len(e2) : e2[i] = e[i]
  <2>1. stk[N].frames \in 0 .. Len(e)
    BY <1>2
  <2> QED
    BY <1>1, <2>1, Prefix
<1>5. \A i \in 1 .. N : VarAt(stk2, stk[N].var, i) = VarAt(stk, vr, i)
  BY <1>1, <1>3 DEF VarAt
<1>6. \A i \in 1 .. N : FramesAt(stk2, e2, i) = FramesAt(stk, e, i)
  BY <1>1, <1>3, <1>4 DEF FramesAt
<1>7. \A i \in 1 .. N - 1 : Resets(stk2, i) <=> Resets(stk, i)
  BY <1>3 DEF Resets
<1> QED
  BY <1>1, <1>2, <1>3, <1>4, <1>5, <1>6, <1>7

LEMMA PopShape ==
  ASSUME NEW val, NEW loc, NEW vst, NEW vr, NEW stk, NEW e, Shape(val, loc, vst, vr, stk, e),
         Len(stk) > 0, Len(stk) = 1 => Len(vst) = 0
  PROVE  Shape(val, loc, vst, stk[Len(stk)].var,
               SubSeq(stk, 1, Len(stk) - 1), SubSeq(e, 1, stk[Len(stk)].frames))
<1> DEFINE stk2 == SubSeq(stk, 1, Len(stk) - 1)
           e2 == SubSeq(e, 1, stk[Len(stk)].frames)
           vr2 == stk[Len(stk)].var
           N == Len(stk)
<1>0. Types(val, loc, vst, vr, stk, e) /\ Ordered(stk, vr, e) /\ CatchKeeps(stk, vr, e)
      /\ Bottom(vst, vr, stk, e) /\ Defaults(stk, vr, e) /\ Flags(loc, vst) /\ Found(vst, e)
  BY DEF Shape
<1>1. /\ stk2 \in Seq(EntryRecord) /\ Len(stk2) = N - 1 /\ Len(stk2) \in Nat
      /\ \A i \in 1 .. N - 1 : stk2[i] = stk[i] /\ (Resets(stk2, i) <=> Resets(stk, i))
      /\ e2 \in Seq(Frame) /\ Len(e2) = stk[N].frames /\ Len(e2) \in 1 .. Len(e)
      /\ \A i \in 1 .. Len(e2) : e2[i] = e[i]
      /\ \A i \in 1 .. N : /\ VarAt(stk2, vr2, i) = VarAt(stk, vr, i)
                           /\ FramesAt(stk2, e2, i) = FramesAt(stk, e, i)
  BY PopAt
<1>2. N \in Nat \ {0} /\ Len(vst) \in Nat /\ Len(e) \in Nat
  BY <1>0, TypesFacts
<1>3. /\ \A i \in 1 .. N : VarAt(stk, vr, i) \in 0 .. Len(vst) /\ FramesAt(stk, e, i) = stk[i].frames
                           /\ VarAt(stk, vr, i) = stk[i].var
      /\ vr2 = VarAt(stk, vr, N)
  BY <1>0, <1>2, AtFacts
<1> HIDE DEF stk2, e2, vr2
<1>4. Types(val, loc, vst, vr2, stk2, e2)
  <2>1. vr2 \in 0 .. Len(vst)
    BY <1>2, <1>3
  <2>2. DOMAIN e2[1] = Name
    BY <1>0, <1>1 DEF Types
  <2> QED
    BY <1>0, <1>1, <1>2, <2>1, <2>2 DEF Types
<1>5. Ordered(stk2, vr2, e2)
  <2>1. ASSUME NEW i \in 1 .. N - 1 PROVE stk2[i].frames >= 1
    BY <1>0, <1>1 DEF Ordered
  <2>2. ASSUME NEW i \in 1 .. N, NEW j \in 1 .. N, i < j
        PROVE  /\ VarAt(stk2, vr2, i) <= VarAt(stk2, vr2, j)
               /\ FramesAt(stk2, e2, i) <= FramesAt(stk2, e2, j)
               /\ Resets(stk2, i) => FramesAt(stk2, e2, i) < FramesAt(stk2, e2, j)
    <3>1. i \in 1 .. N - 1 /\ i \in 1 .. N + 1 /\ j \in 1 .. N + 1
      BY <2>2
    <3>2. /\ VarAt(stk, vr, i) <= VarAt(stk, vr, j)
          /\ FramesAt(stk, e, i) <= FramesAt(stk, e, j)
          /\ Resets(stk, i) => FramesAt(stk, e, i) < FramesAt(stk, e, j)
      BY <1>0, <2>2, <3>1 DEF Ordered
    <3> QED
      BY <1>1, <3>1, <3>2
  <2>3. Len(stk2) + 1 = N
    BY <1>1, <1>2
  <2> QED
    BY <1>1, <2>1, <2>2, <2>3 DEF Ordered
<1>6. CatchKeeps(stk2, vr2, e2)
  <2>1. ASSUME NEW i \in 1 .. N - 1, ~Resets(stk2, i)
        PROVE  /\ VarAt(stk2, vr2, i + 1) = stk2[i].var
               /\ CatchTail = FALSE => FramesAt(stk2, e2, i + 1) = stk2[i].frames
    <3>1. i \in 1 .. N /\ i + 1 \in 1 .. N
      BY <1>2
    <3> QED
      BY <1>0, <1>1, <2>1, <3>1 DEF CatchKeeps
  <2> QED
    BY <1>1, <2>1 DEF CatchKeeps
<1>7. Bottom(vst, vr2, stk2, e2)
  <2>1. CASE N = 1
    <3>1. stk[1].var = 0 /\ stk[1].frames = 1
      BY <1>0, <1>2, <2>1 DEF Bottom
    <3>2. vr2 = 0 /\ Len(e2) = 1 /\ Len(stk2) = 0
      BY <1>1, <1>3, <2>1, <3>1
    <3>3. Len(vst) = 0
      BY <2>1
    <3> QED
      BY <3>2, <3>3 DEF Bottom
  <2>2. CASE N # 1
    <3>1. N \in Nat /\ N >= 2
      BY <1>2, <2>2
    <3>2. 2 \in 1 .. N /\ 1 \in 1 .. N - 1
      <4> HIDE DEF N
      <4> QED
        BY <3>1
    <3> QED
      BY <1>0, <1>1, <1>2, <3>1, <3>2 DEF Bottom
  <2> QED
    BY <2>1, <2>2
<1>8. Defaults(stk2, vr2, e2)
  <2>1. ASSUME NEW i \in 1 .. N - 1, stk2[i].cont = "set_args_continue"
        PROVE  /\ stk2[i].tag \in DOMAIN e2[stk2[i].frames]
               /\ stk2[i].vsp <= VarAt(stk2, vr2, i + 1)
    <3>1. i \in 1 .. N /\ i + 1 \in 1 .. N /\ stk2[i] = stk[i] /\ i \in 1 .. N + 1 /\ N \in 1 .. N + 1
          /\ i < N /\ N \in 1 .. N
      BY <1>1, <1>2
    <3>2. stk[i].frames \in 1 .. stk[N].frames
      <4>1. FramesAt(stk, e, i) <= FramesAt(stk, e, N) /\ stk[i].frames >= 1
        BY <1>0, <3>1 DEF Ordered
      <4>2. stk[i].frames \in Nat /\ stk[N].frames \in Nat
        BY <1>0, <3>1, TypesFacts
      <4> QED
        BY <1>3, <3>1, <4>1, <4>2
    <3>3. stk[i].tag \in DOMAIN e[stk[i].frames] /\ stk[i].vsp <= VarAt(stk, vr, i + 1)
      BY <1>0, <2>1, <3>1 DEF Defaults
    <3> QED
      BY <1>1, <3>1, <3>2, <3>3
  <2> QED
    BY <1>1, <2>1 DEF Defaults
<1>9. Found(vst, e2)
  <2>1. ASSUME NEW n \in Name, NEW k \in 1 .. Len(e2)
        PROVE  \E j \in 1 .. k : Nearest(e2, n, k, j)
    <3>1. k \in 1 .. Len(e) /\ \A j \in 1 .. k : DOMAIN e2[j] = DOMAIN e[j]
      BY SMTT(30), <1>1, <1>2
    <3>2. PICK j \in 1 .. k : Nearest(e, n, k, j)
      BY <1>0, <3>1 DEF Found
    <3> QED
      BY <3>1, <3>2, NearestSame
  <2> QED
    BY <1>0, <2>1 DEF Found
<1>10. Shape(val, loc, vst, vr2, stk2, e2)
  BY <1>0, <1>4, <1>5, <1>6, <1>7, <1>8, <1>9 DEF Shape
<1> QED
  BY <1>10 DEF stk2, e2, vr2

LEMMA ResetMeaning ==
  ASSUME NEW val, NEW loc, NEW vst, NEW vr, NEW stk, NEW e, Shape(val, loc, vst, vr, stk, e),
         Meaning(val, vst, vr, stk, e),
         Len(stk) > 0, Resets(stk, Len(stk)),
         NEW val2,
         \A n \in Name : ~Named(vst, n, vr, Len(vst)) => val2[n] = val[n],
         \A n \in Name, p \in 1 .. Len(vst) : First(vst, n, vr, p) => val2[n] = vst[p].old
  PROVE  Meaning(val2, SubSeq(vst, 1, vr), stk[Len(stk)].var,
                 SubSeq(stk, 1, Len(stk) - 1), SubSeq(e, 1, stk[Len(stk)].frames))
<1> DEFINE vst2 == SubSeq(vst, 1, vr)
           stk2 == SubSeq(stk, 1, Len(stk) - 1)
           e2 == SubSeq(e, 1, stk[Len(stk)].frames)
           vr2 == stk[Len(stk)].var
           N == Len(stk)
           L == Len(vst)
<1>0. Types(val, loc, vst, vr, stk, e) /\ Ordered(stk, vr, e) /\ Found(vst, e)
      /\ SameNames(vst, vr, stk, e) /\ Restores(vst, vr, stk, e) /\ Current(val, e)
  BY DEF Shape, Meaning
<1>1. /\ Len(stk2) = N - 1 /\ Len(stk2) \in Nat
      /\ \A i \in 1 .. N - 1 : stk2[i] = stk[i] /\ (Resets(stk2, i) <=> Resets(stk, i))
      /\ Len(e2) = stk[N].frames /\ Len(e2) \in 1 .. Len(e)
      /\ \A i \in 1 .. Len(e2) : e2[i] = e[i]
      /\ \A i \in 1 .. N : VarAt(stk2, vr2, i) = VarAt(stk, vr, i)
  BY PopAt
<1>2. N \in Nat /\ N > 0 /\ N \in 1 .. N /\ N \in N .. N /\ L \in Nat /\ Len(e) \in Nat
  BY <1>0, TypesFacts
<1>3. /\ Len(vst2) = vr /\ vr \in 0 .. L
      /\ \A p \in 1 .. vr : vst2[p] = vst[p]
  <2>1. vst \in Seq(Binding) /\ vr \in 0 .. L
    BY <1>0 DEF Types
  <2> QED
    BY <2>1, Prefix
<1>4. /\ \A i \in 1 .. N + 1 : VarAt(stk, vr, i) \in Nat /\ VarAt(stk, vr, i) <= vr
      /\ VarAt(stk, vr, N + 1) = vr
      /\ \A i \in 1 .. N : stk[i].frames \in 1 .. Len(e)
  BY <1>0, AtFacts
<1> HIDE DEF stk2, e2, vst2, vr2
<1>5. ASSUME NEW i \in 1 .. N - 1, Resets(stk2, i)
      PROVE  /\ i \in 1 .. N /\ i + 1 \in 1 .. N /\ Resets(stk, i) /\ stk2[i] = stk[i]
             /\ VarAt(stk2, vr2, i + 1) = VarAt(stk, vr, i + 1)
             /\ VarAt(stk, vr, i + 1) \in Nat /\ VarAt(stk, vr, i + 1) <= vr
             /\ stk[i].frames \in 1 .. Len(e2)
  <2>1. i \in 1 .. N /\ i + 1 \in 1 .. N /\ i \in 1 .. N + 1 /\ N \in 1 .. N + 1 /\ i + 1 \in 1 .. N + 1
        /\ i < N
    BY <1>2
  <2>2. FramesAt(stk, e, i) <= FramesAt(stk, e, N)
    BY <1>0, <2>1 DEF Ordered
  <2>3. FramesAt(stk, e, i) = stk[i].frames /\ FramesAt(stk, e, N) = stk[N].frames
    BY <1>0, <1>2, <2>1, AtFacts
  <2> QED
    BY <1>1, <1>4, <1>5, <2>1, <2>2, <2>3
<1>6. ASSUME NEW n
      PROVE  /\ \A a \in Nat, b \in 0 .. vr : Named(vst2, n, a, b) <=> Named(vst, n, a, b)
             /\ \A a \in Nat, b \in 0 .. Len(e2) : HasVar(e2, n, a, b) <=> HasVar(e, n, a, b)
             /\ \A b \in 0 .. Len(e2) : \A j : Nearest(e2, n, b, j) <=> Nearest(e, n, b, j)
  <2>1. \A a \in Nat, b \in 0 .. vr : Named(vst2, n, a, b) <=> Named(vst, n, a, b)
    BY <1>3 DEF Named
  <2>2. \A a \in Nat, b \in 0 .. Len(e2) : HasVar(e2, n, a, b) <=> HasVar(e, n, a, b)
    BY SMTT(30), <1>1 DEF HasVar
  <2>3. \A b \in 0 .. Len(e2) : \A j : Nearest(e2, n, b, j) <=> Nearest(e, n, b, j)
    BY SMTT(30), <1>1 DEF Nearest
  <2> QED
    BY <2>1, <2>2, <2>3
<1>7. SameNames(vst2, vr2, stk2, e2)
  <2>1. ASSUME NEW i \in 1 .. N - 1, NEW n \in Name \ {ERRACT}, Resets(stk2, i)
        PROVE  /\ Named(vst2, n, VarAt(stk2, vr2, i + 1), vr)
                      <=> HasVar(e2, n, stk2[i].frames, Len(e2))
               /\ \A k \in i .. N - 1 : Resets(stk2, k) =>
                      (Named(vst2, n, VarAt(stk2, vr2, i + 1), VarAt(stk2, vr2, k + 1))
                          <=> HasVar(e2, n, stk2[i].frames, stk2[k].frames))
    <3>1. /\ i \in 1 .. N /\ i + 1 \in 1 .. N /\ Resets(stk, i) /\ stk2[i] = stk[i]
          /\ VarAt(stk2, vr2, i + 1) = VarAt(stk, vr, i + 1)
          /\ VarAt(stk, vr, i + 1) \in Nat
          /\ stk[i].frames \in 1 .. Len(e2) /\ stk[i].frames \in Nat
      BY <1>4, <1>5, <2>1
    <3>2. Named(vst, n, VarAt(stk, vr, i + 1), vr) <=> HasVar(e, n, stk[i].frames, Len(e2))
      <4>1. N \in i .. N
        BY <1>2, <3>1
      <4>2. Named(vst, n, VarAt(stk, vr, i + 1), VarAt(stk, vr, N + 1))
                <=> HasVar(e, n, stk[i].frames, stk[N].frames)
        BY <1>0, <3>1, <4>1 DEF SameNames
      <4> QED
        BY <1>1, <1>4, <4>2
    <3>3. Named(vst2, n, VarAt(stk, vr, i + 1), vr) <=> Named(vst, n, VarAt(stk, vr, i + 1), vr)
      <4>1. vr \in 0 .. vr
        BY <1>3
      <4> QED
        BY <1>6, <3>1, <4>1
    <3>4. HasVar(e2, n, stk[i].frames, Len(e2)) <=> HasVar(e, n, stk[i].frames, Len(e2))
      <4>1. Len(e2) \in 0 .. Len(e2)
        BY <1>1
      <4> QED
        BY <1>6, <3>1, <4>1
    <3>5. ASSUME NEW k \in i .. N - 1, Resets(stk2, k)
          PROVE  Named(vst2, n, VarAt(stk2, vr2, i + 1), VarAt(stk2, vr2, k + 1))
                     <=> HasVar(e2, n, stk2[i].frames, stk2[k].frames)
      <4>1. k \in 1 .. N - 1 /\ k \in i .. N
        BY <1>2, <3>1
      <4>2. /\ k \in 1 .. N /\ Resets(stk, k) /\ stk2[k] = stk[k]
            /\ VarAt(stk2, vr2, k + 1) = VarAt(stk, vr, k + 1)
            /\ VarAt(stk, vr, k + 1) \in 0 .. vr
            /\ stk[k].frames \in 0 .. Len(e2)
        BY <1>3, <1>5, <3>5, <4>1
      <4>3. Named(vst, n, VarAt(stk, vr, i + 1), VarAt(stk, vr, k + 1))
                <=> HasVar(e, n, stk[i].frames, stk[k].frames)
        BY <1>0, <3>1, <4>1, <4>2 DEF SameNames
      <4>4. Named(vst2, n, VarAt(stk, vr, i + 1), VarAt(stk, vr, k + 1))
                <=> Named(vst, n, VarAt(stk, vr, i + 1), VarAt(stk, vr, k + 1))
        BY <1>6, <3>1, <4>2
      <4>5. HasVar(e2, n, stk[i].frames, stk[k].frames)
                <=> HasVar(e, n, stk[i].frames, stk[k].frames)
        BY <1>6, <3>1, <4>2
      <4> QED
        BY <3>1, <4>2, <4>3, <4>4, <4>5
    <3> QED
      BY <3>1, <3>2, <3>3, <3>4, <3>5
  <2> QED
    BY <1>1, <1>3, <2>1 DEF SameNames
<1>8. Restores(vst2, vr2, stk2, e2)
  <2>1. ASSUME NEW i \in 1 .. Len(stk2), NEW n \in Name \ {ERRACT}, Resets(stk2, i),
               NEW p \in 1 .. Len(vst2), NEW j \in 1 .. Len(e2),
               First(vst2, n, VarAt(stk2, vr2, i + 1), p), Nearest(e2, n, stk2[i].frames, j)
        PROVE  vst2[p].old = e2[j][n]
    <3>1. /\ i \in 1 .. N /\ Resets(stk, i) /\ stk2[i] = stk[i]
          /\ VarAt(stk2, vr2, i + 1) = VarAt(stk, vr, i + 1)
          /\ VarAt(stk, vr, i + 1) \in Nat
          /\ stk[i].frames \in 0 .. Len(e2)
      BY <1>1, <1>5, <2>1
    <3>2. p \in 1 .. L /\ j \in 1 .. Len(e)
      BY <1>1, <1>2, <1>3
    <3>3. First(vst, n, VarAt(stk, vr, i + 1), p)
      BY <1>2, <1>3, <2>1, <3>1 DEF First
    <3>4. Nearest(e, n, stk[i].frames, j)
      BY <1>6, <2>1, <3>1
    <3>5. vst[p].old = e[j][n]
      BY <1>0, <3>1, <3>2, <3>3, <3>4 DEF Restores
    <3> QED
      BY <1>1, <1>3, <3>5
  <2> QED
    BY <2>1 DEF Restores
<1>9. Current(val2, e2)
  <2>1. ASSUME NEW n \in Name \ {ERRACT}, NEW j \in 1 .. Len(e2), Nearest(e2, n, Len(e2), j)
        PROVE  val2[n] = e2[j][n]
    <3>1. Nearest(e, n, Len(e2), j) /\ j \in 1 .. Len(e)
      <4>1. Len(e2) \in 0 .. Len(e2)
        BY <1>1
      <4>2. Nearest(e, n, Len(e2), j)
        BY <1>6, <2>1, <4>1
      <4> QED
        BY <1>1, <1>2, <4>2
    <3>2. CASE Named(vst, n, vr, L)
      <4>1. PICK p \in 1 .. L : First(vst, n, vr, p)
        BY <1>0, <1>3, <3>2 DEF Found
      <4>2. First(vst, n, VarAt(stk, vr, N + 1), p) /\ Nearest(e, n, stk[N].frames, j)
        BY <1>1, <1>4, <3>1, <4>1
      <4>3. vst[p].old = e[j][n]
        BY <1>0, <1>2, <3>1, <4>2 DEF Restores
      <4> QED
        BY <1>1, <4>1, <4>3
    <3>3. CASE ~Named(vst, n, vr, L)
      <4>1. ~HasVar(e, n, stk[N].frames, Len(e))
        BY <1>0, <1>2, <1>4, <3>3 DEF SameNames
      <4>2. Nearest(e, n, Len(e), j)
        BY <1>1, <1>2, <3>1, <4>1, NearestBelow
      <4>3. val[n] = e[j][n]
        BY <1>0, <3>1, <4>2 DEF Current
      <4> QED
        BY <1>1, <3>3, <4>3
    <3> QED
      BY <3>2, <3>3
  <2> QED
    BY <2>1 DEF Current
<1>10. Meaning(val2, vst2, vr2, stk2, e2)
  BY <1>7, <1>8, <1>9 DEF Meaning
<1> QED
  BY <1>10 DEF stk2, e2, vst2, vr2

-----------------------------------------------------------------------------
(* CATCH: an entry that will not reset. *)

LEMMA CatchAt ==
  ASSUME NEW val, NEW loc, NEW vst, NEW vr, NEW stk, NEW e, Shape(val, loc, vst, vr, stk, e),
         NEW r \in EntryRecord, r.cont = "catch_followup", r.var = vr, r.frames = Len(e)
  PROVE  LET stk2 == Append(stk, r)
             N == Len(stk)
         IN  /\ stk2 \in Seq(EntryRecord) /\ Len(stk2) = N + 1 /\ N \in Nat
             /\ \A i \in 1 .. N : stk2[i] = stk[i] /\ (Resets(stk2, i) <=> Resets(stk, i))
             /\ stk2[N + 1] = r /\ ~Resets(stk2, N + 1)
             /\ \A i \in 1 .. N + 1 : /\ VarAt(stk2, vr, i) = VarAt(stk, vr, i)
                                      /\ FramesAt(stk2, e, i) = FramesAt(stk, e, i)
             /\ VarAt(stk2, vr, N + 2) = vr /\ FramesAt(stk2, e, N + 2) = Len(e)
<1> DEFINE stk2 == Append(stk, r)
           N == Len(stk)
<1>0. Types(val, loc, vst, vr, stk, e)
  BY DEF Shape
<1>1. /\ stk2 \in Seq(EntryRecord) /\ Len(stk2) = N + 1 /\ N \in Nat
      /\ \A i \in 1 .. N : stk2[i] = stk[i]
      /\ stk2[N + 1] = r
  BY <1>0, Appended DEF Types
<1> HIDE DEF stk2
<1>2. \A i \in 1 .. N + 1 : /\ VarAt(stk2, vr, i) = VarAt(stk, vr, i)
                            /\ FramesAt(stk2, e, i) = FramesAt(stk, e, i)
  BY <1>1 DEF VarAt, FramesAt
<1>3. VarAt(stk2, vr, N + 2) = vr /\ FramesAt(stk2, e, N + 2) = Len(e)
  BY <1>1 DEF VarAt, FramesAt
<1>4. \A i \in 1 .. N : Resets(stk2, i) <=> Resets(stk, i)
  BY <1>1 DEF Resets
<1>5. ~Resets(stk2, N + 1)
  BY <1>1 DEF Resets
<1> QED
  BY <1>1, <1>2, <1>3, <1>4, <1>5 DEF stk2

LEMMA CatchShape ==
  ASSUME NEW val, NEW loc, NEW vst, NEW vr, NEW stk, NEW e, Shape(val, loc, vst, vr, stk, e),
         NEW r \in EntryRecord, r.cont = "catch_followup", r.var = vr, r.frames = Len(e),
         Len(stk) > 0
  PROVE  Shape(val, loc, vst, vr, Append(stk, r), e)
<1> DEFINE stk2 == Append(stk, r)
           N == Len(stk)
<1>0. Types(val, loc, vst, vr, stk, e) /\ Ordered(stk, vr, e) /\ CatchKeeps(stk, vr, e)
      /\ Bottom(vst, vr, stk, e) /\ Defaults(stk, vr, e) /\ Flags(loc, vst) /\ Found(vst, e)
  BY DEF Shape
<1>1. /\ stk2 \in Seq(EntryRecord) /\ Len(stk2) = N + 1 /\ N \in Nat
      /\ \A i \in 1 .. N : stk2[i] = stk[i] /\ (Resets(stk2, i) <=> Resets(stk, i))
      /\ stk2[N + 1] = r /\ ~Resets(stk2, N + 1)
      /\ \A i \in 1 .. N + 1 : /\ VarAt(stk2, vr, i) = VarAt(stk, vr, i)
                               /\ FramesAt(stk2, e, i) = FramesAt(stk, e, i)
      /\ VarAt(stk2, vr, N + 2) = vr /\ FramesAt(stk2, e, N + 2) = Len(e)
  BY CatchAt
<1>2. /\ \A i \in 1 .. N + 1 : /\ VarAt(stk, vr, i) \in Nat /\ VarAt(stk, vr, i) <= vr
                               /\ FramesAt(stk, e, i) \in 1 .. Len(e)
      /\ \A i \in 1 .. N : /\ FramesAt(stk, e, i) = stk[i].frames
                           /\ Resets(stk, i) => stk[i].frames < Len(e)
      /\ VarAt(stk, vr, N + 1) = vr /\ FramesAt(stk, e, N + 1) = Len(e)
      /\ vr \in Nat /\ Len(e) \in Nat \ {0}
  BY <1>0, AtFacts, TypesFacts
<1> HIDE DEF stk2
<1>3. Types(val, loc, vst, vr, stk2, e)
  BY <1>0, <1>1 DEF Types
<1>4. Ordered(stk2, vr, e)
  <2>1. ASSUME NEW i \in 1 .. N + 1 PROVE stk2[i].frames >= 1
    BY SMTT(30), <1>0, <1>1, <1>2 DEF Ordered
  <2>2. ASSUME NEW i \in 1 .. N + 2, NEW j \in 1 .. N + 2, i < j
        PROVE  /\ VarAt(stk2, vr, i) <= VarAt(stk2, vr, j)
               /\ FramesAt(stk2, e, i) <= FramesAt(stk2, e, j)
               /\ Resets(stk2, i) => FramesAt(stk2, e, i) < FramesAt(stk2, e, j)
    <3>1. CASE j = N + 2
      <4>1. i \in 1 .. N + 1
        BY <1>1, <2>2, <3>1
      <4>2. Resets(stk2, i) => FramesAt(stk, e, i) < Len(e)
        <5>1. ASSUME Resets(stk2, i) PROVE i \in 1 .. N /\ Resets(stk, i)
          BY <1>1, <4>1, <5>1
        <5> QED
          BY <1>2, <5>1
      <4> QED
        BY <1>1, <1>2, <3>1, <4>1, <4>2
    <3>2. CASE j # N + 2
      <4>1. i \in 1 .. N /\ i \in 1 .. N + 1 /\ j \in 1 .. N + 1
        BY <1>1, <2>2, <3>2
      <4>2. /\ VarAt(stk, vr, i) <= VarAt(stk, vr, j)
            /\ FramesAt(stk, e, i) <= FramesAt(stk, e, j)
            /\ Resets(stk, i) => FramesAt(stk, e, i) < FramesAt(stk, e, j)
        BY <1>0, <2>2, <4>1 DEF Ordered
      <4> QED
        BY <1>1, <4>1, <4>2
    <3> QED
      BY <3>1, <3>2
  <2> QED
    BY <1>1, <2>1, <2>2 DEF Ordered
<1>5. CatchKeeps(stk2, vr, e)
  <2>1. ASSUME NEW i \in 1 .. N + 1, ~Resets(stk2, i)
        PROVE  /\ VarAt(stk2, vr, i + 1) = stk2[i].var
               /\ CatchTail = FALSE => FramesAt(stk2, e, i + 1) = stk2[i].frames
    <3>1. CASE i = N + 1
      BY <1>1, <3>1
    <3>2. CASE i # N + 1
      <4>1. i \in 1 .. N /\ i + 1 \in 1 .. N + 1
        BY <1>1, <3>2
      <4> QED
        BY <1>0, <1>1, <2>1, <4>1 DEF CatchKeeps
    <3> QED
      BY <3>1, <3>2
  <2> QED
    BY <1>1, <2>1 DEF CatchKeeps
<1>6. Bottom(vst, vr, stk2, e)
  <2>1. 2 \in 1 .. N + 1 /\ 1 \in 1 .. N
    BY <1>1
  <2> QED
    BY <1>0, <1>1, <2>1 DEF Bottom
<1>7. Defaults(stk2, vr, e)
  <2>1. ASSUME NEW i \in 1 .. N + 1, stk2[i].cont = "set_args_continue"
        PROVE  /\ stk2[i].tag \in DOMAIN e[stk2[i].frames]
               /\ stk2[i].vsp <= VarAt(stk2, vr, i + 1)
    <3>1. i \in 1 .. N /\ i + 1 \in 1 .. N + 1
      BY <1>1, <2>1
    <3> QED
      BY <1>0, <1>1, <2>1, <3>1 DEF Defaults
  <2> QED
    BY <1>1, <2>1 DEF Defaults
<1>8. Shape(val, loc, vst, vr, stk2, e)
  BY <1>0, <1>3, <1>4, <1>5, <1>6, <1>7 DEF Shape
<1> QED
  BY <1>8 DEF stk2

\* The entries that do not reset do not matter to what the names mean.
LEMMA SameResets ==
  ASSUME NEW val, NEW vst, NEW vr, NEW stk, NEW e, Meaning(val, vst, vr, stk, e),
         NEW stk2, Len(stk2) \in Nat,
         \A i \in 1 .. Len(stk2) : Resets(stk2, i) =>
             /\ i \in 1 .. Len(stk) /\ Resets(stk, i) /\ stk2[i] = stk[i]
             /\ VarAt(stk2, vr, i + 1) = VarAt(stk, vr, i + 1),
         Len(stk) \in Nat
  PROVE  Meaning(val, vst, vr, stk2, e)
<1> DEFINE N == Len(stk)
<1>1. SameNames(vst, vr, stk2, e)
  <2>1. ASSUME NEW i \in 1 .. Len(stk2), NEW n \in Name \ {ERRACT}, Resets(stk2, i)
        PROVE  /\ Named(vst, n, VarAt(stk2, vr, i + 1), Len(vst))
                      <=> HasVar(e, n, stk2[i].frames, Len(e))
               /\ \A k \in i .. Len(stk2) : Resets(stk2, k) =>
                      (Named(vst, n, VarAt(stk2, vr, i + 1), VarAt(stk2, vr, k + 1))
                          <=> HasVar(e, n, stk2[i].frames, stk2[k].frames))
    <3>1. /\ i \in 1 .. N /\ Resets(stk, i) /\ stk2[i] = stk[i]
          /\ VarAt(stk2, vr, i + 1) = VarAt(stk, vr, i + 1)
      BY <2>1
    <3>2. Named(vst, n, VarAt(stk, vr, i + 1), Len(vst)) <=> HasVar(e, n, stk[i].frames, Len(e))
      BY <3>1 DEF Meaning, SameNames
    <3>3. ASSUME NEW k \in i .. Len(stk2), Resets(stk2, k)
          PROVE  Named(vst, n, VarAt(stk2, vr, i + 1), VarAt(stk2, vr, k + 1))
                     <=> HasVar(e, n, stk2[i].frames, stk2[k].frames)
      <4>1. k \in 1 .. Len(stk2)
        BY <3>1
      <4>2. /\ k \in i .. N /\ Resets(stk, k) /\ stk2[k] = stk[k]
            /\ VarAt(stk2, vr, k + 1) = VarAt(stk, vr, k + 1)
        BY <3>1, <3>3, <4>1
      <4>3. Named(vst, n, VarAt(stk, vr, i + 1), VarAt(stk, vr, k + 1))
                <=> HasVar(e, n, stk[i].frames, stk[k].frames)
        BY <3>1, <4>2 DEF Meaning, SameNames
      <4> QED
        BY <3>1, <4>2, <4>3
    <3> QED
      BY <3>1, <3>2, <3>3
  <2> QED
    BY <2>1 DEF SameNames
<1>2. Restores(vst, vr, stk2, e)
  <2>1. ASSUME NEW i \in 1 .. Len(stk2), NEW n \in Name \ {ERRACT}, Resets(stk2, i),
               NEW p \in 1 .. Len(vst), NEW j \in 1 .. Len(e),
               First(vst, n, VarAt(stk2, vr, i + 1), p), Nearest(e, n, stk2[i].frames, j)
        PROVE  vst[p].old = e[j][n]
    <3>1. /\ i \in 1 .. N /\ Resets(stk, i)
          /\ First(vst, n, VarAt(stk, vr, i + 1), p) /\ Nearest(e, n, stk[i].frames, j)
      BY <2>1
    <3> QED
      BY <3>1 DEF Meaning, Restores
  <2> QED
    BY <2>1 DEF Restores
<1> QED
  BY <1>1, <1>2 DEF Meaning

LEMMA CatchMeaning ==
  ASSUME NEW val, NEW loc, NEW vst, NEW vr, NEW stk, NEW e, Shape(val, loc, vst, vr, stk, e),
         Meaning(val, vst, vr, stk, e),
         NEW r \in EntryRecord, r.cont = "catch_followup", r.var = vr, r.frames = Len(e)
  PROVE  Meaning(val, vst, vr, Append(stk, r), e)
<1> DEFINE stk2 == Append(stk, r)
           N == Len(stk)
<1>1. /\ Len(stk2) = N + 1 /\ N \in Nat
      /\ \A i \in 1 .. N : stk2[i] = stk[i] /\ (Resets(stk2, i) <=> Resets(stk, i))
      /\ ~Resets(stk2, N + 1)
      /\ \A i \in 1 .. N + 1 : VarAt(stk2, vr, i) = VarAt(stk, vr, i)
  BY CatchAt
<1> HIDE DEF stk2
<1>2. ASSUME NEW i \in 1 .. Len(stk2), Resets(stk2, i)
      PROVE  /\ i \in 1 .. N /\ Resets(stk, i) /\ stk2[i] = stk[i]
             /\ VarAt(stk2, vr, i + 1) = VarAt(stk, vr, i + 1)
  <2>1. i \in 1 .. N /\ i + 1 \in 1 .. N + 1
    BY <1>1, <1>2
  <2> QED
    BY <1>1, <1>2, <2>1
<1>3. Meaning(val, vst, vr, stk2, e)
  BY <1>1, <1>2, SameResets
<1> QED
  BY <1>3 DEF stk2

\* catch_followup: the frames are as they were.
LEMMA CatchEndMeaning ==
  ASSUME NEW val, NEW loc, NEW vst, NEW vr, NEW stk, NEW e, Shape(val, loc, vst, vr, stk, e),
         Meaning(val, vst, vr, stk, e),
         Len(stk) > 0, ~Resets(stk, Len(stk)), CatchTail = FALSE
  PROVE  Meaning(val, vst, vr, SubSeq(stk, 1, Len(stk) - 1), SubSeq(e, 1, stk[Len(stk)].frames))
<1> DEFINE stk2 == SubSeq(stk, 1, Len(stk) - 1)
           e2 == SubSeq(e, 1, stk[Len(stk)].frames)
           N == Len(stk)
<1>0. Types(val, loc, vst, vr, stk, e) /\ Ordered(stk, vr, e) /\ CatchKeeps(stk, vr, e)
  BY DEF Shape
<1>1. N \in Nat /\ N > 0 /\ N \in 1 .. N /\ Len(e) \in Nat /\ e \in Seq(Frame)
  BY <1>0, TypesFacts DEF Types
<1>2. VarAt(stk, vr, N + 1) = vr /\ FramesAt(stk, e, N + 1) = Len(e)
  BY <1>0, AtFacts
<1>3. stk[N].var = vr /\ stk[N].frames = Len(e)
  BY <1>0, <1>1, <1>2 DEF CatchKeeps
<1>4. e2 = e
  BY <1>1, <1>3
<1>5. /\ Len(stk2) = N - 1 /\ Len(stk2) \in Nat
      /\ \A i \in 1 .. N - 1 : stk2[i] = stk[i] /\ (Resets(stk2, i) <=> Resets(stk, i))
      /\ \A i \in 1 .. N : VarAt(stk2, stk[N].var, i) = VarAt(stk, vr, i)
  BY PopAt
<1> HIDE DEF stk2, e2
<1>6. ASSUME NEW i \in 1 .. Len(stk2), Resets(stk2, i)
      PROVE  /\ i \in 1 .. N /\ Resets(stk, i) /\ stk2[i] = stk[i]
             /\ VarAt(stk2, vr, i + 1) = VarAt(stk, vr, i + 1)
  <2>1. i \in 1 .. N - 1 /\ i \in 1 .. N /\ i + 1 \in 1 .. N
    BY <1>1, <1>5, <1>6
  <2> QED
    BY <1>3, <1>5, <1>6, <2>1
<1>7. Meaning(val, vst, vr, stk2, e)
  BY <1>1, <1>5, <1>6, SameResets
<1>8. Meaning(val, vst, vr, stk2, e2)
  BY <1>4, <1>7
<1> QED
  BY <1>8 DEF stk2, e2

-----------------------------------------------------------------------------
(* Values change. *)

\* What Meaning needs of the shape.
LEMMA ResetFacts ==
  ASSUME NEW val, NEW loc, NEW vst, NEW vr, NEW stk, NEW e, Shape(val, loc, vst, vr, stk, e)
  PROVE  /\ Len(stk) \in Nat /\ Len(vst) \in Nat /\ Len(e) \in Nat \ {0} /\ vr \in Nat
         /\ vr <= Len(vst)
         /\ \A i \in 1 .. Len(stk) : /\ VarAt(stk, vr, i + 1) \in Nat
                                     /\ VarAt(stk, vr, i + 1) <= vr
                                     /\ stk[i].frames \in Nat
                                     /\ Resets(stk, i) => stk[i].frames < Len(e)
<1>0. Types(val, loc, vst, vr, stk, e) /\ Ordered(stk, vr, e)
  BY DEF Shape
<1>1. /\ Len(stk) \in Nat /\ Len(vst) \in Nat /\ Len(e) \in Nat \ {0} /\ vr \in Nat
      /\ vr <= Len(vst) /\ \A i \in 1 .. Len(stk) : stk[i].frames \in Nat
  BY <1>0, TypesFacts
<1>2. ASSUME NEW i \in 1 .. Len(stk)
      PROVE  /\ VarAt(stk, vr, i + 1) \in Nat
             /\ VarAt(stk, vr, i + 1) <= vr
             /\ Resets(stk, i) => stk[i].frames < Len(e)
  <2>1. i + 1 \in 1 .. Len(stk) + 1
    BY <1>1
  <2> QED
    BY <1>0, <2>1, AtFacts
<1> QED
  BY <1>1, <1>2

\* A new binding in the frame on top; what it hides was pushed aside.
BoundOnTop(n, v, val, loc, vst, vr, e, val2, vst2, e2) ==
    /\ \/ vst2 = vst /\ Named(vst, n, vr, Len(vst))
       \/ vst2 = Append(vst, [name |-> n, old |-> val[n], localsave |-> loc[n]])
    /\ val2[n] = v
    /\ \A m \in Name : m # n => val2[m] = val[m]
    /\ Len(e2) = Len(e)
    /\ \A j \in 1 .. Len(e) - 1 : e2[j] = e[j]
    /\ e2[Len(e)] = With(e[Len(e)], n, v)

LEMMA BindMeaning ==
  ASSUME NEW val, NEW loc, NEW vst, NEW vr, NEW stk, NEW e, Shape(val, loc, vst, vr, stk, e),
         Meaning(val, vst, vr, stk, e),
         NEW n \in Name, NEW v \in Thing, NEW vst2, NEW val2, NEW e2,
         BoundOnTop(n, v, val, loc, vst, vr, e, val2, vst2, e2)
  PROVE  Meaning(val2, vst2, vr, stk, e2)
<1> DEFINE L == Len(vst)
           N == Len(stk)
<1>0. Types(val, loc, vst, vr, stk, e)
      /\ SameNames(vst, vr, stk, e) /\ Restores(vst, vr, stk, e) /\ Current(val, e)
  BY DEF Shape, Meaning
<1>1. /\ N \in Nat /\ L \in Nat /\ Len(e) \in Nat \ {0} /\ vr \in Nat /\ vr <= L
      /\ \A i \in 1 .. N : /\ VarAt(stk, vr, i + 1) \in Nat /\ VarAt(stk, vr, i + 1) <= vr
                           /\ stk[i].frames \in Nat
                           /\ Resets(stk, i) => stk[i].frames < Len(e)
  BY ResetFacts
<1>2. /\ DOMAIN e2[Len(e)] = DOMAIN e[Len(e)] \cup {n}
      /\ Len(e2) = Len(e) /\ \A j \in 1 .. Len(e) - 1 : e2[j] = e[j]
      /\ val2[n] = v /\ \A m \in Name : m # n => val2[m] = val[m]
      /\ e2[Len(e)][n] = v
      /\ \A m \in DOMAIN e[Len(e)] : m # n => e2[Len(e)][m] = e[Len(e)][m]
  <2>1. e[Len(e)] \in Frame
    BY <1>0, <1>1, TypesFacts
  <2> DEFINE w == With(e[Len(e)], n, v)
  <2>2. /\ DOMAIN w = DOMAIN e[Len(e)] \cup {n}
        /\ w[n] = v
        /\ \A m \in DOMAIN e[Len(e)] : m # n => w[m] = e[Len(e)][m]
    BY <2>1, WithType
  <2>3. e2[Len(e)] = w
    BY DEF BoundOnTop
  <2> HIDE DEF w
  <2> QED
    BY <2>2, <2>3 DEF BoundOnTop
<1>3. /\ Len(vst2) \in Nat /\ L <= Len(vst2) /\ Len(vst2) <= L + 1
      /\ \A p \in 1 .. L : vst2[p] = vst[p]
      /\ Named(vst2, n, vr, Len(vst2))
      /\ \A p \in 1 .. Len(vst2) : p \notin 1 .. L => vst2[p].name = n /\ vst2[p].old = val[n]
  <2>1. CASE vst2 = vst /\ Named(vst, n, vr, L)
    BY <1>1, <2>1
  <2>2. CASE vst2 = Append(vst, [name |-> n, old |-> val[n], localsave |-> loc[n]])
    <3> DEFINE b == [name |-> n, old |-> val[n], localsave |-> loc[n]]
    <3>1. b \in Binding
      BY <1>0 DEF Types, Binding
    <3>2. b.name = n /\ b.old = val[n]
      OBVIOUS
    <3>3. vst2 = Append(vst, b)
      BY <2>2
    <3> HIDE DEF b
    <3>4. vst \in Seq(Binding)
      BY <1>0 DEF Types
    <3>5. Len(vst2) = L + 1 /\ vst2[L + 1] = b /\ \A p \in 1 .. L : vst2[p] = vst[p]
      BY <3>1, <3>3, <3>4, Appended
    <3>6. Named(vst2, n, vr, Len(vst2))
      BY <1>1, <3>2, <3>5 DEF Named
    <3> QED
      BY <1>1, <3>2, <3>5, <3>6
  <2> QED
    BY <2>1, <2>2 DEF BoundOnTop
<1>4. ASSUME NEW m, NEW a \in Nat, NEW b \in Nat
      PROVE  /\ b <= L => (Named(vst2, m, a, b) <=> Named(vst, m, a, b))
             /\ b < Len(e) => (HasVar(e2, m, a, b) <=> HasVar(e, m, a, b))
             /\ m # n => (Named(vst2, m, a, Len(vst2)) <=> Named(vst, m, a, L))
             /\ m # n => (HasVar(e2, m, a, Len(e)) <=> HasVar(e, m, a, Len(e)))
  <2>1. ASSUME b <= L PROVE Named(vst2, m, a, b) <=> Named(vst, m, a, b)
    <3>1. \A p \in 1 .. b : vst2[p] = vst[p]
      BY <1>1, <1>3, <2>1
    <3> QED
      BY <3>1, NamedSame
  <2>2. ASSUME b < Len(e)
        PROVE  HasVar(e2, m, a, b) <=> HasVar(e, m, a, b)
    <3>1. \A j \in 1 .. b : DOMAIN e2[j] = DOMAIN e[j]
      BY <1>1, <1>2, <2>2
    <3> QED
      BY <3>1, HasVarSame
  <2>3. ASSUME m # n PROVE Named(vst2, m, a, Len(vst2)) <=> Named(vst, m, a, L)
    <3>1. \A p \in a + 1 .. Len(vst2) : vst2[p].name = m => p \in a + 1 .. L /\ vst[p].name = m
      BY <1>1, <1>3, <2>3
    <3>2. \A p \in a + 1 .. L : p \in a + 1 .. Len(vst2) /\ vst2[p] = vst[p]
      BY <1>1, <1>3
    <3> QED
      BY <3>1, <3>2 DEF Named
  <2>4. ASSUME m # n PROVE HasVar(e2, m, a, Len(e)) <=> HasVar(e, m, a, Len(e))
    <3>1. \A j \in a + 1 .. Len(e) : m \in DOMAIN e2[j] <=> m \in DOMAIN e[j]
      BY <1>1, <1>2, <2>4
    <3> QED
      BY <3>1 DEF HasVar
  <2> QED
    BY <2>1, <2>2, <2>3, <2>4
<1>5. ASSUME NEW m, NEW b \in Nat, b < Len(e), NEW j
      PROVE  Nearest(e2, m, b, j) <=> Nearest(e, m, b, j)
  <2>1. \A i \in 1 .. b : DOMAIN e2[i] = DOMAIN e[i]
    BY <1>1, <1>2, <1>5
  <2> QED
    BY <2>1, NearestSame
<1>6. ASSUME NEW m, m # n, NEW i \in 1 .. Len(e) PROVE m \in DOMAIN e2[i] <=> m \in DOMAIN e[i]
  <2>1. CASE i = Len(e)
    BY <1>2, <1>6, <2>1
  <2>2. CASE i # Len(e)
    <3>1. i \in 1 .. Len(e) - 1
      BY <1>1, <2>2
    <3> QED
      BY <1>2, <3>1
  <2> QED
    BY <2>1, <2>2
<1>7. SameNames(vst2, vr, stk, e2)
  <2>1. ASSUME NEW i \in 1 .. N, NEW m \in Name \ {ERRACT}, Resets(stk, i)
        PROVE  /\ Named(vst2, m, VarAt(stk, vr, i + 1), Len(vst2))
                      <=> HasVar(e2, m, stk[i].frames, Len(e2))
               /\ \A k \in i .. N : Resets(stk, k) =>
                      (Named(vst2, m, VarAt(stk, vr, i + 1), VarAt(stk, vr, k + 1))
                          <=> HasVar(e2, m, stk[i].frames, stk[k].frames))
    <3> DEFINE a == VarAt(stk, vr, i + 1)
               f == stk[i].frames
    <3>1. a \in Nat /\ a <= vr /\ f \in Nat /\ f < Len(e)
      BY <1>1, <2>1
    <3>2. Named(vst2, m, a, Len(vst2)) <=> HasVar(e2, m, f, Len(e2))
      <4> HIDE DEF a, f
      <4>1. CASE m = n
        <5>1. Named(vst2, n, a, Len(vst2))
          BY <1>1, <1>3, <3>1 DEF Named
        <5>2. HasVar(e2, n, f, Len(e))
          BY <1>1, <1>2, <3>1 DEF HasVar
        <5> QED
          BY <1>2, <4>1, <5>1, <5>2
      <4>2. CASE m # n
        <5>1. Named(vst, m, a, L) <=> HasVar(e, m, f, Len(e))
          BY <1>0, <2>1 DEF SameNames, a, f
        <5> QED
          BY <1>1, <1>2, <1>4, <3>1, <4>2, <5>1
      <4> QED
        BY <4>1, <4>2
    <3>3. ASSUME NEW k \in i .. N, Resets(stk, k)
          PROVE  Named(vst2, m, a, VarAt(stk, vr, k + 1)) <=> HasVar(e2, m, f, stk[k].frames)
      <4> HIDE DEF a, f
      <4>3. k \in 1 .. N
        BY <1>1
      <4>4. VarAt(stk, vr, k + 1) \in Nat /\ VarAt(stk, vr, k + 1) <= vr
            /\ stk[k].frames \in Nat /\ stk[k].frames < Len(e)
        BY <1>1, <3>3, <4>3
      <4>1. /\ k \in 1 .. N
            /\ VarAt(stk, vr, k + 1) \in Nat /\ VarAt(stk, vr, k + 1) <= L
            /\ stk[k].frames \in Nat /\ stk[k].frames < Len(e)
        BY <1>1, <4>3, <4>4
      <4>2. Named(vst, m, a, VarAt(stk, vr, k + 1)) <=> HasVar(e, m, f, stk[k].frames)
        BY <1>0, <2>1, <3>3 DEF SameNames, a, f
      <4> QED
        BY <1>4, <3>1, <4>1, <4>2
    <3> QED
      BY <3>2, <3>3
  <2> QED
    BY <2>1 DEF SameNames
<1>8. Restores(vst2, vr, stk, e2)
  <2>1. ASSUME NEW i \in 1 .. N, NEW m \in Name \ {ERRACT}, Resets(stk, i),
               NEW p \in 1 .. Len(vst2), NEW j \in 1 .. Len(e2),
               First(vst2, m, VarAt(stk, vr, i + 1), p), Nearest(e2, m, stk[i].frames, j)
        PROVE  vst2[p].old = e2[j][m]
    <3> DEFINE a == VarAt(stk, vr, i + 1)
               f == stk[i].frames
    <3>1. a \in Nat /\ a <= vr /\ f \in Nat /\ f < Len(e)
      BY <1>1, <2>1
    <3>2. Nearest(e, m, f, j)
      BY <1>5, <2>1, <3>1
    <3>3. j \in 1 .. Len(e) - 1 /\ j \in 1 .. Len(e) /\ e2[j] = e[j]
      BY <1>1, <1>2, <3>1, <3>2 DEF Nearest
    <3>4. CASE p \in 1 .. L
      <4>1. First(vst, m, a, p)
        <5> HIDE DEF a
        <5>1. p \in a + 1 .. L /\ vst[p] = vst2[p] /\ vst[p].name = m
          BY <1>1, <1>3, <2>1, <3>1, <3>4 DEF First, a
        <5>2. ASSUME NEW q \in a + 1 .. L, vst[q].name = m PROVE p <= q
          <6>1. q \in 1 .. L /\ q \in a + 1 .. Len(vst2) /\ vst2[q].name = m
            BY <1>1, <1>3, <3>1, <5>2
          <6> QED
            BY <2>1, <6>1 DEF First, a
        <5> QED
          BY <5>1, <5>2 DEF First
      <4>2. vst[p].old = e[j][m]
        BY <1>0, <2>1, <3>2, <3>3, <3>4, <4>1 DEF Restores
      <4> QED
        BY <1>3, <3>3, <3>4, <4>2
    <3>5. CASE p \notin 1 .. L
      <4>1. m = n /\ vst2[p].old = val[n]
        BY <1>3, <2>1, <3>5 DEF First
      <4>2. ~Named(vst, m, a, L)
        <5>1. \A q \in a + 1 .. Len(vst2) : vst2[q].name = m => p <= q
          BY <2>1 DEF First
        <5>2. ASSUME NEW q \in a + 1 .. L, vst[q].name = m PROVE FALSE
          <6>1. q \in 1 .. L /\ q \in a + 1 .. Len(vst2) /\ vst2[q].name = m
            BY SMTT(30), <1>1, <1>3, <3>1, <5>2
          <6> QED
            BY <1>1, <1>3, <3>5, <5>1, <6>1
        <5> QED
          BY <5>2 DEF Named
      <4>3. ~HasVar(e, m, f, Len(e))
        BY <1>0, <2>1, <4>2 DEF SameNames
      <4>4. Nearest(e, m, Len(e), j)
        BY <1>1, <3>1, <3>2, <4>3, NearestBelow
      <4>5. val[m] = e[j][m]
        BY <1>0, <2>1, <3>3, <4>4 DEF Current
      <4> QED
        BY <3>3, <4>1, <4>5
    <3> QED
      BY <3>4, <3>5
  <2> QED
    BY <2>1 DEF Restores
<1>9. Current(val2, e2)
  <2>1. ASSUME NEW m \in Name \ {ERRACT}, NEW j \in 1 .. Len(e2), Nearest(e2, m, Len(e2), j)
        PROVE  val2[m] = e2[j][m]
    <3>1. CASE m = n
      <4>1. j = Len(e)
        BY <1>1, <1>2, <2>1, <3>1 DEF Nearest
      <4> QED
        BY <1>2, <3>1, <4>1
    <3>2. CASE m # n
      <4>1. \A i \in 1 .. Len(e) : m \in DOMAIN e2[i] <=> m \in DOMAIN e[i]
        BY <1>6, <3>2
      <4>2. Nearest(e, m, Len(e), j) /\ j \in 1 .. Len(e) /\ m \in DOMAIN e[j]
        BY <1>2, <2>1, <4>1 DEF Nearest
      <4>3. val[m] = e[j][m]
        BY <1>0, <4>2 DEF Current
      <4>4. e2[j][m] = e[j][m]
        <5>1. j = Len(e) \/ j \in 1 .. Len(e) - 1
          BY <1>1, <4>2
        <5> QED
          BY <1>2, <3>2, <4>2, <5>1
      <4> QED
        BY <1>2, <3>2, <4>3, <4>4
    <3> QED
      BY <3>1, <3>2
  <2> QED
    BY <2>1 DEF Current
<1> QED
  BY <1>7, <1>8, <1>9 DEF Meaning

\* Assignment to the nearest variables of the names in S.
Assigned(S, f, val, e, val2, e2) ==
    /\ \A m \in Name : val2[m] = IF m \in S THEN f[m] ELSE val[m]
    /\ Len(e2) = Len(e)
    /\ \A j \in 1 .. Len(e) : DOMAIN e2[j] = DOMAIN e[j]
    /\ \A j \in 1 .. Len(e) : \A m \in DOMAIN e[j] :
           e2[j][m] = IF m \in S /\ Nearest(e, m, Len(e), j) THEN f[m] ELSE e[j][m]

LEMMA AssignMeaning ==
  ASSUME NEW val, NEW loc, NEW vst, NEW vr, NEW stk, NEW e, Shape(val, loc, vst, vr, stk, e),
         Meaning(val, vst, vr, stk, e),
         NEW S, NEW f, NEW val2, NEW e2, Assigned(S, f, val, e, val2, e2)
  PROVE  Meaning(val2, vst, vr, stk, e2)
<1> DEFINE L == Len(vst)
           N == Len(stk)
<1>0. SameNames(vst, vr, stk, e) /\ Restores(vst, vr, stk, e) /\ Current(val, e)
  BY DEF Meaning
<1>1. /\ N \in Nat /\ L \in Nat /\ Len(e) \in Nat \ {0} /\ Len(e2) = Len(e)
      /\ \A i \in 1 .. N : /\ stk[i].frames \in Nat
                           /\ Resets(stk, i) => stk[i].frames < Len(e)
                           /\ VarAt(stk, vr, i + 1) \in Nat
  BY ResetFacts DEF Assigned
<1>2. ASSUME NEW m, NEW a \in Nat, NEW b \in Nat, b <= Len(e)
      PROVE  HasVar(e2, m, a, b) <=> HasVar(e, m, a, b)
  <2>1. \A j \in 1 .. b : DOMAIN e2[j] = DOMAIN e[j]
    BY <1>1, <1>2 DEF Assigned
  <2> QED
    BY <2>1, HasVarSame
<1>3. ASSUME NEW m, NEW b \in Nat, b <= Len(e), NEW j
      PROVE  Nearest(e2, m, b, j) <=> Nearest(e, m, b, j)
  <2>1. \A i \in 1 .. b : DOMAIN e2[i] = DOMAIN e[i]
    BY <1>1, <1>3 DEF Assigned
  <2> QED
    BY <2>1, NearestSame
<1>4. Len(e) \in Nat /\ Len(e) <= Len(e) /\ Len(e2) = Len(e)
  BY <1>1
<1>5. SameNames(vst, vr, stk, e2)
  <2>1. ASSUME NEW i \in 1 .. N, NEW m \in Name \ {ERRACT}, Resets(stk, i)
        PROVE  /\ Named(vst, m, VarAt(stk, vr, i + 1), L) <=> HasVar(e2, m, stk[i].frames, Len(e2))
               /\ \A k \in i .. N : Resets(stk, k) =>
                      (Named(vst, m, VarAt(stk, vr, i + 1), VarAt(stk, vr, k + 1))
                          <=> HasVar(e2, m, stk[i].frames, stk[k].frames))
    <3>1. HasVar(e2, m, stk[i].frames, Len(e2)) <=> HasVar(e, m, stk[i].frames, Len(e))
      BY <1>1, <1>2, <1>4
    <3>2. ASSUME NEW k \in i .. N, Resets(stk, k)
          PROVE  HasVar(e2, m, stk[i].frames, stk[k].frames)
                     <=> HasVar(e, m, stk[i].frames, stk[k].frames)
      <4>1. k \in 1 .. N
        BY <1>1
      <4>2. stk[k].frames <= Len(e)
        BY <1>1, <3>2, <4>1
      <4> QED
        BY <1>1, <1>2, <4>1, <4>2
    <3> QED
      BY <1>0, <2>1, <3>1, <3>2 DEF SameNames
  <2> QED
    BY <2>1 DEF SameNames
<1>6. Restores(vst, vr, stk, e2)
  <2>1. ASSUME NEW i \in 1 .. N, NEW m \in Name \ {ERRACT}, Resets(stk, i),
               NEW p \in 1 .. L, NEW j \in 1 .. Len(e2),
               First(vst, m, VarAt(stk, vr, i + 1), p), Nearest(e2, m, stk[i].frames, j)
        PROVE  vst[p].old = e2[j][m]
    <3>1. stk[i].frames \in Nat /\ stk[i].frames < Len(e) /\ VarAt(stk, vr, i + 1) \in Nat
      BY <1>1, <2>1
    <3>2. Nearest(e, m, stk[i].frames, j) /\ j \in 1 .. Len(e) /\ m \in DOMAIN e[j] /\ j <= stk[i].frames
      <4>1. stk[i].frames <= Len(e)
        BY <1>1, <3>1
      <4>2. Nearest(e, m, stk[i].frames, j)
        BY <1>3, <2>1, <3>1, <4>1
      <4> QED
        BY <1>1, <3>1, <4>2 DEF Nearest
    <3>3. vst[p].old = e[j][m]
      BY <1>0, <2>1, <3>2 DEF Restores
    <3>4. HasVar(e, m, stk[i].frames, Len(e))
      <4>1. Named(vst, m, VarAt(stk, vr, i + 1), L)
        BY <2>1 DEF First, Named
      <4> QED
        BY <1>0, <2>1, <4>1 DEF SameNames
    <3>5. ~Nearest(e, m, Len(e), j)
      <4>1. ASSUME Nearest(e, m, Len(e), j) PROVE j > stk[i].frames
        BY <1>1, <3>1, <3>4, <4>1, NearestAbove
      <4> QED
        BY <3>1, <3>2, <4>1
    <3> QED
      BY <3>2, <3>3, <3>5 DEF Assigned
  <2> QED
    BY <2>1 DEF Restores
<1>7. Current(val2, e2)
  <2>1. ASSUME NEW m \in Name \ {ERRACT}, NEW j \in 1 .. Len(e2), Nearest(e2, m, Len(e2), j)
        PROVE  val2[m] = e2[j][m]
    <3>1. Nearest(e, m, Len(e), j)
      BY <1>3, <1>4, <2>1
    <3>2. j \in 1 .. Len(e) /\ m \in DOMAIN e[j]
      BY <3>1 DEF Nearest
    <3>3. val[m] = e[j][m]
      BY <1>0, <3>1, <3>2 DEF Current
    <3> QED
      BY <3>1, <3>2, <3>3 DEF Assigned
  <2> QED
    BY <2>1 DEF Current
<1> QED
  BY <1>5, <1>6, <1>7 DEF Meaning

-----------------------------------------------------------------------------
(* ERRACT, which is not among the names the environment is compared for. *)

ButErract(val, vst, e, val2, vst2, e2) ==
    /\ \A m \in Name \ {ERRACT} : val2[m] = val[m]
    /\ Len(vst2) \in Nat /\ Len(vst) <= Len(vst2)
    /\ \A p \in 1 .. Len(vst) : vst2[p] = vst[p]
    /\ \A p \in 1 .. Len(vst2) : p \notin 1 .. Len(vst) => vst2[p].name = ERRACT
    /\ Len(e2) = Len(e)
    /\ \A j \in 1 .. Len(e), m \in Name \ {ERRACT} :
           /\ m \in DOMAIN e2[j] <=> m \in DOMAIN e[j]
           /\ m \in DOMAIN e[j] => e2[j][m] = e[j][m]

LEMMA ErractMeaning ==
  ASSUME NEW val, NEW loc, NEW vst, NEW vr, NEW stk, NEW e, Shape(val, loc, vst, vr, stk, e),
         Meaning(val, vst, vr, stk, e),
         NEW val2, NEW vst2, NEW e2, ButErract(val, vst, e, val2, vst2, e2)
  PROVE  Meaning(val2, vst2, vr, stk, e2)
<1> DEFINE L == Len(vst)
           N == Len(stk)
<1>0. SameNames(vst, vr, stk, e) /\ Restores(vst, vr, stk, e) /\ Current(val, e)
  BY DEF Meaning
<1>1. /\ N \in Nat /\ L \in Nat /\ Len(e) \in Nat \ {0} /\ Len(e2) = Len(e) /\ vr <= L
      /\ \A i \in 1 .. N : /\ stk[i].frames \in Nat
                           /\ Resets(stk, i) => stk[i].frames < Len(e)
                           /\ VarAt(stk, vr, i + 1) \in Nat
                           /\ VarAt(stk, vr, i + 1) <= vr
                           /\ vr \in Nat
  BY ResetFacts DEF ButErract
<1>2. ASSUME NEW m \in Name \ {ERRACT}, NEW a \in Nat, NEW b \in Nat, b <= Len(e)
      PROVE  HasVar(e2, m, a, b) <=> HasVar(e, m, a, b)
  <2>1. \A j \in a + 1 .. b : j \in 1 .. Len(e)
    BY <1>1, <1>2
  <2>2. \A j \in a + 1 .. b : m \in DOMAIN e2[j] <=> m \in DOMAIN e[j]
    BY <2>1 DEF ButErract
  <2> QED
    BY <2>2 DEF HasVar
<1>3. ASSUME NEW m \in Name \ {ERRACT}, NEW b \in Nat, b <= Len(e), NEW j
      PROVE  Nearest(e2, m, b, j) <=> Nearest(e, m, b, j)
  <2>1. \A i \in 1 .. b : i \in 1 .. Len(e)
    BY <1>1, <1>3
  <2>2. \A i \in 1 .. b : m \in DOMAIN e2[i] <=> m \in DOMAIN e[i]
    BY <2>1 DEF ButErract
  <2> QED
    BY <2>2 DEF Nearest
<1>4. ASSUME NEW m \in Name \ {ERRACT}, NEW a \in Nat, NEW b \in Nat, b <= L
      PROVE  Named(vst2, m, a, b) <=> Named(vst, m, a, b)
  <2>1. \A p \in 1 .. b : vst2[p] = vst[p]
    BY <1>1, <1>4 DEF ButErract
  <2> QED
    BY <2>1, NamedSame
<1>5. ASSUME NEW m \in Name \ {ERRACT}, NEW a \in Nat
      PROVE  /\ Named(vst2, m, a, Len(vst2)) <=> Named(vst, m, a, L)
             /\ \A p : First(vst2, m, a, p) => First(vst, m, a, p)
  <2>1. \A p \in a + 1 .. Len(vst2) : vst2[p].name = m => p \in a + 1 .. L /\ vst2[p] = vst[p]
    BY <1>1 DEF ButErract
  <2>2. \A p \in a + 1 .. L : p \in a + 1 .. Len(vst2) /\ vst2[p] = vst[p]
    BY <1>1 DEF ButErract
  <2>3. Named(vst2, m, a, Len(vst2)) <=> Named(vst, m, a, L)
    BY <2>1, <2>2 DEF Named
  <2>4. ASSUME NEW p, First(vst2, m, a, p) PROVE First(vst, m, a, p)
    BY <2>1, <2>2, <2>4 DEF First
  <2> QED
    BY <2>3, <2>4
<1>6. Len(e) \in Nat /\ Len(e) <= Len(e)
  BY <1>1
<1>7. SameNames(vst2, vr, stk, e2)
  <2>1. ASSUME NEW i \in 1 .. N, NEW m \in Name \ {ERRACT}, Resets(stk, i)
        PROVE  /\ Named(vst2, m, VarAt(stk, vr, i + 1), Len(vst2))
                      <=> HasVar(e2, m, stk[i].frames, Len(e2))
               /\ \A k \in i .. N : Resets(stk, k) =>
                      (Named(vst2, m, VarAt(stk, vr, i + 1), VarAt(stk, vr, k + 1))
                          <=> HasVar(e2, m, stk[i].frames, stk[k].frames))
    <3>1. stk[i].frames \in Nat /\ VarAt(stk, vr, i + 1) \in Nat
      BY <1>1
    <3>2. Named(vst, m, VarAt(stk, vr, i + 1), L) <=> HasVar(e, m, stk[i].frames, Len(e))
      BY <1>0, <2>1 DEF SameNames
    <3>3. Named(vst2, m, VarAt(stk, vr, i + 1), Len(vst2)) <=> HasVar(e2, m, stk[i].frames, Len(e2))
      <4>1. HasVar(e2, m, stk[i].frames, Len(e)) <=> HasVar(e, m, stk[i].frames, Len(e))
        BY <1>2, <1>6, <3>1
      <4>2. Named(vst2, m, VarAt(stk, vr, i + 1), Len(vst2)) <=> Named(vst, m, VarAt(stk, vr, i + 1), L)
        BY <1>5, <3>1
      <4> QED
        BY <1>1, <3>2, <4>1, <4>2
    <3>4. ASSUME NEW k \in i .. N, Resets(stk, k)
          PROVE  Named(vst2, m, VarAt(stk, vr, i + 1), VarAt(stk, vr, k + 1))
                     <=> HasVar(e2, m, stk[i].frames, stk[k].frames)
      <4>1. k \in 1 .. N
        BY <1>1
      <4>2. stk[k].frames \in Nat /\ stk[k].frames <= Len(e)
            /\ VarAt(stk, vr, k + 1) \in Nat /\ VarAt(stk, vr, k + 1) <= L
        BY <1>1, <3>4, <4>1
      <4>3. Named(vst, m, VarAt(stk, vr, i + 1), VarAt(stk, vr, k + 1))
                <=> HasVar(e, m, stk[i].frames, stk[k].frames)
        BY <1>0, <2>1, <3>4 DEF SameNames
      <4>4. HasVar(e2, m, stk[i].frames, stk[k].frames) <=> HasVar(e, m, stk[i].frames, stk[k].frames)
        BY <1>2, <3>1, <4>2
      <4>5. Named(vst2, m, VarAt(stk, vr, i + 1), VarAt(stk, vr, k + 1))
                <=> Named(vst, m, VarAt(stk, vr, i + 1), VarAt(stk, vr, k + 1))
        BY <1>4, <3>1, <4>2
      <4> QED
        BY <4>3, <4>4, <4>5
    <3> QED
      BY <3>3, <3>4
  <2> QED
    BY <2>1 DEF SameNames
<1>8. Restores(vst2, vr, stk, e2)
  <2>1. ASSUME NEW i \in 1 .. N, NEW m \in Name \ {ERRACT}, Resets(stk, i),
               NEW p \in 1 .. Len(vst2), NEW j \in 1 .. Len(e2),
               First(vst2, m, VarAt(stk, vr, i + 1), p), Nearest(e2, m, stk[i].frames, j)
        PROVE  vst2[p].old = e2[j][m]
    <3>1. stk[i].frames \in Nat /\ stk[i].frames <= Len(e) /\ VarAt(stk, vr, i + 1) \in Nat
      BY <1>1, <2>1
    <3>2. Nearest(e, m, stk[i].frames, j)
      BY <1>3, <2>1, <3>1
    <3>3. First(vst, m, VarAt(stk, vr, i + 1), p)
      BY <1>5, <2>1, <3>1
    <3>4. p \in 1 .. L /\ j \in 1 .. Len(e) /\ m \in DOMAIN e[j]
      BY <1>1, <3>1, <3>2, <3>3 DEF First, Nearest
    <3>5. vst[p].old = e[j][m]
      BY <1>0, <2>1, <3>2, <3>3, <3>4 DEF Restores
    <3> QED
      BY <3>4, <3>5 DEF ButErract
  <2> QED
    BY <2>1 DEF Restores
<1>9. Current(val2, e2)
  <2>1. ASSUME NEW m \in Name \ {ERRACT}, NEW j \in 1 .. Len(e2), Nearest(e2, m, Len(e2), j)
        PROVE  val2[m] = e2[j][m]
    <3>1. Nearest(e, m, Len(e), j)
      BY <1>1, <1>3, <1>6, <2>1
    <3>2. j \in 1 .. Len(e) /\ m \in DOMAIN e[j]
      BY <3>1 DEF Nearest
    <3>3. val[m] = e[j][m]
      BY <1>0, <3>1, <3>2 DEF Current
    <3> QED
      BY <3>2, <3>3 DEF ButErract
  <2> QED
    BY <2>1 DEF Current
<1> QED
  BY <1>7, <1>8, <1>9 DEF Meaning

-----------------------------------------------------------------------------
(* Both parts together, for each thing an action does. *)

LEMMA EnterSound ==
  ASSUME NEW val, NEW loc, NEW vst, NEW vr, NEW stk, NEW e, Sound(val, loc, vst, vr, stk, e),
         NEW r \in EntryRecord, r.cont # "catch_followup",
         r.var = vr, r.frames = Len(e),
         r.cont = "set_args_continue" => r.tag \in DOMAIN e[Len(e)] /\ r.vsp <= Len(vst),
         Len(stk) = 0 => r.cont = "all_done"
  PROVE  Sound(val, loc, vst, Len(vst), Append(stk, r), Append(e, EmptyFrame))
<1>1. Shape(val, loc, vst, vr, stk, e) /\ (CatchTail = FALSE => Meaning(val, vst, vr, stk, e))
  BY DEF Sound
<1>2. Shape(val, loc, vst, Len(vst), Append(stk, r), Append(e, EmptyFrame))
  BY <1>1, EnterShape
<1>3. CatchTail = FALSE => Meaning(val, vst, Len(vst), Append(stk, r), Append(e, EmptyFrame))
  BY <1>1, EnterMeaning
<1> QED
  BY <1>2, <1>3 DEF Sound

LEMMA TailSound ==
  ASSUME NEW val, NEW loc, NEW vst, NEW vr, NEW stk, NEW e, Sound(val, loc, vst, vr, stk, e),
         Len(stk) > 0, Resets(stk, Len(stk)) \/ CatchTail # FALSE
  PROVE  Sound(val, loc, vst, vr, stk, Append(e, EmptyFrame))
<1>1. Shape(val, loc, vst, vr, stk, e) /\ (CatchTail = FALSE => Meaning(val, vst, vr, stk, e))
  BY DEF Sound
<1>2. Shape(val, loc, vst, vr, stk, Append(e, EmptyFrame))
  BY <1>1, TailShape
<1>3. CatchTail = FALSE => Meaning(val, vst, vr, stk, Append(e, EmptyFrame))
  BY <1>1, TailMeaning
<1> QED
  BY <1>2, <1>3 DEF Sound

\* A variable of a frame gets a value.
LEMMA WithAt ==
  ASSUME NEW e \in Seq(Frame), NEW j \in 1 .. Len(e), NEW n \in Name, NEW v \in Thing
  PROVE  LET e2 == [e EXCEPT ![j] = With(@, n, v)]
         IN  /\ e2 \in Seq(Frame) /\ Len(e2) = Len(e)
             /\ \A i \in 1 .. Len(e) : i # j => e2[i] = e[i]
             /\ e2[j] = With(e[j], n, v)
             /\ DOMAIN e2[j] = DOMAIN e[j] \cup {n}
             /\ e2[j][n] = v
             /\ \A m \in DOMAIN e[j] : m # n => e2[j][m] = e[j][m]
<1> DEFINE w == With(e[j], n, v)
           e2 == [e EXCEPT ![j] = w]
<1>1. e[j] \in Frame
  OBVIOUS
<1>2. /\ w \in Frame
      /\ DOMAIN w = DOMAIN e[j] \cup {n}
      /\ w[n] = v
      /\ \A m \in DOMAIN e[j] : m # n => w[m] = e[j][m]
  BY <1>1, WithType
<1>3. w = With(e[j], n, v)
  OBVIOUS
<1> HIDE DEF w
<1>4. /\ e2 \in Seq(Frame) /\ Len(e2) = Len(e)
      /\ \A i \in 1 .. Len(e) : i # j => e2[i] = e[i]
      /\ e2[j] = w
  BY <1>2
<1>5. e2 = [e EXCEPT ![j] = With(@, n, v)]
  BY <1>3
<1> HIDE DEF e2
<1>6. /\ DOMAIN e2[j] = DOMAIN e[j] \cup {n} /\ e2[j][n] = v
      /\ \A m \in DOMAIN e[j] : m # n => e2[j][m] = e[j][m]
  BY <1>2, <1>4
<1> QED
  BY <1>3, <1>4, <1>5, <1>6

\* A variable of the frame on top, new or not.
LEMMA BindSound ==
  ASSUME NEW val, NEW loc, NEW vst, NEW vr, NEW stk, NEW e, Sound(val, loc, vst, vr, stk, e),
         Len(stk) > 0, NEW n \in Name, NEW v \in Thing, NEW vst2, NEW loc2,
         \/ vst2 = vst /\ loc2 = loc /\ Named(vst, n, vr, Len(vst))
         \/ /\ vst2 = Append(vst, [name |-> n, old |-> val[n], localsave |-> loc[n]])
            /\ loc2 = [loc EXCEPT ![n] = TRUE]
  PROVE  Sound([val EXCEPT ![n] = v], loc2, vst2, vr, stk, [e EXCEPT ![Len(e)] = With(@, n, v)])
<1> DEFINE val2 == [val EXCEPT ![n] = v]
           e2 == [e EXCEPT ![Len(e)] = With(@, n, v)]
<1>1. Shape(val, loc, vst, vr, stk, e) /\ (CatchTail = FALSE => Meaning(val, vst, vr, stk, e))
  BY DEF Sound
<1>2. val \in [Name -> Thing] /\ e \in Seq(Frame) /\ Len(e) \in 1 .. Len(e)
  <2>1. Types(val, loc, vst, vr, stk, e)
    BY <1>1 DEF Shape
  <2>2. Len(e) \in Nat \ {0}
    BY <2>1, TypesFacts
  <2> QED
    BY <2>1, <2>2 DEF Types
<1>3. val2 \in [Name -> Thing] /\ val2[n] = v /\ \A m \in Name : m # n => val2[m] = val[m]
  BY <1>2
<1>4. /\ e2 \in Seq(Frame) /\ Len(e2) = Len(e)
      /\ \A i \in 1 .. Len(e) - 1 : e2[i] = e[i]
      /\ e2[Len(e)] = With(e[Len(e)], n, v)
      /\ DOMAIN e2[Len(e)] = DOMAIN e[Len(e)] \cup {n}
  <2>1. /\ e2 \in Seq(Frame) /\ Len(e2) = Len(e)
        /\ \A i \in 1 .. Len(e) : i # Len(e) => e2[i] = e[i]
        /\ e2[Len(e)] = With(e[Len(e)], n, v)
        /\ DOMAIN e2[Len(e)] = DOMAIN e[Len(e)] \cup {n}
    BY <1>2, WithAt
  <2>2. \A i \in 1 .. Len(e) - 1 : i \in 1 .. Len(e) /\ i # Len(e)
    BY <1>2
  <2> QED
    BY <2>1, <2>2
<1> HIDE DEF val2, e2
<1>5. Shape(val, loc2, vst2, vr, stk, e)
  <2>1. CASE vst2 = vst /\ loc2 = loc
    BY <1>1, <2>1
  <2>2. CASE /\ vst2 = Append(vst, [name |-> n, old |-> val[n], localsave |-> loc[n]])
             /\ loc2 = [loc EXCEPT ![n] = TRUE]
    <3>1. val[n] \in Thing
      BY <1>2
    <3> QED
      BY <1>1, <2>2, <3>1, PushShape
  <2> QED
    BY <2>1, <2>2
<1>6. Shape(val2, loc2, vst2, vr, stk, e2)
  <2>1. {n} \in SUBSET Name
    OBVIOUS
  <2> QED
    BY <1>3, <1>4, <1>5, <2>1, ValuesShape
<1>7. CatchTail = FALSE => Meaning(val2, vst2, vr, stk, e2)
  <2>1. BoundOnTop(n, v, val, loc, vst, vr, e, val2, vst2, e2)
    BY <1>3, <1>4 DEF BoundOnTop
  <2> QED
    BY <1>1, <2>1, BindMeaning
<1>8. Sound(val2, loc2, vst2, vr, stk, e2)
  BY <1>6, <1>7 DEF Sound
<1> QED
  BY <1>8 DEF val2, e2

\* The nearest variables of some names.
LEMMA AssignSound ==
  ASSUME NEW val, NEW loc, NEW vst, NEW vr, NEW stk, NEW e, Sound(val, loc, vst, vr, stk, e),
         NEW S, NEW f, NEW val2 \in [Name -> Thing], NEW e2 \in Seq(Frame),
         Assigned(S, f, val, e, val2, e2)
  PROVE  Sound(val2, loc, vst, vr, stk, e2)
<1>1. Shape(val, loc, vst, vr, stk, e) /\ (CatchTail = FALSE => Meaning(val, vst, vr, stk, e))
  BY DEF Sound
<1>2. Len(e) \in Nat \ {0}
  <2>1. Types(val, loc, vst, vr, stk, e)
    BY <1>1 DEF Shape
  <2> QED
    BY <2>1, TypesFacts
<1>3. /\ Len(e2) = Len(e) /\ \A j \in 1 .. Len(e) - 1 : DOMAIN e2[j] = DOMAIN e[j]
      /\ DOMAIN e2[Len(e)] = DOMAIN e[Len(e)] \cup {}
  BY <1>2 DEF Assigned
<1>4. {} \in SUBSET Name
  OBVIOUS
<1>5. Shape(val2, loc, vst, vr, stk, e2)
  BY <1>1, <1>3, <1>4, ValuesShape
<1>6. CatchTail = FALSE => Meaning(val2, vst, vr, stk, e2)
  BY <1>1, AssignMeaning
<1> QED
  BY <1>5, <1>6 DEF Sound

LEMMA AssignOneSound ==
  ASSUME NEW val, NEW loc, NEW vst, NEW vr, NEW stk, NEW e, Sound(val, loc, vst, vr, stk, e),
         NEW n \in Name, NEW v \in Thing, NEW j, Nearest(e, n, Len(e), j)
  PROVE  Sound([val EXCEPT ![n] = v], loc, vst, vr, stk, [e EXCEPT ![j] = With(@, n, v)])
<1> DEFINE val2 == [val EXCEPT ![n] = v]
           e2 == [e EXCEPT ![j] = With(@, n, v)]
           f == [m \in {n} |-> v]
<1>1. val \in [Name -> Thing] /\ e \in Seq(Frame) /\ Len(e) \in Nat
  <2>1. Types(val, loc, vst, vr, stk, e)
    BY DEF Sound, Shape
  <2> QED
    BY <2>1, TypesFacts DEF Types
<1>2. j \in 1 .. Len(e) /\ n \in DOMAIN e[j] /\ n \in Name
  BY DEF Nearest
<1>3. val2 \in [Name -> Thing] /\ val2[n] = v /\ \A m \in Name : m # n => val2[m] = val[m]
  BY <1>1
<1>4. /\ e2 \in Seq(Frame) /\ Len(e2) = Len(e)
      /\ \A i \in 1 .. Len(e) : i # j => e2[i] = e[i]
      /\ DOMAIN e2[j] = DOMAIN e[j] \cup {n}
      /\ e2[j][n] = v
      /\ \A m \in DOMAIN e[j] : m # n => e2[j][m] = e[j][m]
  BY <1>1, <1>2, WithAt
<1>5. f[n] = v
  OBVIOUS
<1> HIDE DEF val2, e2, f
<1>6. Assigned({n}, f, val, e, val2, e2)
  <2>1. \A m \in Name : val2[m] = IF m \in {n} THEN f[m] ELSE val[m]
    BY <1>3, <1>5
  <2>2. \A i \in 1 .. Len(e) : DOMAIN e2[i] = DOMAIN e[i]
    BY <1>2, <1>4
  <2>3. ASSUME NEW i \in 1 .. Len(e), NEW m \in DOMAIN e[i]
        PROVE  e2[i][m] = IF m \in {n} /\ Nearest(e, m, Len(e), i) THEN f[m] ELSE e[i][m]
    <3>1. CASE i = j /\ m = n
      BY <1>4, <1>5, <3>1
    <3>2. CASE i = j /\ m # n
      BY <1>4, <3>2
    <3>3. CASE i # j
      <4>1. m = n => ~Nearest(e, m, Len(e), i)
        BY <1>1, <3>3, NearestIsOne
      <4> QED
        BY <1>4, <3>3, <4>1
    <3> QED
      BY <3>1, <3>2, <3>3
  <2> QED
    BY <1>4, <2>1, <2>2, <2>3 DEF Assigned
<1>7. Sound(val2, loc, vst, vr, stk, e2)
  BY <1>3, <1>4, <1>6, AssignSound
<1> QED
  BY <1>7 DEF val2, e2

\* reset_args, and the end of the construct that calls it.
LEMMA ResetSound ==
  ASSUME NEW val, NEW loc, NEW vst, NEW vr, NEW stk, NEW e, Sound(val, loc, vst, vr, stk, e),
         Len(stk) > 0, Resets(stk, Len(stk)),
         NEW val2 \in [Name -> Thing], NEW loc2 \in [Name -> BOOLEAN],
         \A n \in Name : ~Named(vst, n, vr, Len(vst)) => val2[n] = val[n] /\ loc2[n] = loc[n],
         \A n \in Name, p \in 1 .. Len(vst) :
             First(vst, n, vr, p) => val2[n] = vst[p].old /\ loc2[n] = vst[p].localsave
  PROVE  Sound(val2, loc2, SubSeq(vst, 1, vr), stk[Len(stk)].var,
               SubSeq(stk, 1, Len(stk) - 1), SubSeq(e, 1, stk[Len(stk)].frames))
<1> DEFINE vst2 == SubSeq(vst, 1, vr)
<1>1. Shape(val, loc, vst, vr, stk, e) /\ (CatchTail = FALSE => Meaning(val, vst, vr, stk, e))
  BY DEF Sound
<1>2. Len(stk) = 1 => Len(vst2) = 0
  <2>1. Types(val, loc, vst, vr, stk, e) /\ Bottom(vst, vr, stk, e)
    BY <1>1 DEF Shape
  <2>2. vst \in Seq(Binding) /\ vr \in 0 .. Len(vst)
    BY <2>1 DEF Types
  <2>3. Len(vst2) = vr
    BY <2>2, Prefix
  <2>4. ASSUME Len(stk) = 1 PROVE vr = 0
    <3>1. VarAt(stk, vr, 2) = 0
      BY <2>1, <2>4 DEF Bottom
    <3> QED
      BY <2>4, <3>1 DEF VarAt
  <2> QED
    BY <2>3, <2>4
<1>3. Shape(val2, loc2, vst2, vr, stk, e)
  BY <1>1, CutShape
<1> HIDE DEF vst2
<1>4. Shape(val2, loc2, vst2, stk[Len(stk)].var,
            SubSeq(stk, 1, Len(stk) - 1), SubSeq(e, 1, stk[Len(stk)].frames))
  BY <1>2, <1>3, PopShape
<1>5. CatchTail = FALSE =>
          Meaning(val2, vst2, stk[Len(stk)].var,
                  SubSeq(stk, 1, Len(stk) - 1), SubSeq(e, 1, stk[Len(stk)].frames))
  BY <1>1, ResetMeaning DEF vst2
<1> QED
  BY <1>4, <1>5 DEF Sound, vst2

LEMMA CatchSound ==
  ASSUME NEW val, NEW loc, NEW vst, NEW vr, NEW stk, NEW e, Sound(val, loc, vst, vr, stk, e),
         NEW r \in EntryRecord, r.cont = "catch_followup", r.var = vr, r.frames = Len(e),
         Len(stk) > 0
  PROVE  Sound(val, loc, vst, vr, Append(stk, r), e)
<1>1. Shape(val, loc, vst, vr, stk, e) /\ (CatchTail = FALSE => Meaning(val, vst, vr, stk, e))
  BY DEF Sound
<1>2. Shape(val, loc, vst, vr, Append(stk, r), e)
  BY <1>1, CatchShape
<1>3. CatchTail = FALSE => Meaning(val, vst, vr, Append(stk, r), e)
  BY <1>1, CatchMeaning
<1> QED
  BY <1>2, <1>3 DEF Sound

LEMMA CatchEndSound ==
  ASSUME NEW val, NEW loc, NEW vst, NEW vr, NEW stk, NEW e, Sound(val, loc, vst, vr, stk, e),
         Len(stk) > 0, ~Resets(stk, Len(stk))
  PROVE  Sound(val, loc, vst, vr, SubSeq(stk, 1, Len(stk) - 1),
               SubSeq(e, 1, stk[Len(stk)].frames))
<1> DEFINE N == Len(stk)
<1>1. Shape(val, loc, vst, vr, stk, e) /\ (CatchTail = FALSE => Meaning(val, vst, vr, stk, e))
  BY DEF Sound
<1>2. Types(val, loc, vst, vr, stk, e) /\ Ordered(stk, vr, e) /\ CatchKeeps(stk, vr, e)
      /\ Bottom(vst, vr, stk, e)
  BY <1>1 DEF Shape
<1>3. N \in Nat /\ N \in 1 .. N
  BY <1>2, TypesFacts
<1>4. stk[N].var = vr
  <2>1. VarAt(stk, vr, N + 1) = vr
    BY <1>3 DEF VarAt
  <2> QED
    BY <1>2, <1>3, <2>1 DEF CatchKeeps
<1>5. N # 1
  BY <1>2 DEF Bottom, Resets
<1>6. Shape(val, loc, vst, vr, SubSeq(stk, 1, N - 1), SubSeq(e, 1, stk[N].frames))
  <2>1. N = 1 => Len(vst) = 0
    BY <1>5
  <2> QED
    BY <1>1, <1>4, <2>1, PopShape
<1>7. CatchTail = FALSE =>
          Meaning(val, vst, vr, SubSeq(stk, 1, N - 1), SubSeq(e, 1, stk[N].frames))
  BY <1>1, CatchEndMeaning
<1> QED
  BY <1>6, <1>7 DEF Sound

\* ERRACT gets values, in the table and in the environment, that need not agree.
LEMMA ErractSound ==
  ASSUME NEW val, NEW loc, NEW vst, NEW vr, NEW stk, NEW e, Sound(val, loc, vst, vr, stk, e),
         NEW val2 \in [Name -> Thing], \A m \in Name \ {ERRACT} : val2[m] = val[m],
         NEW j \in 1 .. Len(e), ERRACT \in DOMAIN e[j], NEW v \in Thing
  PROVE  Sound(val2, loc, vst, vr, stk, [e EXCEPT ![j] = With(@, ERRACT, v)])
<1> DEFINE e2 == [e EXCEPT ![j] = With(@, ERRACT, v)]
<1>1. Shape(val, loc, vst, vr, stk, e) /\ (CatchTail = FALSE => Meaning(val, vst, vr, stk, e))
  BY DEF Sound
<1>2. e \in Seq(Frame) /\ Len(e) \in Nat \ {0} /\ Len(vst) \in Nat
  <2>1. Types(val, loc, vst, vr, stk, e)
    BY <1>1 DEF Shape
  <2> QED
    BY <2>1, TypesFacts DEF Types
<1>3. /\ e2 \in Seq(Frame) /\ Len(e2) = Len(e)
      /\ \A i \in 1 .. Len(e) : i # j => e2[i] = e[i]
      /\ DOMAIN e2[j] = DOMAIN e[j] \cup {ERRACT}
      /\ \A m \in DOMAIN e[j] : m # ERRACT => e2[j][m] = e[j][m]
  BY <1>2, ErractAssumption, WithAt
<1> HIDE DEF e2
<1>4. \A i \in 1 .. Len(e) : DOMAIN e2[i] = DOMAIN e[i]
  BY <1>3
<1>5. Shape(val2, loc, vst, vr, stk, e2)
  <2>1. /\ \A i \in 1 .. Len(e) - 1 : DOMAIN e2[i] = DOMAIN e[i]
        /\ DOMAIN e2[Len(e)] = DOMAIN e[Len(e)] \cup {}
        /\ {} \in SUBSET Name
    BY <1>2, <1>4
  <2> QED
    BY <1>1, <1>3, <2>1, ValuesShape
<1>6. ButErract(val, vst, e, val2, vst, e2)
  <2>1. ASSUME NEW i \in 1 .. Len(e), NEW m \in Name \ {ERRACT}
        PROVE  /\ m \in DOMAIN e2[i] <=> m \in DOMAIN e[i]
               /\ m \in DOMAIN e[i] => e2[i][m] = e[i][m]
    <3>1. CASE i = j
      BY <1>3, <3>1
    <3>2. CASE i # j
      BY <1>3, <3>2
    <3> QED
      BY <3>1, <3>2
  <2> QED
    BY <1>2, <1>3, <2>1 DEF ButErract
<1>7. CatchTail = FALSE => Meaning(val2, vst, vr, stk, e2)
  BY <1>1, <1>6, ErractMeaning
<1>8. Sound(val2, loc, vst, vr, stk, e2)
  BY <1>5, <1>7 DEF Sound
<1> QED
  BY <1>8 DEF e2

\* ERRACT's value is pushed aside by an entry of its own.
LEMMA PushErractSound ==
  ASSUME NEW val, NEW loc, NEW vst, NEW vr, NEW stk, NEW e, Sound(val, loc, vst, vr, stk, e),
         Len(stk) > 0
  PROVE  Sound(val, [loc EXCEPT ![ERRACT] = TRUE],
               Append(vst, [name |-> ERRACT, old |-> val[ERRACT], localsave |-> loc[ERRACT]]),
               vr, stk, e)
<1> DEFINE b == [name |-> ERRACT, old |-> val[ERRACT], localsave |-> loc[ERRACT]]
           vst2 == Append(vst, b)
           loc2 == [loc EXCEPT ![ERRACT] = TRUE]
<1>1. Shape(val, loc, vst, vr, stk, e) /\ (CatchTail = FALSE => Meaning(val, vst, vr, stk, e))
  BY DEF Sound
<1>2. Types(val, loc, vst, vr, stk, e)
  BY <1>1 DEF Shape
<1>3. val[ERRACT] \in Thing /\ vst \in Seq(Binding) /\ b \in Binding /\ b.name = ERRACT
  BY <1>2, ErractAssumption DEF Types, Binding
<1>4. Shape(val, loc2, vst2, vr, stk, e)
  BY <1>1, <1>3, ErractAssumption, PushShape
<1> HIDE DEF b
<1>5. /\ Len(vst2) = Len(vst) + 1 /\ Len(vst) \in Nat
      /\ \A p \in 1 .. Len(vst) : vst2[p] = vst[p]
      /\ vst2[Len(vst) + 1] = b
  BY <1>3, Appended
<1> HIDE DEF vst2, loc2
<1>6. ButErract(val, vst, e, val, vst2, e)
  BY <1>3, <1>5 DEF ButErract
<1>7. CatchTail = FALSE => Meaning(val, vst2, vr, stk, e)
  BY <1>1, <1>6, ErractMeaning
<1>8. Sound(val, loc2, vst2, vr, stk, e)
  BY <1>4, <1>7 DEF Sound
<1> QED
  BY <1>8 DEF vst2, loc2, b

-----------------------------------------------------------------------------
(* What the invariant says of a state. *)

LEMMA StateFacts ==
  ASSUME IInv
  PROVE  /\ Sound(valnode, is_local, var_stack, var, stack, env)
         /\ valnode \in [Name -> Thing] /\ is_local \in [Name -> BOOLEAN]
         /\ var_stack \in Seq(Binding) /\ stack \in Seq(EntryRecord) /\ env \in Seq(Frame)
         /\ Len(stack) \in Nat /\ Len(var_stack) \in Nat /\ Len(env) \in Nat \ {0}
         /\ var \in Nat /\ var <= Len(var_stack)
         /\ DOMAIN env = 1 .. Len(env)
         /\ \A n \in Name : is_local[n] <=> Named(var_stack, n, 0, Len(var_stack))
<1>1. Shape(valnode, is_local, var_stack, var, stack, env)
  BY DEF IInv, Sound
<1>2. Types(valnode, is_local, var_stack, var, stack, env) /\ Flags(is_local, var_stack)
  BY <1>1 DEF Shape
<1>3. /\ valnode \in [Name -> Thing] /\ is_local \in [Name -> BOOLEAN]
      /\ var_stack \in Seq(Binding) /\ stack \in Seq(EntryRecord) /\ env \in Seq(Frame)
  BY <1>2 DEF Types
<1>4. /\ Len(stack) \in Nat /\ Len(var_stack) \in Nat /\ Len(env) \in Nat \ {0}
      /\ var \in Nat /\ var <= Len(var_stack)
  BY <1>2, TypesFacts
<1> QED
  BY <1>2, <1>3, <1>4 DEF IInv, Flags

LEMMA TopFacts ==
  ASSUME IInv, stack # <<>>
  PROVE  /\ Len(stack) \in Nat \ {0} /\ Len(stack) \in 1 .. Len(stack)
         /\ Top \in EntryRecord
         /\ Top.var \in Nat /\ Top.vsp \in Nat /\ Top.frames \in 1 .. Len(env)
         /\ Top.formals \in SUBSET Name /\ Top.erract \in Thing
         /\ Len(env) > 1
         /\ Len(stack) = 1 => Top.cont = "all_done"
         /\ Len(stack) > 1 /\ Resets(stack, Len(stack)) => Top.frames > 1
         /\ Top.cont = "set_args_continue" => /\ Top.tag \in DOMAIN env[Top.frames]
                                              /\ Top.vsp <= var
<1> DEFINE N == Len(stack)
<1>1. Shape(valnode, is_local, var_stack, var, stack, env)
  BY DEF IInv, Sound
<1>2. /\ Types(valnode, is_local, var_stack, var, stack, env) /\ Ordered(stack, var, env)
      /\ Bottom(var_stack, var, stack, env) /\ Defaults(stack, var, env)
  BY <1>1 DEF Shape
<1>3. N \in Nat \ {0} /\ N \in 1 .. N /\ Top \in EntryRecord
  BY <1>2 DEF Types, Top
<1>4. /\ \A i \in 1 .. N + 1 : FramesAt(stack, env, i) \in 1 .. Len(env)
      /\ \A i \in 1 .. N : FramesAt(stack, env, i) = stack[i].frames
      /\ FramesAt(stack, env, N + 1) = Len(env)
      /\ VarAt(stack, var, N + 1) = var
      /\ Len(env) \in Nat
  BY <1>2, AtFacts, TypesFacts
<1>5. stack[1].cont = "all_done" /\ stack[1].frames = 1
  BY <1>2, <1>3 DEF Bottom
<1>6. Len(env) > 1
  <2>1. Resets(stack, 1)
    BY <1>5 DEF Resets
  <2>2. 1 \in 1 .. N /\ 1 \in 1 .. N + 1 /\ N + 1 \in 1 .. N + 1 /\ 1 < N + 1
    BY <1>3
  <2>3. FramesAt(stack, env, 1) < FramesAt(stack, env, N + 1)
    BY <1>2, <2>1, <2>2 DEF Ordered
  <2> QED
    BY <1>4, <1>5, <2>2, <2>3
<1>7. ASSUME N > 1 PROVE Top.frames > 1
  <2>1. Resets(stack, 1)
    BY <1>5 DEF Resets
  <2>2. 1 \in 1 .. N /\ 1 \in 1 .. N + 1 /\ N \in 1 .. N + 1 /\ 1 < N
    BY <1>3, <1>7
  <2>3. FramesAt(stack, env, 1) < FramesAt(stack, env, N)
    BY <1>2, <2>1, <2>2 DEF Ordered
  <2> QED
    BY <1>3, <1>4, <1>5, <2>2, <2>3 DEF Top
<1>8. Top.frames \in 1 .. Len(env)
  <2>1. N \in 1 .. N + 1
    BY <1>3
  <2> QED
    BY <1>3, <1>4, <2>1 DEF Top
<1>9. Top.cont = "set_args_continue" => Top.tag \in DOMAIN env[Top.frames] /\ Top.vsp <= var
  BY <1>2, <1>3, <1>4 DEF Defaults, Top
<1>10. N = 1 => Top.cont = "all_done"
  BY <1>5 DEF Top
<1>11. Top.var \in Nat /\ Top.vsp \in Nat /\ Top.formals \in SUBSET Name /\ Top.erract \in Thing
  BY <1>3 DEF EntryRecord
<1> QED
  BY <1>3, <1>6, <1>7, <1>8, <1>9, <1>10, <1>11

LEMMA InnermostFacts ==
  ASSUME IInv, NEW n \in Name
  PROVE  /\ Nearest(env, n, Len(env), Innermost(n))
         /\ Innermost(n) \in 1 .. Len(env) /\ n \in DOMAIN env[Innermost(n)]
         /\ Lookup(n) \in Thing
<1>1. Found(var_stack, env)
  BY DEF IInv, Sound, Shape
<1>2. Len(env) \in 1 .. Len(env) /\ DOMAIN env = 1 .. Len(env)
  BY StateFacts
<1>3. PICK j \in 1 .. Len(env) : Nearest(env, n, Len(env), j)
  BY <1>1, <1>2 DEF Found
<1>4. n \in DOMAIN env[j] /\ \A i \in DOMAIN env : n \in DOMAIN env[i] => i <= j
  BY <1>2, <1>3 DEF Nearest
<1>5. /\ Innermost(n) \in DOMAIN env
      /\ n \in DOMAIN env[Innermost(n)]
      /\ \A i \in DOMAIN env : n \in DOMAIN env[i] => i <= Innermost(n)
  BY <1>2, <1>4 DEF Innermost
<1>6. Nearest(env, n, Len(env), Innermost(n))
  BY <1>2, <1>5 DEF Nearest
<1>7. env[Innermost(n)] \in Frame
  BY <1>2, <1>5, StateFacts
<1>8. Lookup(n) \in Thing
  BY <1>5, <1>7, FrameValue DEF Lookup
<1> QED
  BY <1>2, <1>5, <1>6, <1>8

LEMMA OldestFacts ==
  ASSUME IInv, NEW n \in Name
  PROVE  /\ Saved(n, var) = {} <=> ~Named(var_stack, n, var, Len(var_stack))
         /\ Saved(n, var) # {} => First(var_stack, n, var, Oldest(n, var))
         /\ \A p : First(var_stack, n, var, p) => Saved(n, var) # {} /\ Oldest(n, var) = p
<1>1. Found(var_stack, env)
  BY DEF IInv, Sound, Shape
<1>2. var \in 0 .. Len(var_stack) /\ Len(var_stack) \in Nat
  BY StateFacts
<1>3. Saved(n, var) = {} <=> ~Named(var_stack, n, var, Len(var_stack))
  BY DEF Saved, Named
<1>4. ASSUME Saved(n, var) # {} PROVE First(var_stack, n, var, Oldest(n, var))
  <2>1. PICK p \in 1 .. Len(var_stack) : First(var_stack, n, var, p)
    BY <1>1, <1>2, <1>3, <1>4 DEF Found
  <2>2. p \in Saved(n, var) /\ \A q \in Saved(n, var) : p <= q
    BY <2>1 DEF First, Saved
  <2>3. Oldest(n, var) \in Saved(n, var) /\ \A q \in Saved(n, var) : Oldest(n, var) <= q
    BY <2>2 DEF Oldest
  <2> QED
    BY <2>3 DEF First, Saved
<1>5. ASSUME NEW p, First(var_stack, n, var, p)
      PROVE  Saved(n, var) # {} /\ Oldest(n, var) = p
  <2>1. Saved(n, var) # {}
    BY <1>5 DEF First, Saved
  <2>2. First(var_stack, n, var, Oldest(n, var))
    BY <1>4, <2>1
  <2> QED
    BY <1>2, <1>5, <2>1, <2>2, FirstIsOne
<1> QED
  BY <1>3, <1>4, <1>5

LEMMA PushLocalCases ==
  ASSUME IInv, NEW n \in Name, NEW sp \in Nat, sp <= Len(var_stack), PushLocal(n, sp)
  PROVE  /\ \/ /\ var_stack' = var_stack /\ is_local' = is_local
               /\ Named(var_stack, n, var, Len(var_stack))
            \/ /\ var_stack' = Append(var_stack, [name |-> n, old |-> valnode[n],
                                                  localsave |-> is_local[n]])
               /\ is_local' = [is_local EXCEPT ![n] = TRUE]
         /\ Len(var_stack') \in Nat /\ Len(var_stack) <= Len(var_stack')
<1> DEFINE b == [name |-> n, old |-> valnode[n], localsave |-> is_local[n]]
<1>1. /\ var \in Nat /\ Len(var_stack) \in Nat /\ var_stack \in Seq(Binding) /\ b \in Binding
  BY StateFacts DEF Binding
<1>2. CASE NotLocal(n, sp)
  <2>1. var_stack' = Append(var_stack, b) /\ is_local' = [is_local EXCEPT ![n] = TRUE]
    BY <1>2 DEF PushLocal, SavedBinding
  <2>2. Len(var_stack') = Len(var_stack) + 1
    <3> HIDE DEF b
    <3> QED
      BY <1>1, <2>1, Appended
  <2> QED
    BY <1>1, <2>1, <2>2
<1>3. CASE ~NotLocal(n, sp)
  <2>1. var_stack' = var_stack /\ is_local' = is_local
    BY <1>3 DEF PushLocal
  <2>2. Named(var_stack, n, var, Len(var_stack))
    BY <1>1, <1>3 DEF NotLocal, Named
  <2> QED
    BY <1>1, <2>1, <2>2
<1> QED
  BY <1>2, <1>3

\* The table after reset_args(var).
ResetValue == [n \in Name |-> IF Saved(n, var) = {} THEN valnode[n]
                              ELSE var_stack[Oldest(n, var)].old]
ResetFlag == [n \in Name |-> FlagAfterReset(n, var)]

LEMMA ResetStep ==
  ASSUME IInv, stack # <<>>, Top.cont # "catch_followup"
  PROVE  /\ Sound(ResetValue, ResetFlag, SubSeq(var_stack, 1, var), Top.var,
                  SubSeq(stack, 1, Len(stack) - 1), SubSeq(env, 1, Top.frames))
         /\ ResetValue \in [Name -> Thing]
<1>1. ASSUME NEW n \in Name
      PROVE  /\ ResetValue[n] \in Thing /\ ResetFlag[n] \in BOOLEAN
             /\ ~Named(var_stack, n, var, Len(var_stack)) =>
                    ResetValue[n] = valnode[n] /\ ResetFlag[n] = is_local[n]
             /\ \A p : First(var_stack, n, var, p) =>
                    ResetValue[n] = var_stack[p].old /\ ResetFlag[n] = var_stack[p].localsave
  <2>1. CASE Saved(n, var) = {}
    <3>1. ResetValue[n] = valnode[n] /\ ResetFlag[n] = is_local[n]
      BY <2>1 DEF ResetValue, ResetFlag, FlagAfterReset
    <3>2. \A p : ~First(var_stack, n, var, p)
      BY <2>1, OldestFacts
    <3> QED
      BY <3>1, <3>2, StateFacts
  <2>2. CASE Saved(n, var) # {}
    <3> DEFINE p == Oldest(n, var)
    <3>1. ResetValue[n] = var_stack[p].old /\ ResetFlag[n] = var_stack[p].localsave
      BY <2>2 DEF ResetValue, ResetFlag, FlagAfterReset
    <3>2. /\ First(var_stack, n, var, p) /\ Named(var_stack, n, var, Len(var_stack))
          /\ \A q : First(var_stack, n, var, q) => q = p
      BY <2>2, OldestFacts
    <3>3. p \in 1 .. Len(var_stack)
      BY <3>2, StateFacts DEF First
    <3>4. var_stack[p] \in Binding
      BY <3>3, StateFacts
    <3>5. var_stack[p].old \in Thing /\ var_stack[p].localsave \in BOOLEAN
      BY <3>4 DEF Binding
    <3> HIDE DEF p
    <3> QED
      BY <3>1, <3>2, <3>5
  <2> QED
    BY <2>1, <2>2
<1>2. ResetValue \in [Name -> Thing] /\ ResetFlag \in [Name -> BOOLEAN]
  BY <1>1 DEF ResetValue, ResetFlag
<1>3. Len(stack) > 0 /\ Resets(stack, Len(stack))
  BY TopFacts DEF Resets, Top
<1>4. Sound(valnode, is_local, var_stack, var, stack, env)
  BY StateFacts
<1>5. Sound(ResetValue, ResetFlag, SubSeq(var_stack, 1, var), stack[Len(stack)].var,
            SubSeq(stack, 1, Len(stack) - 1), SubSeq(env, 1, stack[Len(stack)].frames))
  BY <1>1, <1>2, <1>3, <1>4, ResetSound
<1> QED
  BY <1>2, <1>5 DEF Top

-----------------------------------------------------------------------------
(* Every action keeps the invariant. *)

\* What is left to show when the bindings are known to be sound.
LEMMA Keeps ==
  ASSUME IInv,
         Sound(valnode', is_local', var_stack', var', stack', env'), Registers',
         CatchTail = FALSE =>
             \A n \in Name \ {ERRACT} :
                 env'[1][n] # UNBOUND => \/ has_global'[n]
                                         \/ env'[1][n] = env[1][n] /\ has_global'[n] = has_global[n]
  PROVE  IInv'
<1>1. CatchTail = FALSE => GlobalFlag
  BY DEF IInv
<1>2. ASSUME CatchTail = FALSE PROVE GlobalFlag'
  BY <1>1, <1>2 DEF GlobalFlag
<1> QED
  BY <1>2 DEF IInv

\* The frame of the global variables stays the first.
LEMMA FirstFrame ==
  ASSUME NEW e \in Seq(Frame), Len(e) >= 1
  PROVE  /\ \A f \in Frame : Append(e, f)[1] = e[1]
         /\ \A k \in 1 .. Len(e) : SubSeq(e, 1, k)[1] = e[1]
         /\ \A j, f : j # 1 => [e EXCEPT ![j] = f][1] = e[1]
<1>1. Len(e) \in Nat /\ 1 \in 1 .. Len(e) /\ DOMAIN e = 1 .. Len(e)
  OBVIOUS
<1>2. ASSUME NEW f \in Frame PROVE Append(e, f)[1] = e[1]
  BY <1>1, Appended
<1>3. ASSUME NEW k \in 1 .. Len(e) PROVE SubSeq(e, 1, k)[1] = e[1]
  <2>1. k \in 0 .. Len(e) /\ 1 \in 1 .. k
    BY <1>1
  <2> QED
    BY <2>1, Prefix
<1>4. ASSUME NEW j, NEW f, j # 1 PROVE [e EXCEPT ![j] = f][1] = e[1]
  BY <1>1, <1>4
<1> QED
  BY <1>2, <1>3, <1>4

LEMMA EntryFacts ==
  ASSUME IInv, NEW cont \in Cont, NEW tag \in Tag \cup Name \cup {NoTag}
  PROVE  /\ Entry(cont, tag) \in EntryRecord
         /\ Entry(cont, tag).cont = cont /\ Entry(cont, tag).tag = tag
         /\ Entry(cont, tag).var = var /\ Entry(cont, tag).vsp = vsp
         /\ Entry(cont, tag).frames = Len(env)
<1>1. /\ var \in Nat /\ Len(env) \in Nat /\ vsp \in Nat /\ formals \in SUBSET Name
      /\ UNBOUND \in Thing
  BY StateFacts DEF IInv, Registers, Thing
<1> QED
  BY <1>1 DEF Entry, EntryRecord

\* A construct that will call reset_args begins, with a frame of its own.
LEMMA EnterStep ==
  ASSUME IInv, NEW cont \in Cont, cont # "catch_followup", cont # "set_args_continue",
         stack = <<>> => cont = "all_done",
         Push(cont, NoTag), var' = Len(var_stack), PushFrame(EmptyFrame),
         UNCHANGED <<valnode, is_local, has_global, var_stack>>, Registers'
  PROVE  IInv'
<1>1. /\ Sound(valnode, is_local, var_stack, var, stack, env) /\ env \in Seq(Frame)
      /\ Len(env) >= 1 /\ stack \in Seq(EntryRecord)
  BY StateFacts
<1> DEFINE r == Entry(cont, NoTag)
<1>2. /\ r \in EntryRecord /\ r.cont = cont /\ r.var = var /\ r.frames = Len(env)
  BY EntryFacts
<1>3. stack' = Append(stack, r) /\ env' = Append(env, EmptyFrame)
  BY DEF Push, PushFrame
<1>4. Len(stack) = 0 => cont = "all_done"
  BY <1>1
<1> HIDE DEF r
<1>5. Sound(valnode, is_local, var_stack, Len(var_stack), Append(stack, r), Append(env, EmptyFrame))
  BY <1>1, <1>2, <1>4, EnterSound
<1>6. Sound(valnode', is_local', var_stack', var', stack', env')
  BY <1>3, <1>5
<1>7. env'[1] = env[1]
  BY <1>1, <1>3, EmptyFrameType, FirstFrame
<1> QED
  BY <1>6, <1>7, Keeps

LEMMA PushedFacts ==
  ASSUME IInv, NEW r \in EntryRecord, stack' = Append(stack, r)
  PROVE  stack' # <<>> /\ Len(stack') = Len(stack) + 1
<1>1. stack \in Seq(EntryRecord)
  BY StateFacts
<1>2. Len(stack') = Len(stack) + 1 /\ Len(stack) \in Nat
  BY <1>1, Appended
<1> QED
  BY <1>2

LEMMA EvaluatorStep ==
  ASSUME IInv, Evaluator
  PROVE  IInv'
<1>1. "all_done" \in Cont /\ NoTag \in Tag \cup Name \cup {NoTag}
  BY DEF Cont
<1>2. stack' # <<>>
  BY <1>1, EntryFacts, PushedFacts DEF Evaluator, Push
<1>3. Registers'
  BY <1>2 DEF IInv, Registers, Evaluator, Running
<1> QED
  BY <1>1, <1>3, EnterStep DEF Evaluator

LEMMA RunListStep ==
  ASSUME IInv, NEW cont \in {"repeat_followup", "after_lambda"}, RunList(cont)
  PROVE  IInv'
<1>1. cont \in Cont /\ NoTag \in Tag \cup Name \cup {NoTag}
  BY DEF Cont
<1>2. stack' # <<>>
  BY <1>1, EntryFacts, PushedFacts DEF RunList, Push
<1>3. Registers'
  BY <1>2 DEF IInv, Registers, RunList, Running
<1> QED
  BY <1>1, <1>3, EnterStep DEF RunList, Running

LEMMA CallStep ==
  ASSUME IInv, NEW S \in SUBSET Name, Call(S)
  PROVE  IInv'
<1>1. "eval_sequence_continue" \in Cont /\ NoTag \in Tag \cup Name \cup {NoTag}
  BY DEF Cont
<1>2. stack' # <<>>
  BY <1>1, EntryFacts, PushedFacts DEF Call, Push
<1>3. Registers'
  <2>1. Len(var_stack) \in Nat
    BY StateFacts
  <2> QED
    BY <1>2, <2>1 DEF IInv, Registers, Call
<1> QED
  BY <1>1, <1>3, EnterStep DEF Call, Running

LEMMA TailCallStep ==
  ASSUME IInv, NEW S \in SUBSET Name, TailCall(S)
  PROVE  IInv'
<1>1. /\ Sound(valnode, is_local, var_stack, var, stack, env) /\ env \in Seq(Frame)
      /\ Len(env) >= 1 /\ Len(var_stack) \in Nat
  BY StateFacts
<1>2. stack # <<>> /\ Len(stack) > 0
  BY TopFacts DEF TailCall, Running
<1>3. Resets(stack, Len(stack)) \/ CatchTail # FALSE
  <2>1. CASE CatchTail
    BY <2>1
  <2>2. CASE ~CatchTail
    BY <2>2 DEF TailCall, Resets, Top
  <2> QED
    BY <2>1, <2>2
<1>4. Sound(valnode, is_local, var_stack, var, stack, Append(env, EmptyFrame))
  BY <1>1, <1>2, <1>3, TailSound
<1>5. Sound(valnode', is_local', var_stack', var', stack', env')
  BY <1>4 DEF TailCall, PushFrame
<1>6. env'[1] = env[1] /\ has_global' = has_global
  BY <1>1, EmptyFrameType, FirstFrame DEF TailCall, PushFrame
<1>7. Registers'
  BY <1>1, <1>2 DEF IInv, Registers, TailCall
<1> QED
  BY <1>5, <1>6, <1>7, Keeps

LEMMA BindFormalStep ==
  ASSUME IInv, NEW n \in Name, NEW arg \in Thing, BindFormal(n, arg)
  PROVE  IInv'
<1>1. /\ Sound(valnode, is_local, var_stack, var, stack, env) /\ env \in Seq(Frame)
      /\ Len(env) \in Nat
  BY StateFacts
<1>2. binding /\ stack # <<>> /\ vsp \in Nat /\ vsp <= Len(var_stack)
  BY DEF IInv, Registers, BindFormal
<1>3. Len(stack) > 0 /\ Len(env) > 1
  BY <1>2, TopFacts
<1>4. PushLocal(n, vsp)
  BY DEF BindFormal
<1>5. /\ \/ /\ var_stack' = var_stack /\ is_local' = is_local
            /\ Named(var_stack, n, var, Len(var_stack))
         \/ /\ var_stack' = Append(var_stack, [name |-> n, old |-> valnode[n],
                                               localsave |-> is_local[n]])
            /\ is_local' = [is_local EXCEPT ![n] = TRUE]
      /\ Len(var_stack') \in Nat /\ Len(var_stack) <= Len(var_stack')
  BY <1>2, <1>4, PushLocalCases
<1>6. Sound([valnode EXCEPT ![n] = arg], is_local', var_stack', var, stack,
            [env EXCEPT ![Len(env)] = With(@, n, arg)])
  BY <1>1, <1>3, <1>5, BindSound
<1>7. Sound(valnode', is_local', var_stack', var', stack', env')
  BY <1>6 DEF BindFormal, BindInTop
<1>8. env'[1] = env[1] /\ has_global' = has_global
  BY <1>1, <1>3, FirstFrame DEF BindFormal, BindInTop
<1>9. Registers'
  <2>1. vsp <= Len(var_stack')
    BY <1>1, <1>2, <1>5, StateFacts
  <2> QED
    BY <1>2, <2>1 DEF IInv, Registers, BindFormal
<1> QED
  BY <1>7, <1>8, <1>9, Keeps

LEMMA LocalStep ==
  ASSUME IInv, NEW n \in Name, Local(n)
  PROVE  IInv'
<1>1. /\ Sound(valnode, is_local, var_stack, var, stack, env) /\ env \in Seq(Frame)
      /\ Len(env) \in Nat /\ Len(var_stack) \in Nat /\ Len(var_stack) <= Len(var_stack)
  BY StateFacts
<1>2. stack # <<>> /\ ~binding /\ PushLocal(n, Len(var_stack)) /\ UNBOUND \in Thing
  BY DEF Local, Running, Thing
<1>3. Len(stack) > 0 /\ Len(env) > 1
  BY <1>2, TopFacts
<1>4. \/ /\ var_stack' = var_stack /\ is_local' = is_local
         /\ Named(var_stack, n, var, Len(var_stack))
      \/ /\ var_stack' = Append(var_stack, [name |-> n, old |-> valnode[n],
                                            localsave |-> is_local[n]])
         /\ is_local' = [is_local EXCEPT ![n] = TRUE]
  BY <1>1, <1>2, PushLocalCases
<1>5. Sound([valnode EXCEPT ![n] = UNBOUND], is_local', var_stack', var, stack,
            [env EXCEPT ![Len(env)] = With(@, n, UNBOUND)])
  BY <1>1, <1>2, <1>3, <1>4, BindSound
<1>6. Sound(valnode', is_local', var_stack', var', stack', env')
  BY <1>5 DEF Local, BindInTop
<1>7. env'[1] = env[1] /\ has_global' = has_global
  BY <1>1, <1>3, FirstFrame DEF Local, BindInTop
<1>8. Registers'
  BY <1>2 DEF IInv, Registers, Local
<1> QED
  BY <1>6, <1>7, <1>8, Keeps

\* Binding an optional formal, and the beginning of its default expression.
LEMMA BindDefaultStep ==
  ASSUME IInv, NEW n \in Name, BindDefault(n)
  PROVE  IInv'
<1> DEFINE r == [Entry("set_args_continue", n) EXCEPT !.formals = formals \ {n}]
           e2 == [env EXCEPT ![Len(env)] = With(@, n, valnode[n])]
           val2 == [valnode EXCEPT ![n] = valnode[n]]
<1>1. /\ Sound(valnode, is_local, var_stack, var, stack, env) /\ env \in Seq(Frame)
      /\ Len(env) \in Nat /\ Len(env) \in 1 .. Len(env) /\ Len(var_stack) \in Nat
      /\ valnode \in [Name -> Thing]
  BY StateFacts
<1>2. binding /\ stack # <<>> /\ vsp \in Nat /\ vsp <= Len(var_stack) /\ formals \in SUBSET Name
  BY DEF IInv, Registers, BindDefault
<1>3. Len(stack) > 0 /\ Len(stack) \in Nat /\ Len(env) > 1
  BY <1>2, TopFacts
<1>4. /\ \/ /\ var_stack' = var_stack /\ is_local' = is_local
            /\ Named(var_stack, n, var, Len(var_stack))
         \/ /\ var_stack' = Append(var_stack, [name |-> n, old |-> valnode[n],
                                               localsave |-> is_local[n]])
            /\ is_local' = [is_local EXCEPT ![n] = TRUE]
      /\ Len(var_stack') \in Nat /\ Len(var_stack) <= Len(var_stack')
  <2>1. PushLocal(n, vsp)
    BY DEF BindDefault
  <2> QED
    BY <1>2, <2>1, PushLocalCases
<1>5. val2 = valnode /\ valnode[n] \in Thing
  BY <1>1
<1>6. Sound(val2, is_local', var_stack', var, stack, e2)
  BY <1>1, <1>3, <1>4, <1>5, BindSound
<1>7. /\ r \in EntryRecord /\ r.cont = "set_args_continue" /\ r.tag = n
      /\ r.var = var /\ r.vsp = vsp /\ r.frames = Len(env)
  <2>1. Entry("set_args_continue", n) \in EntryRecord /\ formals \ {n} \in SUBSET Name
    BY <1>2, EntryFacts DEF Cont
  <2>2. r \in EntryRecord
    BY <2>1 DEF EntryRecord
  <2> QED
    BY <2>2 DEF Entry
<1>8. /\ e2 \in Seq(Frame) /\ Len(e2) = Len(env) /\ n \in DOMAIN e2[Len(env)]
  BY <1>1, <1>5, WithAt
<1>9. e2[1] = env[1]
  BY <1>1, <1>3, FirstFrame
<1>10. stack' = Append(stack, r) /\ env' = Append(e2, EmptyFrame) /\ var' = Len(var_stack')
  BY DEF BindDefault
<1> HIDE DEF r, e2, val2
<1>11. Sound(valnode, is_local', var_stack', Len(var_stack'), Append(stack, r), Append(e2, EmptyFrame))
  <2>1. Sound(valnode, is_local', var_stack', var, stack, e2)
    BY <1>5, <1>6
  <2>2. r.vsp <= Len(var_stack')
    BY <1>1, <1>2, <1>4, <1>7
  <2>3. r.tag \in DOMAIN e2[Len(e2)] /\ r.frames = Len(e2) /\ r.cont # "catch_followup"
    BY <1>7, <1>8
  <2>4. Len(stack) # 0
    BY <1>3
  <2> QED
    BY <1>7, <2>1, <2>2, <2>3, <2>4, EnterSound
<1>12. Sound(valnode', is_local', var_stack', var', stack', env')
  <2>1. valnode' = valnode
    BY DEF BindDefault
  <2> QED
    BY <1>10, <1>11, <2>1
<1>13. env'[1] = env[1] /\ has_global' = has_global
  <2>1. env'[1] = e2[1]
    BY <1>1, <1>8, <1>10, EmptyFrameType, FirstFrame
  <2> QED
    BY <1>9, <2>1 DEF BindDefault
<1>14. Registers'
  <2>1. stack' # <<>>
    BY <1>7, <1>10, PushedFacts
  <2> QED
    BY <2>1 DEF IInv, Registers, BindDefault
<1> QED
  BY <1>12, <1>13, <1>14, Keeps

LEMMA BindDoneStep ==
  ASSUME IInv, BindDone
  PROVE  IInv'
<1>1. Sound(valnode', is_local', var_stack', var', stack', env')
  BY StateFacts DEF BindDone
<1>2. Registers'
  BY DEF IInv, Registers, BindDone
<1> QED
  BY <1>1, <1>2, Keeps DEF BindDone

\* The innermost variable of a name is the global one if it has no saved binding.
LEMMA LocalOrGlobal ==
  ASSUME IInv, CatchTail = FALSE, stack # <<>>, NEW n \in Name \ {ERRACT}
  PROVE  Innermost(n) = 1 <=> ~is_local[n]
<1>1. SameNames(var_stack, var, stack, env) /\ Bottom(var_stack, var, stack, env)
  BY DEF IInv, Sound, Shape, Meaning
<1>2. Len(stack) > 0 /\ 1 \in 1 .. Len(stack) /\ Len(stack) \in Nat
  BY TopFacts
<1>3. Resets(stack, 1) /\ stack[1].frames = 1 /\ VarAt(stack, var, 2) = 0
  BY <1>1, <1>2 DEF Bottom, Resets
<1>4. is_local[n] <=> Named(var_stack, n, 0, Len(var_stack))
  BY StateFacts
<1>5. is_local[n] <=> HasVar(env, n, 1, Len(env))
  <2>1. Named(var_stack, n, VarAt(stack, var, 1 + 1), Len(var_stack)) <=> HasVar(env, n, stack[1].frames, Len(env))
    BY <1>1, <1>2, <1>3 DEF SameNames
  <2> QED
    BY <1>3, <1>4, <2>1
<1>6. Nearest(env, n, Len(env), Innermost(n)) /\ Len(env) \in Nat
  BY InnermostFacts, StateFacts
<1> QED
  BY <1>5, <1>6 DEF HasVar, Nearest

\* MAKE and ERN: the nearest variable.
LEMMA AssignStep ==
  ASSUME IInv, Running, NEW n \in Name, NEW v \in Thing,
         valnode' = [valnode EXCEPT ![n] = v], AssignInnermost(n, v),
         UNCHANGED <<is_local, var_stack, var, vsp, formals, stack, binding, throwing>>,
         NEW b \in BOOLEAN,
         has_global' = IF is_local[n] THEN has_global ELSE [has_global EXCEPT ![n] = b],
         v # UNBOUND => b = TRUE
  PROVE  IInv'
<1>1. /\ Sound(valnode, is_local, var_stack, var, stack, env) /\ env \in Seq(Frame)
      /\ Len(env) \in Nat \ {0}
  BY StateFacts
<1>2. Nearest(env, n, Len(env), Innermost(n)) /\ Innermost(n) \in 1 .. Len(env)
  BY InnermostFacts
<1>3. Sound([valnode EXCEPT ![n] = v], is_local, var_stack, var, stack,
            [env EXCEPT ![Innermost(n)] = With(@, n, v)])
  BY <1>1, <1>2, AssignOneSound
<1>4. Sound(valnode', is_local', var_stack', var', stack', env')
  BY <1>3 DEF AssignInnermost
<1>5. has_global \in [Name -> BOOLEAN]
  BY DEF IInv, Registers
<1>6. Registers'
  BY <1>5 DEF IInv, Registers
<1>7. ASSUME CatchTail = FALSE, NEW m \in Name \ {ERRACT}, env'[1][m] # UNBOUND
      PROVE  has_global'[m] \/ (env'[1][m] = env[1][m] /\ has_global'[m] = has_global[m])
  <2>1. CASE Innermost(n) # 1
    <3>1. env'[1] = env[1]
      BY <1>1, <2>1, FirstFrame DEF AssignInnermost
    <3>2. CASE m = n
      <4>1. n = ERRACT \/ is_local[n]
        BY <1>7, <2>1, LocalOrGlobal DEF Running
      <4> QED
        BY <1>7, <3>1, <3>2, <4>1
    <3>3. CASE m # n
      BY <1>5, <3>1, <3>3
    <3> QED
      BY <3>2, <3>3
  <2>2. CASE Innermost(n) = 1
    <3>1. 1 \in 1 .. Len(env)
      BY <1>1
    <3>2. env' = [env EXCEPT ![1] = With(@, n, v)]
      BY <2>2 DEF AssignInnermost
    <3>3. DOMAIN env[1] = Name
      BY DEF IInv, Sound, Shape, Types
    <3>4. env'[1][n] = v /\ \A k \in Name : k # n => env'[1][k] = env[1][k]
      BY <1>1, <3>1, <3>2, <3>3, WithAt
    <3>5. CASE m # n
      BY <1>5, <3>4, <3>5
    <3>6. CASE m = n
      <4>1. b = TRUE
        BY <1>7, <3>4, <3>6
      <4>2. CASE ~is_local[n]
        BY <1>5, <3>6, <4>1, <4>2
      <4>3. CASE is_local[n]
        BY <1>7, <2>2, <3>6, <4>3, LocalOrGlobal DEF Running
      <4> QED
        BY <4>2, <4>3
    <3> QED
      BY <3>5, <3>6
  <2> QED
    BY <2>1, <2>2
<1> QED
  BY <1>4, <1>6, <1>7, Keeps

LEMMA MakeStep ==
  ASSUME IInv, NEW n \in Name, NEW v \in Value, Make(n, v)
  PROVE  IInv'
<1>1. v \in Thing /\ TRUE \in BOOLEAN
  BY DEF Thing
<1> QED
  BY <1>1, AssignStep DEF Make

LEMMA EraseNameStep ==
  ASSUME IInv, NEW n \in Name, EraseName(n)
  PROVE  IInv'
<1>1. UNBOUND \in Thing /\ FALSE \in BOOLEAN
  BY DEF Thing
<1> QED
  BY <1>1, AssignStep DEF EraseName

LEMMA EraseNamesStep ==
  ASSUME IInv, NEW S \in SUBSET Name, EraseNames(S)
  PROVE  IInv'
<1> DEFINE f == [n \in S |-> UNBOUND]
<1>1. /\ Sound(valnode, is_local, var_stack, var, stack, env) /\ env \in Seq(Frame)
      /\ Len(env) \in Nat \ {0} /\ DOMAIN env = 1 .. Len(env) /\ valnode \in [Name -> Thing]
  BY StateFacts
<1>2. valnode' = [n \in Name |-> IF n \in S THEN UNBOUND ELSE valnode[n]]
      /\ env' = [i \in DOMAIN env |-> [n \in DOMAIN env[i] |->
                   IF n \in S /\ i = Innermost(n) THEN UNBOUND ELSE env[i][n]]]
      /\ stack # <<>>
  BY DEF EraseNames, Running
<1>3. valnode' \in [Name -> Thing] /\ \A n \in Name : valnode'[n] = IF n \in S THEN f[n] ELSE valnode[n]
  BY <1>1, <1>2 DEF Thing
<1>4. ASSUME NEW i \in 1 .. Len(env)
      PROVE  /\ env'[i] \in Frame /\ DOMAIN env'[i] = DOMAIN env[i]
             /\ \A n \in DOMAIN env[i] :
                    env'[i][n] = IF n \in S /\ i = Innermost(n) THEN UNBOUND ELSE env[i][n]
  <2>1. env'[i] = [n \in DOMAIN env[i] |->
                      IF n \in S /\ i = Innermost(n) THEN UNBOUND ELSE env[i][n]]
    BY <1>1, <1>2
  <2>2. env[i] \in Frame
    BY <1>1
  <2>3. PICK D \in SUBSET Name : env[i] \in [D -> Thing]
    BY <2>2, FrameType
  <2>4. env'[i] \in [D -> Thing] /\ DOMAIN env'[i] = DOMAIN env[i]
    BY <2>1, <2>3 DEF Thing
  <2> QED
    BY <2>1, <2>4, FrameType
<1>5. env' \in Seq(Frame) /\ Len(env') = Len(env)
  <2>1. DOMAIN env' = 1 .. Len(env)
    BY <1>1, <1>2
  <2>2. env' \in [1 .. Len(env) -> Frame]
    BY <1>1, <1>2, <1>4, <2>1
  <2> QED
    BY <1>1, <2>2
<1>6. ASSUME NEW i \in 1 .. Len(env), NEW n \in DOMAIN env[i]
      PROVE  env'[i][n] = IF n \in S /\ Nearest(env, n, Len(env), i) THEN f[n] ELSE env[i][n]
  <2>1. n \in Name
    BY <1>1, FrameValue
  <2>2. i = Innermost(n) <=> Nearest(env, n, Len(env), i)
    BY <1>1, <2>1, InnermostFacts, NearestIsOne
  <2> QED
    BY <1>4, <2>2
<1> HIDE DEF f
<1>7. Assigned(S, f, valnode, env, valnode', env')
  BY <1>3, <1>4, <1>5, <1>6 DEF Assigned
<1>8. Sound(valnode', is_local, var_stack, var, stack, env')
  BY <1>1, <1>3, <1>5, <1>7, AssignSound
<1>9. Sound(valnode', is_local', var_stack', var', stack', env')
  BY <1>8 DEF EraseNames
<1>10. Registers'
  BY DEF IInv, Registers, EraseNames
<1>11. \A n \in Name \ {ERRACT} : env'[1][n] # UNBOUND => env'[1][n] = env[1][n]
  <2>1. 1 \in 1 .. Len(env) /\ DOMAIN env[1] = Name
    BY <1>1 DEF IInv, Sound, Shape, Types
  <2> QED
    BY <1>4, <2>1
<1>12. has_global' = has_global
  BY DEF EraseNames
<1> QED
  BY <1>9, <1>10, <1>11, <1>12, Keeps

LEMMA GlobalStep ==
  ASSUME IInv, NEW n \in Name, Global(n)
  PROVE  IInv'
<1>1. Sound(valnode', is_local', var_stack', var', stack', env')
  BY StateFacts DEF Global
<1>2. has_global \in [Name -> BOOLEAN] /\ has_global' = [has_global EXCEPT ![n] = TRUE]
      /\ env' = env
  BY DEF IInv, Registers, Global
<1>3. Registers'
  BY <1>2 DEF IInv, Registers, Global
<1>4. \A m \in Name : has_global'[m] \/ has_global'[m] = has_global[m]
  BY <1>2
<1> QED
  BY <1>1, <1>2, <1>3, <1>4, Keeps

LEMMA ThrowStep ==
  ASSUME IInv, NEW t \in Tag, Throw(t)
  PROVE  IInv'
<1>1. Sound(valnode', is_local', var_stack', var', stack', env')
  BY StateFacts DEF Throw
<1>2. Registers'
  BY DEF IInv, Registers, Throw, Running
<1> QED
  BY <1>1, <1>2, Keeps DEF Throw

LEMMA CatchStep ==
  ASSUME IInv, NEW t \in Tag, Catch(t)
  PROVE  IInv'
<1> DEFINE r == Entry("catch_followup", t)
<1>1. r \in EntryRecord /\ r.cont = "catch_followup" /\ r.var = var /\ r.frames = Len(env)
  BY EntryFacts DEF Cont
<1>2. stack' = Append(stack, r) /\ stack # <<>>
  BY DEF Catch, Push, Running
<1>3. Len(stack) > 0
  BY <1>2, TopFacts
<1> HIDE DEF r
<1>4. Sound(valnode, is_local, var_stack, var, Append(stack, r), env)
  BY <1>1, <1>3, CatchSound, StateFacts
<1>5. Sound(valnode', is_local', var_stack', var', stack', env')
  BY <1>2, <1>4 DEF Catch
<1>6. Registers'
  <2>1. stack' # <<>>
    BY <1>1, <1>2, PushedFacts
  <2> QED
    BY <2>1 DEF IInv, Registers, Catch, Running
<1> QED
  BY <1>5, <1>6, Keeps DEF Catch

\* A frame that gets another value for ERRACT has the values it had for the rest.
LEMMA ErractFirst ==
  ASSUME NEW e \in Seq(Frame), Len(e) >= 1, DOMAIN e[1] = Name,
         NEW j \in 1 .. Len(e), NEW v \in Thing
  PROVE  \A m \in Name \ {ERRACT} : [e EXCEPT ![j] = With(@, ERRACT, v)][1][m] = e[1][m]
<1>1. CASE j = 1
  BY <1>1, ErractAssumption, WithAt
<1>2. CASE j # 1
  BY <1>2, FirstFrame
<1> QED
  BY <1>1, <1>2

LEMMA CatchErrorStep ==
  ASSUME IInv, CatchError
  PROVE  IInv'
<1> DEFINE r == [Entry("catch_followup", "error") EXCEPT !.erract = Lookup(ERRACT)]
           b == [name |-> ERRACT, old |-> valnode[ERRACT], localsave |-> is_local[ERRACT]]
           vst2 == Append(var_stack, b)
           loc2 == [is_local EXCEPT ![ERRACT] = TRUE]
           val2 == [valnode EXCEPT ![ERRACT] = UNBOUND]
           e2 == [env EXCEPT ![Innermost(ERRACT)] = With(@, ERRACT, UNBOUND)]
<1>1. /\ Sound(valnode, is_local, var_stack, var, stack, env) /\ env \in Seq(Frame)
      /\ Len(env) \in Nat \ {0} /\ valnode \in [Name -> Thing] /\ DOMAIN env[1] = Name
  BY StateFacts DEF IInv, Sound, Shape, Types
<1>2. /\ Innermost(ERRACT) \in 1 .. Len(env) /\ ERRACT \in DOMAIN env[Innermost(ERRACT)]
      /\ Lookup(ERRACT) \in Thing
  BY ErractAssumption, InnermostFacts
<1>3. /\ stack' = Append(stack, r) /\ var_stack' = vst2 /\ is_local' = loc2 /\ valnode' = val2
      /\ env' = e2 /\ var' = var /\ stack # <<>> /\ "error" \in Tag
  BY DEF CatchError, Running, SavedBinding, AssignInnermost
<1>4. r \in EntryRecord /\ r.cont = "catch_followup" /\ r.var = var /\ r.frames = Len(env)
  <2>1. Entry("catch_followup", "error") \in EntryRecord
    BY <1>3, EntryFacts DEF Cont
  <2>2. r \in EntryRecord
    BY <1>2, <2>1 DEF EntryRecord
  <2> QED
    BY <2>2 DEF Entry
<1>5. Len(stack) > 0
  BY <1>3, TopFacts
<1>6. Sound(valnode, loc2, vst2, var, stack, env)
  BY <1>1, <1>5, PushErractSound
<1>7. val2 \in [Name -> Thing] /\ UNBOUND \in Thing /\ \A m \in Name \ {ERRACT} : val2[m] = valnode[m]
  BY <1>1 DEF Thing
<1>8. Len(e2) = Len(env)
  BY <1>1
<1>9. \A m \in Name \ {ERRACT} : e2[1][m] = env[1][m]
  BY <1>1, <1>2, <1>7, ErractFirst
<1> HIDE DEF loc2, vst2, val2, r
<1>10. Sound(val2, loc2, vst2, var, stack, e2)
  BY <1>2, <1>6, <1>7, ErractSound
<1> HIDE DEF e2
<1>11. Sound(val2, loc2, vst2, var, Append(stack, r), e2)
  BY <1>4, <1>5, <1>8, <1>10, CatchSound
<1>12. Sound(valnode', is_local', var_stack', var', stack', env')
  BY <1>3, <1>11
<1>13. Registers'
  <2>1. stack' # <<>>
    BY <1>3, <1>4, PushedFacts
  <2> QED
    BY <2>1 DEF IInv, Registers, CatchError, Running
<1>14. has_global' = has_global
  BY DEF CatchError
<1> QED
  BY <1>3, <1>9, <1>12, <1>13, <1>14, Keeps

\* reset_args at the end of a construct leaves the global variables alone.
LEMMA EndResetStep ==
  ASSUME IInv, NEW cont \in Cont, EndReset(cont)
  PROVE  IInv'
<1>1. /\ stack # <<>> /\ ~binding /\ Top.cont = cont /\ cont # "catch_followup"
      /\ cont # "set_args_continue"
  BY DEF EndReset, Ending
<1>2. Sound(ResetValue, ResetFlag, SubSeq(var_stack, 1, var), Top.var,
            SubSeq(stack, 1, Len(stack) - 1), SubSeq(env, 1, Top.frames))
  BY <1>1, ResetStep
<1>3. Sound(valnode', is_local', var_stack', var', stack', env')
  BY <1>2 DEF EndReset, ResetArgs, Pop, CutBack, ResetValue, ResetFlag
<1>4. /\ Top.frames \in 1 .. Len(env) /\ Top.vsp \in Nat /\ Top.formals \in SUBSET Name
      /\ Len(stack) \in Nat \ {0}
  BY <1>1, TopFacts
<1>5. env'[1] = env[1] /\ has_global' = has_global
  BY <1>4, FirstFrame, StateFacts DEF EndReset, CutBack
<1>6. Registers'
  <2>1. stack' = <<>> => Len(stack) = 1
    <3>1. Len(stack) - 1 \in 0 .. Len(stack) /\ stack \in Seq(EntryRecord)
      BY <1>4, StateFacts
    <3>2. Len(stack') = Len(stack) - 1
      BY <3>1, Prefix DEF EndReset, Pop
    <3> QED
      BY <1>4, <3>2
  <2> QED
    BY <1>1, <1>4, <2>1 DEF IInv, Registers, EndReset
<1> QED
  BY <1>3, <1>5, <1>6, Keeps

\* The end of one round of REPEAT, and the beginning of the next.
LEMMA RepeatAgainStep ==
  ASSUME IInv, RepeatAgain
  PROVE  IInv'
<1> DEFINE vst2 == SubSeq(var_stack, 1, var)
           stk2 == SubSeq(stack, 1, Len(stack) - 1)
           e2 == SubSeq(env, 1, Top.frames)
<1>1. stack # <<>> /\ ~binding /\ Top.cont = "repeat_followup"
  BY DEF RepeatAgain, Ending
<1>2. Sound(ResetValue, ResetFlag, vst2, Top.var, stk2, e2)
  BY <1>1, ResetStep
<1>3. /\ Len(stack) \in Nat \ {0, 1} /\ Top \in EntryRecord /\ Top.frames \in 1 .. Len(env)
      /\ stack \in Seq(EntryRecord) /\ env \in Seq(Frame) /\ Len(env) >= 1
  BY <1>1, TopFacts, StateFacts
<1>4. Len(vst2) = var
  <2>1. var_stack \in Seq(Binding) /\ var \in 0 .. Len(var_stack)
    BY StateFacts
  <2> QED
    BY <2>1, Prefix
<1>5. e2 \in Seq(Frame) /\ Len(e2) = Top.frames /\ Len(e2) >= 1
  <2>1. Top.frames \in 0 .. Len(env)
    BY <1>3
  <2> QED
    BY <1>3, <2>1, Prefix
<1>6. Len(stk2) # 0 /\ Append(stk2, Top) = stack
  <2>1. Len(stack) - 1 \in 0 .. Len(stack)
    BY <1>3
  <2>2. Len(stk2) = Len(stack) - 1 /\ stk2 \in Seq(EntryRecord)
        /\ \A i \in 1 .. Len(stack) - 1 : stk2[i] = stack[i]
    BY <1>3, <2>1, Prefix
  <2> HIDE DEF stk2
  <2>3. /\ Append(stk2, Top) \in Seq(EntryRecord)
        /\ Len(Append(stk2, Top)) = Len(stack)
        /\ \A i \in 1 .. Len(stack) - 1 : Append(stk2, Top)[i] = stack[i]
        /\ Append(stk2, Top)[Len(stack)] = Top
    BY <1>3, <2>2, Appended
  <2>4. \A i \in 1 .. Len(stack) : Append(stk2, Top)[i] = stack[i]
    <3>1. \A i \in 1 .. Len(stack) : i \in 1 .. Len(stack) - 1 \/ i = Len(stack)
      BY <1>3
    <3> QED
      BY <2>3, <3>1 DEF Top
  <2> QED
    BY <1>3, <2>2, <2>3, <2>4
<1> HIDE DEF vst2, stk2, e2
<1>7. Sound(ResetValue, ResetFlag, vst2, Len(vst2), Append(stk2, Top), Append(e2, EmptyFrame))
  BY <1>1, <1>2, <1>3, <1>5, <1>6, EnterSound
<1>8. /\ valnode' = ResetValue /\ is_local' = ResetFlag /\ var_stack' = vst2 /\ var' = var
      /\ stack' = stack /\ env' = Append(e2, EmptyFrame) /\ has_global' = has_global
  BY DEF RepeatAgain, ResetArgs, ResetValue, ResetFlag, vst2, e2
<1>9. Sound(valnode', is_local', var_stack', var', stack', env')
  BY <1>4, <1>6, <1>7, <1>8
<1>10. env'[1] = env[1]
  <2>1. env'[1] = e2[1]
    BY <1>5, <1>8, EmptyFrameType, FirstFrame
  <2> QED
    BY <1>3, <2>1, FirstFrame DEF e2
<1>11. Registers'
  BY <1>1 DEF IInv, Registers, RepeatAgain
<1> QED
  BY <1>8, <1>9, <1>10, <1>11, Keeps

\* The default expression has a value, or a throw gives the call up.
LEMMA EndDefaultStep ==
  ASSUME IInv, NEW arg \in Thing, EndDefault(arg)
  PROVE  IInv'
<1> DEFINE vst2 == SubSeq(var_stack, 1, var)
           stk2 == SubSeq(stack, 1, Len(stack) - 1)
           e2 == SubSeq(env, 1, Top.frames)
           n == Top.tag
<1>1. stack # <<>> /\ ~binding /\ Top.cont = "set_args_continue"
  BY DEF EndDefault, Ending
<1>2. Sound(ResetValue, ResetFlag, vst2, Top.var, stk2, e2) /\ ResetValue \in [Name -> Thing]
  BY <1>1, ResetStep
<1>3. /\ Len(stack) \in Nat /\ Len(stack) > 1 /\ Len(stack) - 1 # 0 /\ Top.frames \in 1 .. Len(env) /\ Top.frames > 1
      /\ stack \in Seq(EntryRecord) /\ env \in Seq(Frame) /\ Len(env) \in Nat
      /\ n \in DOMAIN env[Top.frames] /\ Top.vsp <= var /\ Top.vsp \in Nat
      /\ Top.formals \in SUBSET Name
  <2>1. Resets(stack, Len(stack))
    BY <1>1 DEF Resets, Top
  <2>2. Len(stack) \in Nat \ {0, 1}
    BY <1>1, TopFacts
  <2>3. Len(stack) \in Nat /\ Len(stack) > 1 /\ Len(stack) - 1 # 0
    BY <2>2, AboveOne
  <2>4. /\ Top.frames \in 1 .. Len(env) /\ Top.frames > 1
        /\ n \in DOMAIN env[Top.frames] /\ Top.vsp <= var /\ Top.vsp \in Nat
        /\ Top.formals \in SUBSET Name
    BY <1>1, <2>1, <2>3, TopFacts
  <2>5. stack \in Seq(EntryRecord) /\ env \in Seq(Frame) /\ Len(env) \in Nat
    BY StateFacts
  <2> HIDE DEF n
  <2> QED
    BY <2>3, <2>4, <2>5
<1>4. Len(vst2) = var
  <2>1. var_stack \in Seq(Binding) /\ var \in 0 .. Len(var_stack)
    BY StateFacts
  <2> QED
    BY <2>1, Prefix
<1>5. e2 \in Seq(Frame) /\ Len(e2) = Top.frames /\ e2[1] = env[1] /\ n \in DOMAIN e2[Len(e2)]
  <2>1. Top.frames \in 0 .. Len(env) /\ 1 \in 1 .. Top.frames /\ Top.frames \in 1 .. Top.frames
    BY <1>3
  <2>2. e2 \in Seq(Frame) /\ Len(e2) = Top.frames /\ \A i \in 1 .. Top.frames : e2[i] = env[i]
    BY <1>3, <2>1, Prefix
  <2> HIDE DEF e2, n
  <2> QED
    BY <1>3, <2>1, <2>2
<1>6. n \in Name
  <2>1. env[Top.frames] \in Frame
    BY <1>3
  <2> QED
    BY <1>3, <2>1, FrameValue
<1>7. Len(stk2) # 0
  <2>1. Len(stack) - 1 \in 0 .. Len(stack) /\ stack \in Seq(EntryRecord)
    BY <1>3
  <2>2. Len(stk2) = Len(stack) - 1
    BY <2>1, Prefix
  <2> HIDE DEF stk2
  <2> QED
    BY <1>3, <2>2
<1>8. /\ valnode' = IF throwing = NoTag THEN [ResetValue EXCEPT ![n] = arg] ELSE ResetValue
      /\ env' = IF throwing = NoTag THEN [e2 EXCEPT ![Top.frames] = With(@, n, arg)] ELSE e2
      /\ is_local' = ResetFlag /\ var_stack' = vst2 /\ var' = Top.var /\ stack' = stk2
      /\ has_global' = has_global
  BY DEF EndDefault, ResetValue, ResetFlag, Pop
<1>9. vsp' = Top.vsp /\ binding' = (throwing = NoTag)
      /\ formals' = IF throwing = NoTag THEN Top.formals ELSE {}
  BY DEF EndDefault
<1> HIDE DEF vst2, stk2, e2, n
<1>10. Sound(valnode', is_local', var_stack', var', stack', env')
  <2>1. CASE throwing = NoTag
    <3>1. Nearest(e2, n, Len(e2), Top.frames)
      BY <1>3, <1>5 DEF Nearest
    <3>2. Sound([ResetValue EXCEPT ![n] = arg], ResetFlag, vst2, Top.var, stk2,
                [e2 EXCEPT ![Top.frames] = With(@, n, arg)])
      BY <1>2, <1>6, <3>1, AssignOneSound
    <3> QED
      BY <1>8, <2>1, <3>2
  <2>2. CASE throwing # NoTag
    BY <1>2, <1>8, <2>2
  <2> QED
    BY <2>1, <2>2
<1>11. env'[1] = env[1]
  <2>1. CASE throwing = NoTag
    <3>1. env' = [e2 EXCEPT ![Top.frames] = With(@, n, arg)] /\ Top.frames # 1
          /\ Len(e2) >= 1
      BY <1>3, <1>5, <1>8, <2>1
    <3> QED
      BY <1>5, <3>1, FirstFrame
  <2>2. CASE throwing # NoTag
    BY <1>5, <1>8, <2>2
  <2> QED
    BY <2>1, <2>2
<1>12. Registers'
  <2>1. stack' # <<>>
    BY <1>7, <1>8
  <2>2. vsp' \in Nat /\ vsp' <= Len(var_stack')
    BY <1>3, <1>4, <1>8, <1>9
  <2>3. binding' \in BOOLEAN /\ formals' \in SUBSET Name
    BY <1>3, <1>9
  <2>4. has_global' \in [Name -> BOOLEAN]
    BY <1>8 DEF IInv, Registers
  <2> QED
    BY <2>1, <2>2, <2>3, <2>4 DEF Registers
<1> QED
  BY <1>8, <1>10, <1>11, <1>12, Keeps

LEMMA EndCatchStep ==
  ASSUME IInv, EndCatch
  PROVE  IInv'
<1> DEFINE stk2 == SubSeq(stack, 1, Len(stack) - 1)
           e2 == SubSeq(env, 1, Top.frames)
           i == CHOOSE i \in DOMAIN e2 : /\ ERRACT \in DOMAIN e2[i]
                                         /\ \A j \in DOMAIN e2 : ERRACT \in DOMAIN e2[j] => j <= i
           e3 == [e2 EXCEPT ![i] = With(@, ERRACT, Top.erract)]
<1>1. stack # <<>> /\ ~binding /\ Top.cont = "catch_followup"
  BY DEF EndCatch, Ending
<1>2. /\ Len(stack) \in Nat /\ Len(stack) > 1 /\ Top.frames \in 1 .. Len(env)
      /\ stack \in Seq(EntryRecord) /\ env \in Seq(Frame) /\ Len(env) >= 1 /\ Top.erract \in Thing
  <2>1. Len(stack) \in Nat \ {0, 1}
    BY <1>1, TopFacts
  <2>2. Len(stack) \in Nat /\ Len(stack) > 1
    BY <2>1, AboveOne
  <2>3. Top.frames \in 1 .. Len(env) /\ Top.erract \in Thing
    BY <1>1, TopFacts
  <2>4. stack \in Seq(EntryRecord) /\ env \in Seq(Frame) /\ Len(env) >= 1
    BY StateFacts
  <2> QED
    BY <2>2, <2>3, <2>4
<1>3. Sound(valnode, is_local, var_stack, var, stk2, e2)
  <2>1. ~Resets(stack, Len(stack)) /\ Len(stack) > 0
    BY <1>1, <1>2 DEF Resets, Top
  <2> QED
    BY <2>1, CatchEndSound, StateFacts DEF Top
<1>4. Len(stk2) # 0
  <2>1. Len(stack) - 1 \in 0 .. Len(stack) /\ stack \in Seq(EntryRecord)
    BY <1>2
  <2>2. Len(stk2) = Len(stack) - 1
    BY <2>1, Prefix
  <2> HIDE DEF stk2
  <2> QED
    BY <1>2, <2>2
<1>5. e2 \in Seq(Frame) /\ Len(e2) = Top.frames /\ e2[1] = env[1]
      /\ DOMAIN e2 = 1 .. Len(e2) /\ Len(e2) \in 1 .. Len(e2) /\ Len(e2) >= 1
  <2>1. Top.frames \in 0 .. Len(env) /\ 1 \in 1 .. Top.frames
    BY <1>2
  <2>2. e2 \in Seq(Frame) /\ Len(e2) = Top.frames /\ e2[1] = env[1]
    BY <1>2, <2>1, Prefix
  <2> QED
    BY <1>2, <2>2
<1>6. /\ stack' = stk2 /\ env' = IF Top.tag = "error" THEN e3 ELSE e2
      /\ UNCHANGED <<valnode, is_local, has_global, var_stack, var, vsp, formals, binding>>
  BY DEF EndCatch, Pop
<1> HIDE DEF stk2, e2
<1>7. i \in 1 .. Len(e2) /\ ERRACT \in DOMAIN e2[i]
  <2>1. Found(var_stack, e2)
    BY <1>3 DEF Sound, Shape
  <2>2. PICK j \in 1 .. Len(e2) : Nearest(e2, ERRACT, Len(e2), j)
    BY <1>5, <2>1, ErractAssumption DEF Found
  <2>3. /\ j \in DOMAIN e2 /\ ERRACT \in DOMAIN e2[j]
        /\ \A k \in DOMAIN e2 : ERRACT \in DOMAIN e2[k] => k <= j
    BY <1>5, <2>2 DEF Nearest
  <2>4. i \in DOMAIN e2 /\ ERRACT \in DOMAIN e2[i]
    BY <2>3
  <2> QED
    BY <1>5, <2>4
<1>8. DOMAIN e2[1] = Name
  BY <1>3 DEF Sound, Shape, Types
<1> HIDE DEF i
<1>9. Sound(valnode, is_local, var_stack, var, stk2, e3)
  <2>1. valnode \in [Name -> Thing]
    BY StateFacts
  <2> QED
    BY <1>2, <1>3, <1>7, <2>1, ErractSound
<1>10. \A m \in Name \ {ERRACT} : e3[1][m] = e2[1][m]
  BY <1>2, <1>5, <1>7, <1>8, ErractFirst
<1> HIDE DEF e3
<1>11. Sound(valnode', is_local', var_stack', var', stack', env')
  BY <1>3, <1>6, <1>9
<1>12. \A m \in Name \ {ERRACT} : env'[1][m] = env[1][m]
  BY <1>5, <1>6, <1>10
<1>13. Registers'
  BY <1>1, <1>4, <1>6 DEF IInv, Registers
<1> QED
  BY <1>6, <1>11, <1>12, <1>13, Keeps

-----------------------------------------------------------------------------
(* The invariant holds. *)

LEMMA InitIInv == Init => IInv
<1> SUFFICES ASSUME Init PROVE IInv
  OBVIOUS
<1> DEFINE globals == [n \in Name |-> UNBOUND]
<1>1. /\ globals \in Frame /\ DOMAIN globals = Name /\ \A n \in Name : globals[n] = UNBOUND
  BY FrameType DEF Thing
<1>2. /\ valnode = globals /\ env = <<globals>> /\ is_local = [n \in Name |-> FALSE]
      /\ var_stack = <<>> /\ stack = <<>> /\ var = 0
  BY DEF Init
<1>3. valnode \in [Name -> Thing]
  BY <1>2 DEF Thing
<1> HIDE DEF globals
<1>4. Len(env) = 1 /\ env[1] = globals /\ env \in Seq(Frame) /\ Len(stack) = 0 /\ Len(var_stack) = 0
      /\ var_stack \in Seq(Binding) /\ stack \in Seq(EntryRecord)
  BY <1>1, <1>2
<1>5. Types(valnode, is_local, var_stack, var, stack, env)
  BY <1>1, <1>2, <1>3, <1>4 DEF Types
<1>6. Ordered(stack, var, env) /\ CatchKeeps(stack, var, env) /\ Defaults(stack, var, env)
  BY <1>4 DEF Ordered, CatchKeeps, Defaults
<1>7. Bottom(var_stack, var, stack, env)
  BY <1>2, <1>4 DEF Bottom
<1>8. Flags(is_local, var_stack)
  BY <1>2, <1>4 DEF Flags, Named
<1>9. Found(var_stack, env)
  BY <1>1, <1>4 DEF Found, Named, Nearest
<1>10. Meaning(valnode, var_stack, var, stack, env)
  <2>1. SameNames(var_stack, var, stack, env) /\ Restores(var_stack, var, stack, env)
    BY <1>4 DEF SameNames, Restores
  <2>2. Current(valnode, env)
    BY <1>2, <1>4 DEF Current
  <2> QED
    BY <2>1, <2>2 DEF Meaning
<1>11. Registers
  BY DEF Init, Registers
<1>12. GlobalFlag
  BY <1>1, <1>4 DEF GlobalFlag
<1> QED
  BY <1>5, <1>6, <1>7, <1>8, <1>9, <1>10, <1>11, <1>12 DEF IInv, Sound, Shape

LEMMA NextIInv == IInv /\ [Next]_vars => IInv'
<1> SUFFICES ASSUME IInv, [Next]_vars PROVE IInv'
  OBVIOUS
<1>1. CASE Variables
  <2>1. ASSUME NEW n \in Name, NEW v \in Value, Make(n, v) PROVE IInv'
    BY <2>1, MakeStep
  <2>2. ASSUME NEW n \in Name, Local(n) PROVE IInv'
    BY <2>2, LocalStep
  <2>3. ASSUME NEW n \in Name, Global(n) PROVE IInv'
    BY <2>3, GlobalStep
  <2>4. ASSUME NEW n \in Name, EraseName(n) PROVE IInv'
    BY <2>4, EraseNameStep
  <2>5. ASSUME NEW S \in SUBSET Name, EraseNames(S) PROVE IInv'
    BY <2>5, EraseNamesStep
  <2> QED
    BY <1>1, <2>1, <2>2, <2>3, <2>4, <2>5 DEF Variables
<1>2. CASE Calls
  <2>1. ASSUME NEW S \in SUBSET Name, Call(S) PROVE IInv'
    BY <2>1, CallStep
  <2>2. ASSUME NEW S \in SUBSET Name, TailCall(S) PROVE IInv'
    BY <2>2, TailCallStep
  <2>3. ASSUME NEW n \in Name, NEW arg \in Thing, BindFormal(n, arg) PROVE IInv'
    BY <2>3, BindFormalStep
  <2>4. ASSUME NEW n \in Name, BindDefault(n) PROVE IInv'
    BY <2>4, BindDefaultStep
  <2>5. CASE BindDone
    BY <2>5, BindDoneStep
  <2> QED
    BY <1>2, <2>1, <2>2, <2>3, <2>4, <2>5 DEF Calls
<1>3. CASE Lists
  <2>1. CASE Evaluator
    BY <2>1, EvaluatorStep
  <2>2. CASE Repeat
    BY <2>2, RunListStep DEF Repeat
  <2>3. CASE Apply
    BY <2>3, RunListStep DEF Apply
  <2>4. CASE CatchError
    BY <2>4, CatchErrorStep
  <2>5. ASSUME NEW t \in Tag, Catch(t) PROVE IInv'
    BY <2>5, CatchStep
  <2>6. ASSUME NEW t \in Tag, Throw(t) PROVE IInv'
    BY <2>6, ThrowStep
  <2> QED
    BY <1>3, <2>1, <2>2, <2>3, <2>4, <2>5, <2>6 DEF Lists
<1>4. CASE Continuations
  <2>1. ASSUME NEW cont \in Cont, EndReset(cont) PROVE IInv'
    BY <2>1, EndResetStep
  <2>2. CASE RepeatAgain
    BY <2>2, RepeatAgainStep
  <2>3. ASSUME NEW arg \in Thing, EndDefault(arg) PROVE IInv'
    BY <2>3, EndDefaultStep
  <2>4. CASE EndCatch
    BY <2>4, EndCatchStep
  <2> QED
    BY <1>4, <2>1, <2>2, <2>3, <2>4 DEF Continuations
<1>5. CASE UNCHANGED vars
  <2>1. Sound(valnode', is_local', var_stack', var', stack', env')
    BY <1>5, StateFacts DEF vars
  <2>2. Registers'
    BY <1>5 DEF IInv, Registers, vars
  <2> QED
    BY <1>5, <2>1, <2>2, Keeps DEF vars
<1> QED
  BY <1>1, <1>2, <1>3, <1>4, <1>5 DEF Next

LEMMA Invariant == Spec => []IInv
  BY InitIInv, NextIInv, PTL DEF Spec

\* What the invariant means.

LEMMA IInvTypeOK == IInv => TypeOK
<1> SUFFICES ASSUME IInv PROVE TypeOK
  OBVIOUS
<1>1. /\ valnode \in [Name -> Thing] /\ is_local \in [Name -> BOOLEAN]
      /\ var_stack \in Seq(Binding) /\ stack \in Seq(EntryRecord) /\ env \in Seq(Frame)
      /\ Len(stack) \in Nat /\ Len(env) \in Nat
      /\ var \in 0 .. Len(var_stack)
  BY StateFacts
<1>2. /\ Types(valnode, is_local, var_stack, var, stack, env) /\ Ordered(stack, var, env)
  BY DEF IInv, Sound, Shape
<1>3. /\ \A i \in 1 .. Len(stack) + 1 : VarAt(stack, var, i) \in Nat /\ VarAt(stack, var, i) <= var
      /\ \A i \in 1 .. Len(stack) : /\ VarAt(stack, var, i) = stack[i].var
                                    /\ stack[i].frames \in 1 .. Len(env)
  BY <1>2, AtFacts
<1>4. ASSUME NEW i \in DOMAIN stack
      PROVE  /\ stack[i].cont \in Cont /\ stack[i].frames \in DOMAIN env
             /\ stack[i].var \in 0 .. var
  <2>1. i \in 1 .. Len(stack) /\ i \in 1 .. Len(stack) + 1 /\ stack[i] \in EntryRecord
    BY <1>1
  <2>2. stack[i].cont \in Cont
    BY <2>1 DEF EntryRecord
  <2>3. stack[i].var \in Nat /\ stack[i].var <= var /\ var \in Nat
    BY <1>1, <1>3, <2>1
  <2> QED
    BY <1>1, <1>3, <2>1, <2>2, <2>3
<1>5. ASSUME NEW i \in DOMAIN stack, NEW j \in DOMAIN stack, i <= j
      PROVE  stack[i].var <= stack[j].var
  <2>1. i \in 1 .. Len(stack) /\ i \in 1 .. Len(stack) + 1
        /\ j \in 1 .. Len(stack) /\ j \in 1 .. Len(stack) + 1
    BY <1>1
  <2>2. CASE i < j
    <3>1. VarAt(stack, var, i) <= VarAt(stack, var, j)
      BY <1>2, <2>1, <2>2 DEF Ordered
    <3> QED
      BY <1>3, <2>1, <3>1
  <2>3. CASE i = j
    <3>1. stack[i].var \in Nat
      BY <1>3, <2>1
    <3> QED
      BY <2>3, <3>1
  <2> QED
    BY <1>5, <2>1, <2>2, <2>3
<1>6. \A i \in DOMAIN var_stack :
          var_stack[i] \in [name : Name, old : Thing, localsave : BOOLEAN]
  <2>1. \A i \in DOMAIN var_stack : var_stack[i] \in Binding
    BY <1>1
  <2> QED
    BY <2>1 DEF Binding
<1>7. has_global \in [Name -> BOOLEAN] /\ binding \in BOOLEAN /\ formals \subseteq Name
  BY DEF IInv, Registers
<1>8. \A i \in DOMAIN env : env[i] \in Frame
  BY <1>1
<1> QED
  BY <1>1, <1>4, <1>5, <1>6, <1>7, <1>8 DEF TypeOK

LEMMA IInvFlags == IInv => LocalFlag /\ CleanTopLevel
<1> SUFFICES ASSUME IInv PROVE LocalFlag /\ CleanTopLevel
  OBVIOUS
<1>1. LocalFlag
  <2>1. var_stack \in Seq(Binding) /\ DOMAIN var_stack = 1 .. Len(var_stack)
    BY StateFacts
  <2> QED
    BY <2>1, StateFacts DEF LocalFlag, Named
<1>2. CleanTopLevel
  <2>1. Bottom(var_stack, var, stack, env) /\ Registers
    BY DEF IInv, Sound, Shape
  <2>2. var_stack \in Seq(Binding)
    BY StateFacts
  <2> QED
    BY <2>1, <2>2 DEF Bottom, Registers, CleanTopLevel
<1> QED
  BY <1>1, <1>2

LEMMA IInvAgrees == CatchTail = FALSE /\ IInv => Agrees
<1> SUFFICES ASSUME CatchTail = FALSE, IInv, NEW n \in Name \ {ERRACT}
             PROVE  valnode[n] = Lookup(n)
  BY DEF Agrees
<1>1. Current(valnode, env)
  BY DEF IInv, Sound, Meaning
<1>2. Nearest(env, n, Len(env), Innermost(n)) /\ Innermost(n) \in 1 .. Len(env)
  BY InnermostFacts
<1> QED
  BY <1>1, <1>2 DEF Current, Lookup

-----------------------------------------------------------------------------
(* The theorems. *)

\* The registers and the saved bindings always have their types, and the
\* position reset_args pops back to is always on var_stack: whatever procedures
\* call, catch, repeat, apply and throw, with CATCH lists of any kind.
THEOREM TypeCorrect == Spec => []TypeOK
  BY Invariant, IInvTypeOK, PTL

\* IS_LOCAL_VALUE, which spopl of reset_args puts back from LOCALSAVE, is set for
\* exactly the names that have a binding on var_stack.
THEOREM FlagsFollowBindings == Spec => []LocalFlag
  BY Invariant, IInvFlags, PTL

\* When the evaluation at the bottom is over, var_stack is empty: no binding is
\* left over by any way out of any nesting of constructs.
THEOREM NothingIsLeft == Spec => []CleanTopLevel
  BY Invariant, IInvFlags, PTL

\* Shallow binding computes dynamic scope when no list of CATCH ends in a call.
THEOREM DynamicScope ==
  ASSUME CatchTail = FALSE
  PROVE  Spec => []Agrees
<1>1. IInv => Agrees
  BY IInvAgrees
<1> QED
  BY <1>1, Invariant, PTL

\* The types, the flags and the clean top level together, with HAS_GLOBAL_VALUE,
\* which needs that a name without a saved binding has its global value.
THEOREM ScopeIsKept ==
  ASSUME CatchTail = FALSE
  PROVE  Spec => []ScopeInv
<1>1. IInv => ScopeInv
  BY IInvTypeOK, IInvFlags DEF IInv, ScopeInv
<1> QED
  BY <1>1, Invariant, PTL
=============================================================================
