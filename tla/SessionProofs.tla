----------------------------- MODULE SessionProofs -----------------------------
(***************************************************************************)
(* Session: the C stack, of any depth, with files of any length, any       *)
(* number of interrupts and any errors.                                    *)
(*                                                                         *)
(* loadstream says where the innermost LOAD is only because every LOAD on  *)
(* the stack holds where the next one out is: that is what Structure adds. *)
(* A handler is not started from a handler only because the value of       *)
(* ERRACT stays empty while one runs that has not given it a value; the    *)
(* handlers around it, which did, are no hindrance.                        *)
(*                                                                         *)
(* Arithmetic, in the second half, which shares nothing with the first:    *)
(* sums, quotients, comparisons and conversions are right at any width of  *)
(* the integers and any precision of the floats.  Every statement about a  *)
(* float comes down to two facts about rounding: the error is at most half *)
(* of the last bit kept, and a number that has the precision is kept.      *)
(***************************************************************************)
EXTENDS Session, MCData, SequenceTheorems, WellFoundedInduction, TLAPS

Loads == {"load", "startup"}

\* s is the last LOAD among the first n levels, or 0 when there is none.
LastLoad(s, lv, n) ==
    /\ s = 0 \/ (s \in 1 .. n /\ lv[s].kind \in Loads)
    /\ \A i \in 1 .. n : lv[i].kind \in Loads => i <= s

\* Only handlers that have given ERRACT a value have handlers above them, or are
\* there while it has one.
Handlers(lv, act) ==
    /\ \A i, j \in 1 .. Len(lv) :
           i < j /\ lv[i].kind = "erract" /\ lv[j].kind = "erract" => lv[i].own
    /\ \A i \in 1 .. Len(lv) : lv[i].kind = "erract" /\ act # "nil" => lv[i].own

Structure(lv, s, act) ==
    /\ lv \in Seq(Level)
    /\ Len(lv) \in 1 .. MaxLevels
    /\ \A i \in 1 .. Len(lv) : lv[i].kind = "top" <=> i = 1
    /\ LastLoad(s, lv, Len(lv))
    /\ \A i \in 1 .. Len(lv) : lv[i].kind \in Loads => LastLoad(lv[i].hold, lv, i - 1)
    /\ Handlers(lv, act)

\* What a handler gives back to ERRACT, and the error an err_logo is about.
LevelValues(lv) ==
    \A i \in 1 .. Len(lv) :
        /\ lv[i].kind = "erract" => lv[i].what \in {"nil", "act"}
        /\ lv[i].kind = "err_logo" => lv[i].what \in Errors

Registers ==
    /\ stopping \in {"run", "throw"} /\ throw_node \in Tags
    /\ err_mesg \in Errors \cup {"nil"} /\ erract \in {"nil", "act"}
    /\ erract_errtype \in Errors \cup {"fatal"}
    /\ LevelValues(levels)

Interrupts ==
    /\ masked \in BOOLEAN /\ eval_buttonact \in BOOLEAN /\ owed \in BOOLEAN
    /\ int_during_gc \in {0, 1} /\ breaks \in 0 .. Breaks
    /\ BreakKept

IInv == Structure(levels, loadstream, erract) /\ Registers /\ Interrupts

-----------------------------------------------------------------------------
(* The stack grows, shrinks, and changes in place. *)

LEMMA LoadBelow ==
  ASSUME NEW lv, NEW lw, NEW n \in Nat, \A i \in 1 .. n : lv[i].kind \in Loads <=> lw[i].kind \in Loads,
         NEW s, LastLoad(s, lv, n)
  PROVE  LastLoad(s, lw, n)
  BY DEF LastLoad

LEMMA Pushed ==
  ASSUME NEW lv, NEW s, NEW act, Structure(lv, s, act), Len(lv) < MaxLevels,
         NEW l \in Level, l.kind \notin {"top", "erract"}, NEW s2,
         IF l.kind \in Loads THEN l.hold = s /\ s2 = Len(lv) + 1 ELSE s2 = s
  PROVE  Structure(Append(lv, l), s2, act)
<1> DEFINE lw == Append(lv, l)
           L == Len(lv)
<1>1. /\ lv \in Seq(Level) /\ L \in 1 .. MaxLevels /\ L \in Nat
      /\ \A i \in 1 .. L : lv[i].kind = "top" <=> i = 1
      /\ LastLoad(s, lv, L)
      /\ \A i \in 1 .. L : lv[i].kind \in Loads => LastLoad(lv[i].hold, lv, i - 1)
      /\ \A i, j \in 1 .. L :
             i < j /\ lv[i].kind = "erract" /\ lv[j].kind = "erract" => lv[i].own
      /\ \A i \in 1 .. L : lv[i].kind = "erract" /\ act # "nil" => lv[i].own
  BY DEF Structure, Handlers
<1>2. /\ lw \in Seq(Level) /\ Len(lw) = L + 1 /\ lw[L + 1] = l
      /\ \A i \in 1 .. L : lw[i] = lv[i]
  BY <1>1
<1> HIDE DEF lw
<1>3. Len(lw) \in 1 .. MaxLevels
  BY <1>1, <1>2, SessionAssumption
<1>4. \A i \in 1 .. L + 1 : lw[i].kind = "top" <=> i = 1
  BY <1>1, <1>2
<1>5. LastLoad(s2, lw, L + 1)
  <2>1. CASE l.kind \in Loads
    BY <1>1, <1>2, <2>1 DEF LastLoad
  <2>2. CASE l.kind \notin Loads
    BY <1>1, <1>2, <2>2 DEF LastLoad
  <2> QED
    BY <2>1, <2>2
<1>6. ASSUME NEW i \in 1 .. L + 1, lw[i].kind \in Loads PROVE LastLoad(lw[i].hold, lw, i - 1)
  <2>1. i - 1 \in Nat /\ \A k \in 1 .. i - 1 : lw[k] = lv[k]
    BY <1>1, <1>2
  <2>2. LastLoad(lw[i].hold, lv, i - 1)
    <3>1. CASE i = L + 1
      BY <1>1, <1>2, <1>6, <3>1
    <3>2. CASE i # L + 1
      <4>1. i \in 1 .. L
        BY <1>1, <3>2
      <4> QED
        BY <1>1, <1>2, <1>6, <4>1
    <3> QED
      BY <3>1, <3>2
  <2> QED
    BY <2>1, <2>2, LoadBelow
<1>7. \A i, j \in 1 .. L + 1 :
          i < j /\ lw[i].kind = "erract" /\ lw[j].kind = "erract" => lw[i].own
  <2>1. \A i \in 1 .. L + 1 : lw[i].kind = "erract" => i \in 1 .. L
    BY <1>1, <1>2
  <2> QED
    BY <1>1, <1>2, <2>1
<1>8. \A i \in 1 .. L + 1 : lw[i].kind = "erract" /\ act # "nil" => lw[i].own
  <2>1. \A i \in 1 .. L + 1 : lw[i].kind = "erract" => i \in 1 .. L
    BY <1>1, <1>2
  <2> QED
    BY <1>1, <1>2, <2>1
<1>9. Structure(lw, s2, act)
  BY <1>2, <1>3, <1>4, <1>5, <1>6, <1>7, <1>8 DEF Structure, Handlers
<1> QED
  BY <1>9 DEF lw

LEMMA Popped ==
  ASSUME NEW lv, NEW s, NEW act, Structure(lv, s, act), lv[Len(lv)].kind # "top", NEW s2, NEW act2,
         s2 = IF lv[Len(lv)].kind \in Loads THEN lv[Len(lv)].hold ELSE s,
         act2 = act \/ lv[Len(lv)].kind = "erract"
  PROVE  Structure(Front(lv), s2, act2)
<1> DEFINE L == Len(lv)
           lw == SubSeq(lv, 1, L - 1)
<1>1. /\ lv \in Seq(Level) /\ L \in 1 .. MaxLevels /\ L \in Nat /\ L \in 1 .. L
      /\ \A i \in 1 .. L : lv[i].kind = "top" <=> i = 1
      /\ LastLoad(s, lv, L)
      /\ \A i \in 1 .. L : lv[i].kind \in Loads => LastLoad(lv[i].hold, lv, i - 1)
      /\ \A i, j \in 1 .. L :
             i < j /\ lv[i].kind = "erract" /\ lv[j].kind = "erract" => lv[i].own
      /\ \A i \in 1 .. L : lv[i].kind = "erract" /\ act # "nil" => lv[i].own
  BY DEF Structure, Handlers
<1>2. L > 1
  BY <1>1
<1>3. lw \in Seq(Level) /\ Len(lw) = L - 1 /\ \A i \in 1 .. L - 1 : lw[i] = lv[i] /\ i \in 1 .. L
  BY <1>1, <1>2
<1>4. Front(lv) = lw
  BY DEF Front
<1> HIDE DEF lw
<1>5. Len(lw) \in 1 .. MaxLevels
  BY <1>1, <1>2, <1>3, SessionAssumption
<1>6. LastLoad(s2, lw, L - 1)
  <2>1. CASE lv[L].kind \in Loads
    <3>1. LastLoad(s2, lv, L - 1)
      BY <1>1, <2>1
    <3>2. L - 1 \in Nat /\ \A i \in 1 .. L - 1 : lv[i].kind \in Loads <=> lw[i].kind \in Loads
      BY <1>1, <1>3
    <3> QED
      BY <3>1, <3>2, LoadBelow
  <2>2. CASE lv[L].kind \notin Loads
    BY <1>1, <1>3, <2>2 DEF LastLoad
  <2> QED
    BY <2>1, <2>2
<1>7. ASSUME NEW i \in 1 .. L - 1, lw[i].kind \in Loads PROVE LastLoad(lw[i].hold, lw, i - 1)
  <2>1. i - 1 \in Nat /\ i \in 1 .. L /\ \A k \in 1 .. i - 1 : lw[k] = lv[k]
    BY <1>1, <1>3
  <2>2. LastLoad(lw[i].hold, lv, i - 1)
    BY <1>1, <1>3, <1>7, <2>1
  <2> QED
    BY <2>1, <2>2, LoadBelow
<1>8. \A i, j \in 1 .. L - 1 :
          i < j /\ lw[i].kind = "erract" /\ lw[j].kind = "erract" => lw[i].own
  BY <1>1, <1>3
<1>9. ASSUME NEW i \in 1 .. L - 1, lw[i].kind = "erract", act2 # "nil" PROVE lw[i].own
  <2>1. i \in 1 .. L /\ i < L /\ lv[i] = lw[i]
    BY <1>1, <1>3
  <2>2. CASE lv[L].kind = "erract"
    BY <1>1, <1>9, <2>1, <2>2
  <2>3. CASE act2 = act
    BY <1>1, <1>9, <2>1, <2>3
  <2> QED
    BY <2>2, <2>3
<1>10. \A i \in 1 .. L - 1 : lw[i].kind = "top" <=> i = 1
  BY <1>1, <1>3
<1>11. Structure(lw, s2, act2)
  BY <1>3, <1>5, <1>6, <1>7, <1>8, <1>9, <1>10 DEF Structure, Handlers
<1> QED
  BY <1>4, <1>11

LEMMA LevelChanged ==
  ASSUME NEW lv, NEW s, NEW act, Structure(lv, s, act), NEW lw \in Seq(Level), Len(lw) = Len(lv),
         \A i \in 1 .. Len(lv) :
             /\ lw[i].kind = "top" <=> lv[i].kind = "top"
             /\ lw[i].kind \in Loads <=> lv[i].kind \in Loads
             /\ lv[i].kind \in Loads => lw[i].hold = lv[i].hold,
         NEW act2, Handlers(lw, act2)
  PROVE  Structure(lw, s, act2)
<1> DEFINE L == Len(lv)
<1>1. /\ L \in 1 .. MaxLevels /\ L \in Nat
      /\ \A i \in 1 .. L : lv[i].kind = "top" <=> i = 1
      /\ LastLoad(s, lv, L)
      /\ \A i \in 1 .. L : lv[i].kind \in Loads => LastLoad(lv[i].hold, lv, i - 1)
  BY DEF Structure
<1>2. LastLoad(s, lw, L)
  BY <1>1, LoadBelow
<1>3. ASSUME NEW i \in 1 .. L, lw[i].kind \in Loads PROVE LastLoad(lw[i].hold, lw, i - 1)
  <2>1. i - 1 \in Nat /\ \A k \in 1 .. i - 1 : k \in 1 .. L
    BY <1>1
  <2>2. LastLoad(lw[i].hold, lv, i - 1)
    BY <1>1, <1>3
  <2> QED
    BY <2>1, <2>2, LoadBelow
<1> QED
  BY <1>1, <1>2, <1>3 DEF Structure

\* A handler that is only marked, or left as it is.
LEMMA HandlersKept ==
  ASSUME NEW lv, NEW act, Handlers(lv, act), NEW lw, Len(lw) = Len(lv),
         \A i \in 1 .. Len(lv) : /\ lw[i].kind = "erract" => lv[i].kind = "erract"
                                 /\ lv[i].own => lw[i].own
  PROVE  Handlers(lw, act)
  BY DEF Handlers

-----------------------------------------------------------------------------
(* What the invariant says of a state, and what an action leaves to show. *)

LEMMA StackFacts ==
  ASSUME IInv
  PROVE  /\ levels \in Seq(Level) /\ Len(levels) \in 1 .. MaxLevels /\ Len(levels) \in Nat
         /\ Len(levels) \in 1 .. Len(levels)
         /\ Cur = levels[Len(levels)] /\ Cur \in Level
         /\ Cur.kind = "top" <=> Len(levels) = 1
         /\ loadstream \in 0 .. Len(levels)
         /\ loadstream # 0 => levels[loadstream].kind \in Loads
         /\ Handlers(levels, erract)
<1>1. /\ levels \in Seq(Level) /\ Len(levels) \in 1 .. MaxLevels
      /\ \A i \in 1 .. Len(levels) : levels[i].kind = "top" <=> i = 1
      /\ LastLoad(loadstream, levels, Len(levels))
      /\ Handlers(levels, erract)
  BY DEF IInv, Structure
<1>2. Len(levels) \in Nat /\ Len(levels) \in 1 .. Len(levels)
  BY <1>1, SessionAssumption
<1>3. Cur = levels[Len(levels)]
  BY <1>1, <1>2 DEF Cur, Last
<1>5. Cur \in Level
  BY <1>1, <1>2, <1>3
<1>6. Cur.kind = "top" <=> Len(levels) = 1
  BY <1>1, <1>2, <1>3
<1>4. loadstream \in 0 .. Len(levels) /\ (loadstream # 0 => levels[loadstream].kind \in Loads)
  BY <1>1, <1>2 DEF LastLoad
<1> QED
  BY <1>1, <1>2, <1>3, <1>4, <1>5, <1>6

LEMMA LevelBegun ==
  ASSUME NEW k \in Kinds, NEW ph \in {"read", "run"}
  PROVE  /\ NewLevel(k, ph) \in Level /\ NewLevel(k, ph).kind = k /\ NewLevel(k, ph).phase = ph
         /\ NewLevel(k, ph).own = FALSE /\ NewLevel(k, ph).what = "nil"
  BY SessionAssumption DEF NewLevel, Level

\* A function is called: its level is not a handler, and only LOAD has a hold.
LEMMA PushStep ==
  ASSUME IInv, StackRoom, NEW l \in Level, l.kind \notin {"top", "erract"},
         l.kind = "err_logo" => l.what \in Errors,
         Push(l), erract' = erract,
         IF l.kind \in Loads THEN l.hold = loadstream /\ loadstream' = Len(levels) + 1
                             ELSE loadstream' = loadstream
  PROVE  Structure(levels', loadstream', erract') /\ LevelValues(levels')
<1>1. /\ levels \in Seq(Level) /\ Len(levels) \in Nat /\ Len(levels) < MaxLevels
      /\ Structure(levels, loadstream, erract)
  BY StackFacts DEF StackRoom, IInv
<1>2. levels' = Append(levels, l)
  BY DEF Push
<1>3. Structure(Append(levels, l), loadstream', erract)
  BY <1>1, Pushed
<1>4. ASSUME NEW i \in 1 .. Len(levels')
      PROVE  /\ levels'[i].kind = "erract" => levels'[i].what \in {"nil", "act"}
             /\ levels'[i].kind = "err_logo" => levels'[i].what \in Errors
  <2>1. CASE i = Len(levels) + 1
    BY <1>1, <1>2, <2>1
  <2>2. CASE i # Len(levels) + 1
    <3>1. i \in 1 .. Len(levels) /\ levels'[i] = levels[i]
      BY <1>1, <1>2, <2>2
    <3> QED
      BY <3>1 DEF IInv, Registers, LevelValues
  <2> QED
    BY <2>1, <2>2
<1> QED
  BY <1>2, <1>3, <1>4 DEF LevelValues

\* A function returns.
LEMMA PopStep ==
  ASSUME IInv, Cur.kind # "top", Pop,
         loadstream' = IF Cur.kind \in Loads THEN Cur.hold ELSE loadstream,
         erract' = erract \/ Cur.kind = "erract"
  PROVE  Structure(levels', loadstream', erract') /\ LevelValues(levels')
<1>1. /\ levels \in Seq(Level) /\ Len(levels) \in Nat \ {0} /\ Cur = levels[Len(levels)]
      /\ Structure(levels, loadstream, erract)
  BY StackFacts DEF IInv
<1>2. levels' = Front(levels)
  BY DEF Pop
<1>3. Structure(Front(levels), loadstream', erract')
  BY <1>1, Popped
<1>4. \A i \in 1 .. Len(levels') : i \in 1 .. Len(levels) /\ levels'[i] = levels[i]
  BY <1>1, <1>2 DEF Front
<1> QED
  BY <1>2, <1>3, <1>4 DEF IInv, Registers, LevelValues

\* The level on top goes on, as another kind of its own kind at most.
LEMMA BecomeStep ==
  ASSUME IInv, NEW l \in Level, Become(l), loadstream' = loadstream, erract' = erract,
         l.kind = Cur.kind \/ {l.kind, Cur.kind} \subseteq Loads,
         l.hold = Cur.hold, l.own = Cur.own, l.what = Cur.what
  PROVE  Structure(levels', loadstream', erract') /\ LevelValues(levels')
<1>1. /\ levels \in Seq(Level) /\ Len(levels) \in Nat \ {0} /\ Cur = levels[Len(levels)]
      /\ Structure(levels, loadstream, erract) /\ Handlers(levels, erract)
  BY StackFacts DEF IInv
<1>2. /\ levels' \in Seq(Level) /\ Len(levels') = Len(levels)
      /\ \A i \in 1 .. Len(levels) : levels'[i] = IF i = Len(levels) THEN l ELSE levels[i]
  BY <1>1 DEF Become
<1>3. \A i \in 1 .. Len(levels) :
          /\ levels'[i].kind = "top" <=> levels[i].kind = "top"
          /\ levels'[i].kind \in Loads <=> levels[i].kind \in Loads
          /\ levels'[i].hold = levels[i].hold
          /\ levels'[i].kind = "erract" <=> levels[i].kind = "erract"
          /\ levels'[i].kind = "err_logo" <=> levels[i].kind = "err_logo"
          /\ levels'[i].own = levels[i].own /\ levels'[i].what = levels[i].what
  BY <1>1, <1>2 DEF Loads
<1>4. Handlers(levels', erract)
  BY <1>1, <1>2, <1>3, HandlersKept
<1>5. Structure(levels', loadstream, erract)
  BY <1>1, <1>2, <1>3, <1>4, LevelChanged
<1> QED
  BY <1>2, <1>3, <1>5 DEF IInv, Registers, LevelValues

LEMMA PhaseStep ==
  ASSUME IInv, NEW ph \in {"read", "run"}, Phase(ph), loadstream' = loadstream, erract' = erract
  PROVE  Structure(levels', loadstream', erract') /\ LevelValues(levels')
<1> DEFINE l == [Cur EXCEPT !.phase = ph]
<1>1. Cur \in Level /\ Cur = levels[Len(levels)] /\ levels \in Seq(Level) /\ Len(levels) \in 1 .. Len(levels)
  BY StackFacts
<1>2. l \in Level /\ l.kind = Cur.kind /\ l.hold = Cur.hold /\ l.own = Cur.own /\ l.what = Cur.what
  BY <1>1 DEF Level
<1>3. levels' = [levels EXCEPT ![Len(levels)] = l]
  BY <1>1 DEF Phase
<1> HIDE DEF l
<1>4. Become(l)
  BY <1>3 DEF Become
<1> QED
  BY <1>2, <1>4, BecomeStep

-----------------------------------------------------------------------------
(* The invariant is kept: the lines read, LOAD, and the ends of loops. *)

LEMMA PromptKeeps == ASSUME IInv, Prompt PROVE IInv'
<1>1. Phase("run") /\ loadstream' = loadstream /\ erract' = erract
  BY DEF Prompt
<1>2. Structure(levels', loadstream', erract') /\ LevelValues(levels')
  BY <1>1, PhaseStep
<1>3. Registers' /\ Interrupts'
  BY <1>2 DEF IInv, Registers, Interrupts, BreakKept, Prompt, flow, ints
<1> QED
  BY <1>2, <1>3 DEF IInv

LEMMA LoadLineKeeps == ASSUME IInv, LoadLine PROVE IInv'
<1> DEFINE l == [Cur EXCEPT !.phase = "run", !.left = @ - 1]
<1>1. Become(l) /\ Cur.left > 0 /\ UNCHANGED <<flow, errs, loadstream, ints>>
  BY DEF LoadLine
<1>2. Cur \in Level
  BY StackFacts
<1>3. /\ l \in Level /\ l.kind = Cur.kind /\ l.hold = Cur.hold
      /\ l.own = Cur.own /\ l.what = Cur.what
  <2>1. Cur.left - 1 \in 0 .. FileLines
    BY <1>1, <1>2, SessionAssumption DEF Level
  <2>2. l = [Cur EXCEPT !.phase = "run", !.left = Cur.left - 1]
    OBVIOUS
  <2> QED
    BY <1>2, <2>1, <2>2 DEF Level
<1> HIDE DEF l
<1>4. Structure(levels', loadstream', erract') /\ LevelValues(levels')
  BY <1>1, <1>3, BecomeStep DEF errs
<1>5. Registers' /\ Interrupts'
  BY <1>1, <1>4 DEF IInv, Registers, Interrupts, BreakKept, flow, errs, ints
<1> QED
  BY <1>4, <1>5 DEF IInv

LEMMA PopKeeps ==
  ASSUME IInv, Pop, Cur.kind # "top",
         loadstream' = IF Cur.kind \in Loads THEN Cur.hold ELSE loadstream,
         UNCHANGED <<errs, ints>>,
         stopping' \in {"run", "throw"}, throw_node' \in Tags
  PROVE  IInv'
<1>1. Structure(levels', loadstream', erract') /\ LevelValues(levels')
  BY PopStep DEF errs
<1>2. Registers' /\ Interrupts'
  BY <1>1 DEF IInv, Registers, Interrupts, BreakKept, errs, ints
<1> QED
  BY <1>1, <1>2 DEF IInv

LEMMA EndLineKeeps == ASSUME IInv, EndLine PROVE IInv'
<1>1. UNCHANGED <<flow, errs, loadstream, ints>>
  BY DEF EndLine
<1>2. CASE Phase("read")
  <2>1. Structure(levels', loadstream', erract') /\ LevelValues(levels')
    BY <1>1, <1>2, PhaseStep DEF errs
  <2>2. Registers' /\ Interrupts'
    BY <1>1, <2>1 DEF IInv, Registers, Interrupts, BreakKept, flow, errs, ints
  <2> QED
    BY <2>1, <2>2 DEF IInv
<1>3. CASE Cur.kind = "button" /\ Pop
  <2>1. Cur.kind \notin Loads \cup {"top"}
    BY <1>3 DEF Loads
  <2> QED
    BY <1>1, <1>3, <2>1, PopKeeps DEF flow, IInv, Registers
<1> QED
  BY <1>2, <1>3 DEF EndLine

LEMMA LoadKeeps == ASSUME IInv, Load PROVE IInv'
<1> DEFINE l == [NewLevel("load", "read") EXCEPT !.left = FileLines, !.hold = loadstream]
<1>1. /\ StackRoom /\ Push(l) /\ loadstream' = Len(levels) + 1
      /\ UNCHANGED <<flow, errs, ints>>
  BY DEF Load
<1>2. loadstream \in 0 .. MaxLevels
  <2>1. loadstream \in 0 .. Len(levels) /\ Len(levels) \in 1 .. MaxLevels
    BY StackFacts
  <2> QED
    BY <2>1, SessionAssumption
<1>3. l \in Level /\ l.kind = "load" /\ l.hold = loadstream
  <2>1. NewLevel("load", "read") \in Level /\ NewLevel("load", "read").kind = "load"
    BY LevelBegun DEF Kinds
  <2>2. FileLines \in 0 .. FileLines
    BY SessionAssumption
  <2> QED
    BY <1>2, <2>1, <2>2 DEF Level
<1> HIDE DEF l
<1>4. Structure(levels', loadstream', erract') /\ LevelValues(levels')
  BY <1>1, <1>3, PushStep DEF errs, Loads
<1>5. Registers' /\ Interrupts'
  BY <1>1, <1>4 DEF IInv, Registers, Interrupts, BreakKept, flow, errs, ints
<1> QED
  BY <1>4, <1>5 DEF IInv

LEMMA UnloadKeeps == ASSUME IInv, Unload, Cur.kind \in Loads PROVE IInv'
<1>1. Pop /\ loadstream' = Cur.hold /\ UNCHANGED <<flow, errs, ints>>
  BY DEF Unload
<1>2. Cur.kind # "top"
  BY DEF Loads
<1> QED
  BY <1>1, <1>2, PopKeeps DEF flow, IInv, Registers

LEMMA RunStartupKeeps == ASSUME IInv, RunStartup, Cur.kind = "load" PROVE IInv'
<1> DEFINE l == [Cur EXCEPT !.kind = "startup", !.phase = "run"]
<1>1. Become(l) /\ UNCHANGED <<flow, errs, loadstream, ints>>
  BY DEF RunStartup
<1>2. Cur \in Level
  BY StackFacts
<1>3. l \in Level /\ l.kind = "startup" /\ l.hold = Cur.hold /\ l.own = Cur.own /\ l.what = Cur.what
  BY <1>2 DEF Level, Kinds
<1> HIDE DEF l
<1>4. {l.kind, Cur.kind} \subseteq Loads
  BY <1>3 DEF Loads
<1>5. Structure(levels', loadstream', erract') /\ LevelValues(levels')
  BY <1>1, <1>3, <1>4, BecomeStep DEF errs
<1>6. Registers' /\ Interrupts'
  BY <1>1, <1>5 DEF IInv, Registers, Interrupts, BreakKept, flow, errs, ints
<1> QED
  BY <1>5, <1>6 DEF IInv

LEMMA LoadEndKeeps == ASSUME IInv, LoadEnd PROVE IInv'
<1>1. Cur.kind = "load" /\ Cur.kind \in Loads /\ (Unload \/ RunStartup)
  BY DEF LoadEnd, Loads
<1> QED
  BY <1>1, UnloadKeeps, RunStartupKeeps

LEMMA StartupEndKeeps == ASSUME IInv, StartupEnd PROVE IInv'
  BY UnloadKeeps DEF StartupEnd, Loads

LEMMA PauseKeeps == ASSUME IInv, Pause PROVE IInv'
<1> DEFINE l == NewLevel("pause", "read")
<1>1. /\ StackRoom /\ Push(l) /\ err_mesg' = "nil"
      /\ UNCHANGED <<flow, erract, erract_errtype, loadstream, ints>>
  BY DEF Pause
<1>2. l \in Level /\ l.kind = "pause"
  BY LevelBegun DEF Kinds
<1> HIDE DEF l
<1>3. Structure(levels', loadstream', erract') /\ LevelValues(levels')
  BY <1>1, <1>2, PushStep DEF Loads
<1>4. Registers' /\ Interrupts'
  BY <1>1, <1>3 DEF IInv, Registers, Interrupts, BreakKept, flow, ints
<1> QED
  BY <1>3, <1>4 DEF IInv

LEMMA PauseThrowKeeps == ASSUME IInv, PauseThrow PROVE IInv'
<1>1. Cur.kind = "pause" /\ UNCHANGED <<erract, erract_errtype, loadstream, ints>>
  BY DEF PauseThrow
<1>2. CASE Phase("read") /\ Resume /\ err_mesg' = "nil"
  <2>1. Structure(levels', loadstream', erract') /\ LevelValues(levels')
    BY <1>1, <1>2, PhaseStep
  <2>2. Registers' /\ Interrupts'
    BY <1>1, <1>2, <2>1 DEF IInv, Registers, Interrupts, BreakKept, Resume, ints
  <2> QED
    BY <2>1, <2>2 DEF IInv
<1>3. CASE Pop /\ UNCHANGED err_mesg /\ (Resume \/ UNCHANGED flow)
  <2>1. Cur.kind \notin Loads \cup {"top"}
    BY <1>1 DEF Loads
  <2>2. stopping' \in {"run", "throw"} /\ throw_node' \in Tags
    BY <1>3 DEF Resume, flow, IInv, Registers
  <2> QED
    BY <1>1, <1>3, <2>1, <2>2, PopKeeps DEF errs
<1> QED
  BY <1>2, <1>3 DEF PauseThrow

LEMMA TopThrowKeeps == ASSUME IInv, TopThrow PROVE IInv'
<1>1. Phase("read") /\ UNCHANGED <<erract, loadstream, ints>> /\ Resume
  BY DEF TopThrow
<1>2. Structure(levels', loadstream', erract') /\ LevelValues(levels')
  BY <1>1, PhaseStep
<1>3. err_mesg' \in Errors \cup {"nil"} /\ erract_errtype' \in Errors \cup {"fatal"}
  BY DEF TopThrow, IInv, Registers, Errors
<1>4. Registers' /\ Interrupts'
  BY <1>1, <1>2, <1>3 DEF IInv, Registers, Interrupts, BreakKept, Resume, ints
<1> QED
  BY <1>2, <1>4 DEF IInv

LEMMA ButtonThrowKeeps == ASSUME IInv, ButtonThrow PROVE IInv'
<1>1. Pop /\ Cur.kind \notin Loads \cup {"top"} /\ UNCHANGED <<flow, errs, loadstream, ints>>
  BY DEF ButtonThrow, Loads
<1> QED
  BY <1>1, PopKeeps DEF flow, IInv, Registers

-----------------------------------------------------------------------------
(* ... errors, handlers, throws and interrupts. *)

\* The levels stay: what the other registers keep is all there is to show.
LEMMA StillKeeps ==
  ASSUME IInv, UNCHANGED <<levels, loadstream, erract>>, Interrupts',
         stopping' \in {"run", "throw"}, throw_node' \in Tags,
         err_mesg' \in Errors \cup {"nil"}, erract_errtype' \in Errors \cup {"fatal"}
  PROVE  IInv'
<1>1. Structure(levels', loadstream', erract') /\ LevelValues(levels') /\ erract' \in {"nil", "act"}
  BY DEF IInv, Registers
<1> QED
  BY <1>1 DEF IInv, Registers

LEMMA ErrStep ==
  ASSUME IInv, StackRoom, NEW e \in Errors, Err(e), UNCHANGED <<flow, errs, loadstream>>
  PROVE  Structure(levels', loadstream', erract') /\ Registers'
<1> DEFINE l == [NewLevel("err_logo", "run") EXCEPT !.what = e]
<1>1. Push(l)
  BY DEF Err
<1>2. NewLevel("err_logo", "run") \in Level /\ NewLevel("err_logo", "run").kind = "err_logo"
  BY LevelBegun DEF Kinds
<1>3. l \in Level /\ l.kind = "err_logo" /\ l.what = e
  BY <1>2 DEF Level
<1> HIDE DEF l
<1>4. Structure(levels', loadstream', erract') /\ LevelValues(levels')
  BY <1>1, <1>3, PushStep DEF errs, Loads
<1> QED
  BY <1>4 DEF IInv, Registers, flow, errs

LEMMA ErrorKeeps == ASSUME IInv, Error PROVE IInv'
<1>1. PICK e \in Recoverable \cup Fatal : Err(e)
  BY DEF Error
<1>2. StackRoom /\ UNCHANGED <<flow, errs, loadstream, ints>> /\ e \in Errors
  BY DEF Error, Errors
<1>3. Structure(levels', loadstream', erract') /\ Registers'
  BY <1>1, <1>2, ErrStep
<1>4. Interrupts'
  BY <1>2 DEF IInv, Interrupts, BreakKept, ints
<1> QED
  BY <1>3, <1>4 DEF IInv

LEMMA InterruptKeeps == ASSUME IInv, Interrupt PROVE IInv'
<1>1. UNCHANGED <<flow, errs, loadstream, masked, eval_buttonact>> /\ StackRoom
  BY DEF Interrupt
<1>2. breaks' \in 0 .. Breaks
  BY SessionAssumption DEF Interrupt, IInv, Interrupts
<1>3. CASE masked
  <2>1. int_during_gc' = 1 /\ owed' = TRUE /\ UNCHANGED levels
    BY <1>3 DEF Interrupt
  <2>2. Interrupts'
    BY <1>1, <1>2, <1>3, <2>1 DEF IInv, Interrupts, BreakKept
  <2> QED
    BY <1>1, <2>1, <2>2, StillKeeps DEF IInv, Registers, errs, flow
<1>4. CASE ~masked
  <2>1. Err("stop") /\ UNCHANGED <<int_during_gc, owed>>
    BY <1>4 DEF Interrupt
  <2>2. Interrupts'
    BY <1>1, <1>2, <1>4, <2>1 DEF IInv, Interrupts, BreakKept
  <2>3. Structure(levels', loadstream', erract') /\ Registers'
    BY <1>1, <2>1, ErrStep DEF Errors
  <2> QED
    BY <2>2, <2>3 DEF IInv
<1> QED
  BY <1>3, <1>4

LEMMA UnmaskKeeps == ASSUME IInv, Unmask PROVE IInv'
<1>1. /\ UNCHANGED <<flow, errs, loadstream, int_during_gc, eval_buttonact, breaks>>
      /\ masked' = FALSE
  BY DEF Unmask
<1>2. CASE int_during_gc = 1
  <2>1. StackRoom /\ Err("stop") /\ owed' = FALSE
    BY <1>2 DEF Unmask
  <2>2. Interrupts'
    BY <1>1, <2>1 DEF IInv, Interrupts, BreakKept
  <2>3. Structure(levels', loadstream', erract') /\ Registers'
    BY <1>1, <2>1, ErrStep DEF Errors
  <2> QED
    BY <2>2, <2>3 DEF IInv
<1>3. CASE int_during_gc # 1
  <2>1. UNCHANGED <<levels, owed>>
    BY <1>3 DEF Unmask
  <2>2. Interrupts'
    BY <1>1, <1>3, <2>1 DEF IInv, Interrupts, BreakKept
  <2> QED
    BY <1>1, <2>1, <2>2, StillKeeps DEF IInv, Registers, errs, flow
<1> QED
  BY <1>2, <1>3

LEMMA MaskKeeps == ASSUME IInv, Mask PROVE IInv'
<1>1. UNCHANGED <<levels, flow, errs, loadstream>>
  BY DEF Mask
<1>2. Interrupts'
  BY DEF Mask, IInv, Interrupts, BreakKept
<1> QED
  BY <1>1, <1>2, StillKeeps DEF IInv, Registers, errs, flow

LEMMA ClickKeeps == ASSUME IInv, Click PROVE IInv'
<1>1. UNCHANGED <<flow, errs, loadstream, masked, int_during_gc, breaks, owed>>
  BY DEF Click
<1>2. CASE StackRoom /\ Push(NewLevel("button", "run")) /\ UNCHANGED eval_buttonact
  <2> DEFINE l == NewLevel("button", "run")
  <2>1. l \in Level /\ l.kind = "button"
    BY LevelBegun DEF Kinds
  <2>2. Push(l)
    BY <1>2
  <2> HIDE DEF l
  <2>3. Structure(levels', loadstream', erract') /\ LevelValues(levels')
    BY <1>1, <1>2, <2>1, <2>2, PushStep DEF Loads, errs
  <2>4. Registers' /\ Interrupts'
    BY <1>1, <1>2, <2>3 DEF IInv, Registers, Interrupts, BreakKept, flow, errs
  <2> QED
    BY <2>3, <2>4 DEF IInv
<1>3. CASE eval_buttonact' = TRUE /\ UNCHANGED levels
  <2>1. Interrupts'
    BY <1>1, <1>3 DEF IInv, Interrupts, BreakKept
  <2> QED
    BY <1>1, <1>3, <2>1, StillKeeps DEF IInv, Registers, errs, flow
<1> QED
  BY <1>2, <1>3 DEF Click

LEMMA SmallStepsKeep ==
  ASSUME IInv, Read \/ ErrorPrimitive \/ ThrowTag \/ Catch \/ RunButton
  PROVE  IInv'
<1>1. UNCHANGED <<levels, loadstream, erract>>
  BY DEF Read, ErrorPrimitive, ThrowTag, Catch, RunButton, errs
<1>2. /\ UNCHANGED <<masked, int_during_gc, breaks, owed>>
      /\ eval_buttonact' \in BOOLEAN
  BY DEF Read, ErrorPrimitive, ThrowTag, Catch, RunButton, ints, IInv, Interrupts
<1>3. Interrupts'
  BY <1>2 DEF IInv, Interrupts, BreakKept
<1>4. stopping' \in {"run", "throw"} /\ throw_node' \in Tags
  BY DEF Read, ErrorPrimitive, ThrowTag, Catch, RunButton, Throw, Resume, flow, IInv, Registers, Tags
<1>5. err_mesg' \in Errors \cup {"nil"} /\ erract_errtype' \in Errors \cup {"fatal"}
  BY DEF Read, ErrorPrimitive, ThrowTag, Catch, RunButton, errs, IInv, Registers
<1> QED
  BY <1>1, <1>3, <1>4, <1>5, StillKeeps

LEMMA ErrThrowKeeps == ASSUME IInv, ErrThrow PROVE IInv'
<1>1. /\ Cur.kind = "err_logo" /\ Pop /\ err_mesg' = Cur.what
      /\ UNCHANGED <<erract, erract_errtype, loadstream, ints>>
      /\ stopping' = "throw" /\ throw_node' \in {"error", "toplevel"}
  BY DEF ErrThrow, Throw
<1>2. Cur.what \in Errors
  BY <1>1, StackFacts DEF IInv, Registers, LevelValues
<1>3. Structure(levels', loadstream', erract') /\ LevelValues(levels')
  BY <1>1, PopStep DEF Loads
<1>4. Registers' /\ Interrupts'
  BY <1>1, <1>2, <1>3 DEF IInv, Registers, Interrupts, BreakKept, Tags, ints
<1> QED
  BY <1>3, <1>4 DEF IInv

LEMMA ErrActEndKeeps == ASSUME IInv, ErrActEnd PROVE IInv'
<1>1. /\ Cur.kind = "erract" /\ Pop /\ erract' = Cur.what
      /\ UNCHANGED <<err_mesg, erract_errtype, loadstream, ints>>
  BY DEF ErrActEnd
<1>2. stopping' \in {"run", "throw"} /\ throw_node' \in Tags
  BY DEF ErrActEnd, Throw, Resume, IInv, Registers, Tags
<1>3. Cur.what \in {"nil", "act"}
  BY <1>1, StackFacts DEF IInv, Registers, LevelValues
<1>4. Structure(levels', loadstream', erract') /\ LevelValues(levels')
  BY <1>1, PopStep DEF Loads
<1>5. Registers' /\ Interrupts'
  BY <1>1, <1>2, <1>3, <1>4 DEF IInv, Registers, Interrupts, BreakKept, ints
<1> QED
  BY <1>4, <1>5 DEF IInv

\* The handlers below it have given ERRACT the value it is started with.
LEMMA ErrActKeeps == ASSUME IInv, ErrAct PROVE IInv'
<1> DEFINE l == [NewLevel("erract", "run") EXCEPT !.what = erract, !.rec = Cur.what \in Recoverable]
           L == Len(levels)
<1>1. /\ Cur.kind = "err_logo" /\ erract # "nil" /\ erract' = "nil" /\ Become(l)
      /\ err_mesg' = Cur.what /\ erract_errtype' = Cur.what
      /\ UNCHANGED <<flow, loadstream, ints>>
  BY DEF ErrAct
<1>2. /\ levels \in Seq(Level) /\ L \in Nat /\ L \in 1 .. L /\ Cur = levels[L]
      /\ Structure(levels, loadstream, erract) /\ Handlers(levels, erract)
      /\ Cur.what \in Errors
  BY <1>1, StackFacts DEF IInv, Registers, LevelValues
<1>3. erract = "act"
  BY <1>1 DEF IInv, Registers
<1>4. l \in Level /\ l.kind = "erract" /\ l.what = "act"
  <2>1. NewLevel("erract", "run") \in Level /\ NewLevel("erract", "run").kind = "erract"
    BY LevelBegun DEF Kinds
  <2>2. (Cur.what \in Recoverable) \in BOOLEAN
    OBVIOUS
  <2> QED
    BY <1>3, <2>1, <2>2 DEF Level
<1> HIDE DEF l
<1>5. /\ levels' \in Seq(Level) /\ Len(levels') = L
      /\ \A i \in 1 .. L : levels'[i] = IF i = L THEN l ELSE levels[i]
  BY <1>1, <1>2, <1>4 DEF Become
<1>6. \A i \in 1 .. L :
          /\ levels'[i].kind = "top" <=> levels[i].kind = "top"
          /\ levels'[i].kind \in Loads <=> levels[i].kind \in Loads
          /\ levels[i].kind \in Loads => levels'[i].hold = levels[i].hold
  BY <1>1, <1>2, <1>4, <1>5 DEF Loads
<1>7. Handlers(levels', "nil")
  <2>1. \A i \in 1 .. L : levels[i].kind = "erract" => levels[i].own
    BY <1>1, <1>2 DEF Handlers
  <2>2. \A i, j \in 1 .. L : i < j => i # L
    BY <1>2
  <2>3. ASSUME NEW i \in 1 .. L, NEW j \in 1 .. L, i < j, levels'[i].kind = "erract"
        PROVE  levels'[i].own
    <3>1. i # L
      BY <2>2, <2>3
    <3> QED
      BY <1>5, <2>1, <2>3, <3>1
  <2> QED
    BY <1>5, <2>3 DEF Handlers
<1>8. Structure(levels', loadstream, "nil")
  BY <1>2, <1>5, <1>6, <1>7, LevelChanged
<1>9. LevelValues(levels')
  BY <1>2, <1>4, <1>5 DEF LevelValues, IInv, Registers
<1>10. Registers' /\ Interrupts'
  BY <1>1, <1>2, <1>9 DEF IInv, Registers, Interrupts, BreakKept, flow, ints
<1> QED
  BY <1>1, <1>8, <1>10 DEF IInv

\* Every handler on the stack is now one that has given ERRACT a value.
LEMMA MakeErractKeeps == ASSUME IInv, MakeErract PROVE IInv'
<1>1. /\ erract' \in {"nil", "act"}
      /\ levels' = [i \in DOMAIN levels |->
                      IF levels[i].kind = "erract" THEN [levels[i] EXCEPT !.own = TRUE] ELSE levels[i]]
      /\ UNCHANGED <<flow, err_mesg, erract_errtype, loadstream, ints>>
  BY DEF MakeErract
<1>2. levels \in Seq(Level) /\ Len(levels) \in Nat /\ Structure(levels, loadstream, erract)
  BY StackFacts DEF IInv
<1>3. \A i \in 1 .. Len(levels) :
          levels'[i] = IF levels[i].kind = "erract" THEN [levels[i] EXCEPT !.own = TRUE] ELSE levels[i]
  <2>1. DOMAIN levels = 1 .. Len(levels)
    BY <1>2
  <2> QED
    BY <1>1, <2>1, Zenon
<1>4. ASSUME NEW i \in 1 .. Len(levels)
      PROVE  /\ levels'[i] \in Level /\ levels'[i].kind = levels[i].kind
             /\ levels'[i].hold = levels[i].hold /\ levels'[i].what = levels[i].what
             /\ levels'[i].kind = "erract" => levels'[i].own
  <2>1. levels[i] \in Level
    BY <1>2
  <2> QED
    BY <1>3, <2>1 DEF Level
<1>5. levels' \in Seq(Level) /\ Len(levels') = Len(levels)
  <2>1. levels' = [i \in 1 .. Len(levels) |-> levels'[i]]
    BY <1>1, <1>2
  <2>2. \A i \in 1 .. Len(levels) : levels'[i] \in Level
    BY <1>4
  <2> QED
    BY <1>2, <2>1, <2>2
<1>6. Handlers(levels', erract')
  BY <1>4, <1>5 DEF Handlers
<1>7. Structure(levels', loadstream, erract')
  BY <1>2, <1>4, <1>5, <1>6, LevelChanged
<1>8. LevelValues(levels')
  BY <1>4, <1>5 DEF LevelValues, IInv, Registers
<1>9. Registers' /\ Interrupts'
  BY <1>1, <1>8 DEF IInv, Registers, Interrupts, BreakKept, flow, ints
<1> QED
  BY <1>1, <1>7, <1>9 DEF IInv

LEMMA ToKeeps == ASSUME IInv, To PROVE IInv'
<1>1. UNCHANGED <<flow, err_mesg, erract, loadstream, ints>>
  BY DEF To
<1>2. CASE loadstream = 0
  <2>1. erract_errtype' = "fatal" /\ UNCHANGED levels
    BY <1>2 DEF To
  <2>2. Interrupts'
    BY <1>1 DEF IInv, Interrupts, BreakKept, ints
  <2> QED
    BY <1>1, <2>1, <2>2, StillKeeps DEF IInv, Registers, flow
<1>3. CASE loadstream # 0
  <2>1. PICK n \in 0 .. levels[loadstream].left :
            levels' = [levels EXCEPT ![loadstream].left = n]
    BY <1>3 DEF To
  <2>2. UNCHANGED erract_errtype
    BY <1>3 DEF To
  <2>3. /\ levels \in Seq(Level) /\ Len(levels) \in Nat /\ loadstream \in 1 .. Len(levels)
        /\ Structure(levels, loadstream, erract) /\ Handlers(levels, erract)
    BY <1>3, StackFacts DEF IInv
  <2> DEFINE l == [levels[loadstream] EXCEPT !.left = n]
  <2>4. levels[loadstream] \in Level
    BY <2>3
  <2>5. n \in 0 .. FileLines
    BY <2>4, SessionAssumption DEF Level
  <2>6. /\ l \in Level /\ l.kind = levels[loadstream].kind /\ l.hold = levels[loadstream].hold
        /\ l.own = levels[loadstream].own /\ l.what = levels[loadstream].what
    BY <2>4, <2>5 DEF Level
  <2>7. levels' = [levels EXCEPT ![loadstream] = l]
    BY <2>1
  <2> HIDE DEF l
  <2>8. /\ levels' \in Seq(Level) /\ Len(levels') = Len(levels)
        /\ \A i \in 1 .. Len(levels) :
              /\ levels'[i].kind = levels[i].kind /\ levels'[i].hold = levels[i].hold
              /\ levels'[i].own = levels[i].own /\ levels'[i].what = levels[i].what
    BY <2>3, <2>6, <2>7
  <2>9. Handlers(levels', erract)
    BY <2>3, <2>8, HandlersKept
  <2>10. Structure(levels', loadstream, erract)
    BY <2>3, <2>8, <2>9, LevelChanged
  <2>11. LevelValues(levels')
    BY <2>8 DEF LevelValues, IInv, Registers
  <2>12. Registers' /\ Interrupts'
    BY <1>1, <2>2, <2>11 DEF IInv, Registers, Interrupts, BreakKept, flow, ints
  <2> QED
    BY <1>1, <2>10, <2>12 DEF IInv
<1> QED
  BY <1>2, <1>3

-----------------------------------------------------------------------------
LEMMA InitHolds == Init => IInv
<1> SUFFICES ASSUME Init PROVE IInv
  OBVIOUS
<1>1. NewLevel("top", "read") \in Level /\ NewLevel("top", "read").kind = "top"
  BY LevelBegun DEF Kinds
<1>2. /\ levels \in Seq(Level) /\ Len(levels) = 1 /\ levels[1].kind = "top"
      /\ loadstream = 0 /\ erract = "nil"
  BY <1>1 DEF Init
<1>3. LastLoad(loadstream, levels, 1) /\ \A i \in 1 .. 1 : levels[i].kind \notin Loads
  BY <1>2 DEF LastLoad, Loads
<1>4. Handlers(levels, erract)
  BY <1>2 DEF Handlers
<1>5. Structure(levels, loadstream, erract)
  BY <1>2, <1>3, <1>4, SessionAssumption DEF Structure
<1>6. Registers
  BY <1>2 DEF Init, Registers, LevelValues, Tags
<1>7. Interrupts
  <2>1. breaks = 0 /\ 0 \in 0 .. Breaks
    BY SessionAssumption DEF Init
  <2>2. int_during_gc = 0 /\ masked = FALSE /\ eval_buttonact = FALSE /\ owed = FALSE
    BY DEF Init
  <2> QED
    BY <2>1, <2>2 DEF Interrupts, BreakKept
<1> QED
  BY <1>5, <1>6, <1>7 DEF IInv

LEMMA NextKeeps == IInv /\ [Next]_vars => IInv'
<1> SUFFICES ASSUME IInv, [Next]_vars PROVE IInv'
  OBVIOUS
<1>1. CASE Prompt \/ LoadLine \/ EndLine
  BY <1>1, PromptKeeps, LoadLineKeeps, EndLineKeeps
<1>2. CASE Read \/ ErrorPrimitive \/ ThrowTag \/ Catch \/ RunButton
  BY <1>2, SmallStepsKeep
<1>3. CASE To \/ Load \/ Error \/ MakeErract \/ Pause
  BY <1>3, ToKeeps, LoadKeeps, ErrorKeeps, MakeErractKeeps, PauseKeeps
<1>4. CASE LoadEnd \/ StartupEnd \/ ErrAct \/ ErrThrow \/ ErrActEnd
  BY <1>4, LoadEndKeeps, StartupEndKeeps, ErrActKeeps, ErrThrowKeeps, ErrActEndKeeps
<1>5. CASE PauseThrow \/ TopThrow \/ ButtonThrow
  BY <1>5, PauseThrowKeeps, TopThrowKeeps, ButtonThrowKeeps
<1>6. CASE Mask \/ Interrupt \/ Unmask \/ Click
  BY <1>6, MaskKeeps, InterruptKeeps, UnmaskKeeps, ClickKeeps
<1>7. CASE UNCHANGED vars
  BY <1>7 DEF vars, IInv, Structure, Handlers, LastLoad, Registers, LevelValues, Interrupts, BreakKept
<1> QED
  BY <1>1, <1>2, <1>3, <1>4, <1>5, <1>6, <1>7 DEF Next, ProgramStep

LEMMA Invariant == Spec => []IInv
<1>1. Init => IInv
  BY InitHolds
<1>2. IInv /\ [Next]_vars => IInv'
  BY NextKeeps
<1> QED
  BY <1>1, <1>2, PTL DEF Spec

LEMMA TypesHold == IInv => TypeOK
<1> SUFFICES ASSUME IInv PROVE TypeOK
  OBVIOUS
<1>1. /\ levels \in Seq(Level) /\ Len(levels) \in 1 .. MaxLevels
      /\ loadstream \in 0 .. Len(levels)
  BY StackFacts
<1>2. loadstream \in 0 .. MaxLevels
  BY <1>1, SessionAssumption
<1> QED
  BY <1>1, <1>2 DEF TypeOK, IInv, Registers, Interrupts

\* The stack holds records of its levels, at most MaxLevels of them; every
\* register holds one of its values.
THEOREM TypeCorrect == Spec => []TypeOK
  BY Invariant, TypesHold, PTL

LEMMA InnermostHolds == IInv => LoadstreamIsInnermost
<1> SUFFICES ASSUME IInv PROVE LoadstreamIsInnermost
  OBVIOUS
<1> DEFINE S == {0} \cup {i \in DOMAIN levels : levels[i].kind \in {"load", "startup"}}
<1>1. levels \in Seq(Level) /\ Len(levels) \in Nat /\ LastLoad(loadstream, levels, Len(levels))
  BY StackFacts DEF IInv, Structure
<1>2. DOMAIN levels = 1 .. Len(levels)
  BY <1>1
<1>3. S \subseteq Nat
  BY <1>1, <1>2
<1>4. loadstream \in S
  BY <1>1, <1>2 DEF LastLoad, Loads
<1>5. \A i \in S : i <= loadstream
  <2>1. loadstream \in Nat
    BY <1>3, <1>4
  <2> QED
    BY <1>1, <1>2, <2>1 DEF LastLoad, Loads
<1> HIDE DEF S
<1>6. \A x \in S : (\A y \in S : x >= y) => x = loadstream
  BY <1>3, <1>4, <1>5
<1>7. \E x \in S : \A y \in S : x >= y
  BY <1>3, <1>4, <1>5
<1>8. Max(S) \in S /\ \A y \in S : Max(S) >= y
  BY <1>7 DEF Max
<1>9. Max(S) = loadstream
  BY <1>6, <1>8
<1> QED
  BY <1>9 DEF LoadstreamIsInnermost, S

\* TO and the parser read the file of the innermost LOAD that has not returned,
\* or the keyboard, whatever errors, throws, pauses and handlers ended the loads
\* in between; and an interrupt that came during a collection or a save is still
\* remembered (files.c, lload; mem.c, delayed_int).
THEOREM SessionIsKept == Spec => []SessionInv
<1>1. IInv => SessionInv
  BY TypesHold, InnermostHolds DEF SessionInv, IInv, Interrupts
<1> QED
  BY <1>1, Invariant, PTL

\* An error in the instructions of an ERRACT handler starts no other, unless they
\* gave ERRACT a value themselves (error.c, err_logo), however many handlers,
\* pauses, loads and interrupts are on the stack.
THEOREM NoHandlerFromAHandler == Spec => []NoHandlerInHandler
<1>1. IInv => NoHandlerInHandler
  <2> SUFFICES ASSUME IInv PROVE NoHandlerInHandler
    OBVIOUS
  <2>1. levels \in Seq(Level) /\ Handlers(levels, erract)
    BY StackFacts
  <2>2. DOMAIN levels = 1 .. Len(levels)
    BY <2>1
  <2> QED
    BY <2>1, <2>2 DEF Handlers, NoHandlerInHandler
<1> QED
  BY <1>1, Invariant, PTL

-----------------------------------------------------------------------------
(* A throw to the top level. *)

Goes == \/ Home'
        \/ Len(levels) = 1 /\ stopping' = "run"
        \/ breaks' # breaks \/ (masked /\ ~masked')

LEMMA PopsHome ==
  ASSUME IInv, Home, Cur.kind # "top", Pop, UNCHANGED flow PROVE Home'
<1>1. levels \in Seq(Level) /\ Len(levels) \in Nat \ {0} /\ Len(levels) # 1
  BY StackFacts
<1>2. levels' = SubSeq(levels, 1, Len(levels) - 1)
  BY DEF Pop, Front
<1>3. \A i \in DOMAIN levels' : i \in DOMAIN levels /\ levels'[i] = levels[i]
  BY <1>1, <1>2
<1> QED
  BY <1>3 DEF Home, flow

LEMMA HomeStep ==
  ASSUME IInv, Home, [Next]_vars PROVE [Goes]_vars
<1>1. /\ Cur = levels[Len(levels)] /\ Len(levels) \in DOMAIN levels
      /\ Cur.kind = "top" <=> Len(levels) = 1
  BY StackFacts
<1>2. stopping = "throw" /\ throw_node = "toplevel" /\ Cur.kind \notin {"erract", "err_logo"}
  BY <1>1 DEF Home
<1>3. ~ (Prompt \/ LoadLine \/ EndLine \/ ProgramStep \/ ErrAct \/ ErrThrow \/ ErrActEnd
           \/ Catch \/ RunButton)
  BY <1>2 DEF Prompt, LoadLine, EndLine, ProgramStep, ErrAct, ErrThrow, ErrActEnd, Catch, RunButton,
              Running, Throwing, Read, To, Load, Error, MakeErract, ErrorPrimitive, ThrowTag, Pause
<1>4. CASE LoadEnd \/ StartupEnd
  <2>1. Pop /\ UNCHANGED flow /\ Cur.kind # "top"
    BY <1>2, <1>4 DEF LoadEnd, StartupEnd, Unload
  <2> QED
    BY <2>1, PopsHome DEF Goes
<1>5. CASE PauseThrow
  <2>1. Pop /\ UNCHANGED flow /\ Cur.kind # "top"
    BY <1>2, <1>5 DEF PauseThrow, flow
  <2> QED
    BY <2>1, PopsHome DEF Goes
<1>6. CASE ButtonThrow
  <2>1. Pop /\ UNCHANGED flow /\ Cur.kind # "top"
    BY <1>6 DEF ButtonThrow
  <2> QED
    BY <2>1, PopsHome DEF Goes
<1>7. CASE TopThrow
  BY <1>1, <1>7 DEF TopThrow, Resume, Goes
<1>8. CASE Mask
  BY <1>8 DEF Mask, Goes, Home, flow
<1>9. CASE Interrupt
  <2>1. breaks' = breaks + 1 /\ breaks \in Nat
    BY <1>9, SessionAssumption DEF Interrupt, IInv, Interrupts
  <2> QED
    BY <2>1 DEF Goes
<1>10. CASE Unmask
  BY <1>10 DEF Unmask, Goes
<1>11. CASE Click
  BY <1>2, <1>11 DEF Click, Goes, Home, flow
<1>12. CASE UNCHANGED vars
  BY <1>12
<1> QED
  BY <1>3, <1>4, <1>5, <1>6, <1>7, <1>8, <1>9, <1>10, <1>11, <1>12 DEF Next

\* A THROW "TOPLEVEL that has begun leaves loads, pauses and buttons one by one,
\* stays a throw to TOPLEVEL until the first level, and ends there: only an
\* interrupt can come in between.
THEOREM ToplevelReached == Spec => ToplevelIsReached
<1>1. IInv /\ [Next]_vars => [Home => Goes]_vars
  BY HomeStep
<1> QED
  BY <1>1, Invariant, PTL DEF Spec, ToplevelIsReached, Goes

----
(* Induction and recursion up to n. *)

LEMMA Least ==
  ASSUME NEW T \in SUBSET Nat, T # {} PROVE \E n \in T : \A m \in T : n <= m
<1> DEFINE R == OpToRel(<, Nat)
<1>1. IsWellFoundedOn(R, Nat) BY NatLessThanWellFounded
<1> HIDE DEF R
<1>2. PICK n \in T : \A m \in T : ~(<<m, n>> \in R) BY <1>1, WFMin
<1>3. \A m \in T : ~(m < n) BY <1>2 DEF OpToRel, R
<1> QED BY <1>3

LEMMA Upward ==
  ASSUME NEW n \in Nat, NEW S, 0 \in S, \A i \in 1 .. n : i - 1 \in S => i \in S
  PROVE  \A i \in 0 .. n : i \in S
<1> DEFINE T == {i \in 0 .. n : i \notin S}
<1> SUFFICES ASSUME T # {} PROVE FALSE OBVIOUS
<1>1. PICK m \in T : \A i \in T : m <= i
  <2>1. T \in SUBSET Nat OBVIOUS
  <2> HIDE DEF T
  <2> QED BY <2>1, Least
<1>2. m \in 1 .. n OBVIOUS
<1>3. m - 1 \in 0 .. n /\ m - 1 \notin T BY <1>1, <1>2
<1> QED BY <1>2, <1>3

\* A function that begins with c and goes on with the steps st.
Follows(f, n, c, st) == \A i \in 0 .. n : f[i] = IF i = 0 THEN c ELSE st[i][f[i - 1]]

LEMMA RecursionExists ==
  ASSUME NEW n \in Nat, NEW S, NEW c \in S, NEW st \in [1 .. n -> [S -> S]]
  PROVE  \E f \in [0 .. n -> S] : Follows(f, n, c, st)
<1> DEFINE Upto(m, f) == \A i \in 0 .. m : f[i] = IF i = 0 THEN c ELSE st[i][f[i - 1]]
           T == {m \in 0 .. n : \E f \in [0 .. m -> S] : Upto(m, f)}
<1>1. 0 \in T
  <2>1. Upto(0, [i \in 0 .. 0 |-> c]) /\ [i \in 0 .. 0 |-> c] \in [0 .. 0 -> S] OBVIOUS
  <2> HIDE DEF Upto
  <2> QED BY <2>1
<1>2. ASSUME NEW m \in 1 .. n, m - 1 \in T PROVE m \in T
  <2>1. PICK f \in [0 .. m - 1 -> S] : Upto(m - 1, f) BY <1>2
  <2> DEFINE g == [i \in 0 .. m |-> IF i = m THEN st[m][f[m - 1]] ELSE f[i]]
  <2>2. g \in [0 .. m -> S] OBVIOUS
  <2>3. ASSUME NEW i \in 0 .. m PROVE g[i] = IF i = 0 THEN c ELSE st[i][g[i - 1]]
    <3>1. CASE i = m
      <4>1. g[m - 1] = f[m - 1] /\ g[i] = st[m][f[m - 1]] /\ i # 0 BY <3>1
      <4> HIDE DEF g
      <4> QED BY <3>1, <4>1
    <3>2. CASE i # m
      <4>1. i \in 0 .. m - 1 /\ g[i] = f[i] BY <3>2
      <4>2. i # 0 => g[i - 1] = f[i - 1] BY <3>2
      <4> HIDE DEF g
      <4> QED BY <2>1, <4>1, <4>2
    <3> QED BY <3>1, <3>2
  <2>4. Upto(m, g) BY <2>3
  <2> HIDE DEF g, Upto
  <2> QED BY <2>2, <2>4
<1>3. n \in T
  <2> HIDE DEF T
  <2>1. \A m \in 1 .. n : m - 1 \in T => m \in T BY <1>2
  <2>2. \A m \in 0 .. n : m \in T BY <1>1, <2>1, Upward
  <2> QED BY <2>2
<1>4. PICK f \in [0 .. n -> S] : Upto(n, f)
  <2> HIDE DEF Upto
  <2> QED BY <1>3
<1> QED BY <1>4 DEF Follows
----
(* Powers of two. *)

\* The largest exponent of a power, and of a float.
Reach == 3 * IntBits + FractionBits
Span == 2 * IntBits + FractionBits

LEMMA Widths ==
  /\ IntBits \in Nat /\ Precision \in Nat /\ FractionBits \in Nat /\ MAXLOGOINT \in Nat /\ SAFEINT \in Nat
  /\ Reach \in Nat /\ Span \in Nat /\ Reach = IntBits + Span /\ Span = 2 * IntBits + FractionBits
  /\ IntBits + Precision <= FractionBits
  /\ 3 <= Precision /\ Precision + 1 < IntBits /\ 0 < MAXLOGOINT /\ 0 < SAFEINT
  /\ SAFEINT * SAFEINT <= MAXLOGOINT /\ MAXLOGOINT < TwoTo[Precision]
BY ArithmeticAssumption DEF Reach, Span

PowerRule(m, f) == \A k \in 0 .. m : f[k] = IF k = 0 THEN 1 ELSE 2 * f[k - 1]

LEMMA TwoToIs ==
  \A k \in 0 .. Reach : TwoTo[k] = IF k = 0 THEN 1 ELSE 2 * TwoTo[k - 1]
<1> DEFINE N == Reach
<1>1. N \in Nat BY Widths
<1> HIDE DEF N
<1> DEFINE st == [i \in 1 .. N |-> [x \in Int |-> 2 * x]]
<1>2. st \in [1 .. N -> [Int -> Int]] OBVIOUS
<1>3. PICK f \in [0 .. N -> Int] : Follows(f, N, 1, st)
  <2> DEFINE Z == Int c == 1
  <2>1. st \in [1 .. N -> [Z -> Z]] /\ c \in Z BY <1>2
  <2> HIDE DEF st, Z, c
  <2>2. \E f \in [0 .. N -> Z] : Follows(f, N, c, st) BY <1>1, <2>1, RecursionExists
  <2> QED BY <2>2, Zenon DEF Z, c
<1>4. \A k \in 0 .. N : f[k] = IF k = 0 THEN 1 ELSE 2 * f[k - 1]
  <2> SUFFICES ASSUME NEW k \in 0 .. N PROVE f[k] = IF k = 0 THEN 1 ELSE 2 * f[k - 1] OBVIOUS
  <2>1. CASE k = 0 BY <2>1, <1>1, <1>3 DEF Follows
  <2>2. CASE k # 0
    <3>1. k \in 1 .. N /\ k - 1 \in 0 .. N BY <1>1, <2>2
    <3>2. f[k - 1] \in Int BY <1>3, <3>1
    <3>3. st[k][f[k - 1]] = 2 * f[k - 1] BY <3>1, <3>2
    <3> QED BY <1>3, <2>2, <3>3 DEF Follows
  <2> QED BY <2>1, <2>2
<1>5. f = [k \in 0 .. N |-> IF k = 0 THEN 1 ELSE 2 * f[k - 1]] BY <1>3, <1>4
<1> DEFINE Rule(s) == s = [k \in 0 .. N |-> IF k = 0 THEN 1 ELSE 2 * s[k - 1]]
           g == CHOOSE s : Rule(s)
<1>6. Rule(g) BY <1>5
<1>7. TwoTo = g BY Zenon DEF TwoTo, N, Reach
<1> QED BY <1>6, <1>7, Zenon DEF N

LEMMA TwoToStart == TwoTo[0] = 1
BY TwoToIs, Widths

LEMMA TwoToNext ==
  ASSUME NEW k \in 1 .. Reach PROVE TwoTo[k] = 2 * TwoTo[k - 1]
BY TwoToIs, Widths

LEMMA TwoToPositive ==
  \A k \in 0 .. Reach : TwoTo[k] \in Nat \ {0}
<1> DEFINE S == {k \in 0 .. Reach : TwoTo[k] \in Nat \ {0}} n == Reach
<1>1. n \in Nat BY Widths
<1>2. 0 \in S BY TwoToStart, Widths
<1>3. ASSUME NEW i \in 1 .. n, i - 1 \in S PROVE i \in S BY <1>3, <1>1, TwoToNext
<1> HIDE DEF S, n
<1>4. \A i \in 0 .. n : i \in S BY <1>1, <1>2, <1>3, Upward
<1> QED BY <1>4 DEF S, n

(* Powers multiply as their exponents add. *)
LEMMA TwoToAdds ==
  ASSUME NEW j \in Nat, NEW k \in Nat, j + k <= Reach
  PROVE  TwoTo[j + k] = TwoTo[j] * TwoTo[k]
<1> DEFINE S == {i \in 0 .. k : TwoTo[j + i] = TwoTo[j] * TwoTo[i]}
<1>1. 0 \in S BY TwoToStart, TwoToPositive, Widths
<1>2. ASSUME NEW i \in 1 .. k, i - 1 \in S PROVE i \in S
  <2>1. TwoTo[j + (i - 1)] = TwoTo[j] * TwoTo[i - 1] BY <1>2
  <2>2. TwoTo[j + i] = 2 * TwoTo[j + i - 1] /\ TwoTo[i] = 2 * TwoTo[i - 1] BY TwoToNext, Widths
  <2>3. j + (i - 1) = j + i - 1 OBVIOUS
  <2>4. TwoTo[j] \in Nat /\ TwoTo[i - 1] \in Nat BY TwoToPositive, Widths
  <2> DEFINE a == TwoTo[j] b == TwoTo[i - 1] c == TwoTo[i] e == TwoTo[j + i] g == TwoTo[j + i - 1]
  <2>5. g = a * b /\ e = 2 * g /\ c = 2 * b /\ a \in Nat /\ b \in Nat BY <2>1, <2>2, <2>3, <2>4
  <2> HIDE DEF a, b, c, e, g
  <2>6. e = a * c BY <2>5
  <2> QED BY <2>6 DEF a, c, e
<1> HIDE DEF S
<1>3. \A i \in 0 .. k : i \in S BY <1>1, <1>2, Upward
<1> QED BY <1>3 DEF S

LEMMA TwoToGrows ==
  ASSUME NEW j \in Nat, NEW k \in Nat, j <= k, k <= Reach PROVE TwoTo[j] <= TwoTo[k]
<1>1. TwoTo[j + (k - j)] = TwoTo[j] * TwoTo[k - j] BY TwoToAdds, Widths
<1>2. TwoTo[j] \in Nat \ {0} /\ TwoTo[k - j] \in Nat \ {0} /\ j + (k - j) = k
  BY TwoToPositive, Widths
<1> DEFINE a == TwoTo[j] b == TwoTo[k - j] c == TwoTo[k]
<1>3. c = a * b /\ a \in Nat /\ b \in Nat /\ b >= 1 BY <1>1, <1>2
<1> HIDE DEF a, b, c
<1>4. a <= c BY <1>3
<1> QED BY <1>4 DEF a, c
----
(* Division, and what wraps round. *)

LEMMA DivIs ==
  ASSUME NEW n \in Int, NEW d \in Nat \ {0}
  PROVE  /\ n \div d \in Int /\ n % d \in 0 .. d - 1
         /\ n = d * (n \div d) + (n % d)
<1>1. n \div d \in Int /\ n % d \in 0 .. d - 1 OBVIOUS
<1>2. n % d = n - d * (n \div d) OBVIOUS
<1> DEFINE q == n \div d r == n % d
<1>3. q \in Int /\ r \in 0 .. d - 1 /\ r = n - d * q BY <1>1, <1>2
<1> HIDE DEF q, r
<1>4. n = d * q + r BY <1>3
<1> QED BY <1>1, <1>4 DEF q, r

(* The remainder is the only number in its range that leaves a multiple. *)
LEMMA ModIs ==
  ASSUME NEW q \in Int, NEW d \in Nat \ {0}, NEW r \in 0 .. d - 1
  PROVE  (d * q + r) % d = r /\ (d * q + r) \div d = q
<1> DEFINE n == d * q + r x == n \div d y == n % d
<1>1. n \in Int OBVIOUS
<1>2. x \in Int /\ y \in 0 .. d - 1 /\ n = d * x + y BY <1>1, DivIs
<1>3. d * (q - x) = y - r
  <2>1. d * q + r = d * x + y BY <1>2
  <2> HIDE DEF x, y
  <2> QED BY <2>1, <1>2
<1> HIDE DEF n, x, y
<1>4. q = x
  <2>1. CASE q - x >= 1
    <3>1. d * (q - x) >= d BY <2>1, <1>2
    <3> QED BY <3>1, <1>3, <1>2
  <2>2. CASE q - x <= -1
    <3>1. d * (q - x) <= -d BY <2>2, <1>2
    <3> QED BY <3>1, <1>3, <1>2
  <2> QED BY <2>1, <2>2, <1>2
<1>5. y = r BY <1>3, <1>4, <1>2
<1> QED BY <1>4, <1>5 DEF n, x, y

LEMMA NoRemainder ==
  ASSUME NEW n \in Int, NEW d \in Nat \ {0} PROVE /\ n % d = 0 <=> \E q \in Int : n = d * q
<1>1. ASSUME NEW q \in Int, n = d * q PROVE n % d = 0
  <2>1. (d * q + 0) % d = 0 BY ModIs
  <2>2. d * q + 0 = n BY <1>1
  <2> QED BY <2>1, <2>2
<1>2. ASSUME n % d = 0 PROVE \E q \in Int : n = d * q
  <2> DEFINE q == n \div d
  <2>1. q \in Int /\ n = d * q + (n % d) BY DivIs
  <2> HIDE DEF q
  <2>2. n = d * q BY <2>1, <1>2
  <2> QED BY <2>1, <2>2
<1> QED BY <1>1, <1>2

(* How C divides: the remainder is smaller than the divisor and has the *)
(* sign of the dividend. *)
Divided(n, d, q, r) ==
  /\ q \in Int /\ r \in Int /\ n = d * q + r
  /\ Size(r) < Size(d) /\ (r < 0 => n < 0) /\ (r > 0 => n > 0)
  /\ Size(d) * Size(q) <= Size(n)

LEMMA QuotRem ==
  ASSUME NEW n \in Int, NEW d \in Int, d # 0 PROVE Divided(n, d, Quot(n, d), Rem(n, d))
<1> DEFINE a == Size(n) b == Size(d) x == a \div b y == a % b q == Quot(n, d)
<1>1. a \in Nat /\ b \in Nat \ {0} BY DEF Size
<1>2. x \in Int /\ y \in 0 .. b - 1 /\ a = b * x + y
  <2> HIDE DEF a, b
  <2> QED BY <1>1, DivIs
<1>3. x >= 0
  <2> HIDE DEF a, b, x, y
  <2> SUFFICES ASSUME x <= -1 PROVE FALSE BY <1>2
  <2>1. b * x <= -b BY <1>1, <1>2
  <2> QED BY <2>1, <1>1, <1>2
<1>4. q = (IF (n < 0) = (d < 0) THEN x ELSE -x)
  <2>1. q = (IF (n < 0) = (d < 0) THEN 1 ELSE -1) * x BY DEF Quot
  <2> HIDE DEF q, x
  <2> QED BY <2>1, <1>2
<1>5. Rem(n, d) = n - d * q BY DEF Rem
<1> DEFINE r == n - d * q
<1>6. a = (IF n < 0 THEN -n ELSE n) /\ b = (IF d < 0 THEN -d ELSE d) BY DEF Size
<1> HIDE DEF a, b, x, y, q
<1>7. q \in Int /\ r = (IF n < 0 THEN -y ELSE y)
  <2>1. CASE n < 0 /\ d < 0 BY <2>1, <1>1, <1>2, <1>4, <1>6
  <2>2. CASE n < 0 /\ ~(d < 0) BY <2>2, <1>1, <1>2, <1>4, <1>6
  <2>3. CASE ~(n < 0) /\ d < 0 BY <2>3, <1>1, <1>2, <1>4, <1>6
  <2>4. CASE ~(n < 0) /\ ~(d < 0) BY <2>4, <1>1, <1>2, <1>4, <1>6
  <2> QED BY <2>1, <2>2, <2>3, <2>4
<1>8. n = d * q + r BY <1>7
<1>9. Size(q) = x BY <1>2, <1>3, <1>4 DEF Size
<1>10. r \in Int /\ Size(r) = y
  <2> HIDE DEF r
  <2> QED BY <1>2, <1>7 DEF Size
<1>11. (r < 0 => n < 0) /\ (r > 0 => n > 0)
  <2>1. ~(n < 0) /\ r > 0 => n > 0
    <3> SUFFICES ASSUME n = 0, r > 0 PROVE FALSE OBVIOUS
    <3>1. b * x >= 0 BY <1>1, <1>2, <1>3
    <3>2. y <= 0 BY <1>2, <1>6, <3>1, <1>1
    <3> HIDE DEF r
    <3> QED BY <1>7, <3>2, <1>2
  <2> HIDE DEF r
  <2> QED BY <2>1, <1>2, <1>7
<1>12. b * x <= a BY <1>1, <1>2
<1> HIDE DEF r
<1>13. Size(r) < Size(d) /\ Size(d) * Size(q) <= Size(n)
  <2>1. y < b BY <1>1, <1>2
  <2>2. Size(r) < b /\ b * Size(q) <= a BY <2>1, <1>9, <1>10, <1>12, Zenon
  <2> QED BY <2>2, Zenon DEF a, b
<1>14. q \in Int /\ r \in Int /\ n = d * q + r BY <1>7, <1>8, <1>10
<1>15. Divided(n, d, q, r) BY <1>11, <1>13, <1>14, Zenon DEF Divided
<1> QED BY <1>15, <1>5 DEF q, r

LEMMA IntsIs ==
  /\ TwoTo[IntBits - 1] \in Nat \ {0} /\ MaxInt = TwoTo[IntBits - 1] - 1 /\ MinInt = -TwoTo[IntBits - 1]
  /\ \A n : n \in Ints <=> n \in Int /\ -TwoTo[IntBits - 1] <= n /\ n < TwoTo[IntBits - 1]
<1>1. TwoTo[IntBits - 1] \in Nat \ {0} BY TwoToPositive, Widths
<1> DEFINE m == TwoTo[IntBits - 1]
<1>2. m \in Nat \ {0} /\ MaxInt = m - 1 /\ MinInt = -MaxInt - 1 BY <1>1 DEF MaxInt, MinInt
<1> HIDE DEF m
<1>3. m \in Nat \ {0} /\ MaxInt = m - 1 /\ MinInt = -m BY <1>2
<1>4. \A n : n \in Ints <=> n \in Int /\ -m <= n /\ n < m BY <1>3 DEF Ints
<1> QED BY <1>3, <1>4 DEF m

LEMMA WrappedIs ==
  ASSUME NEW n \in Int, NEW m, m = TwoTo[IntBits - 1], -3 * m <= n, n < 3 * m
  PROVE  Wrapped(n) = IF n < -m THEN n + 2 * m ELSE IF n >= m THEN n - 2 * m ELSE n
<1>1. m \in Nat \ {0} /\ MaxInt = m - 1 /\ MinInt = -m BY IntsIs
<1> DEFINE d == 2 * m
<1>2. Wrapped(n) = ((n - (-m)) % (2 * ((m - 1) + 1))) + (-m) BY <1>1 DEF Wrapped
<1>3. n - (-m) = n + m /\ 2 * ((m - 1) + 1) = d /\ d \in Nat \ {0} BY <1>1
<1>4. Wrapped(n) = ((n + m) % d) + (-m) BY <1>2, <1>3
<1> HIDE DEF d
<1>5. ASSUME NEW q \in Int, NEW r \in 0 .. d - 1, n + m = d * q + r PROVE Wrapped(n) = r - m
  <2>1. (d * q + r) % d = r BY <1>3, ModIs
  <2>2. (n + m) % d = r BY <2>1, <1>5
  <2> QED BY <2>2, <1>4, <1>3, <1>1
<1>6. d = 2 * m BY DEF d
<1>7. CASE n < -m
  <2> DEFINE q == -1 r == n + 3 * m
  <2>1. n + m = d * q + r /\ r \in 0 .. d - 1 /\ q \in Int /\ r = n + 3 * m BY <1>7, <1>1, <1>6
  <2> HIDE DEF q, r
  <2>2. Wrapped(n) = r - m BY <2>1, <1>5
  <2> QED BY <2>1, <2>2, <1>7, <1>1
<1>8. CASE n >= m
  <2>1. n + m = d * 1 + (n - m) /\ n - m \in 0 .. d - 1 BY <1>8, <1>1, <1>6
  <2>2. Wrapped(n) = n - m - m BY <2>1, <1>5
  <2> QED BY <2>2, <1>8, <1>1
<1>9. CASE ~(n < -m) /\ ~(n >= m)
  <2> DEFINE q == 0 r == n + m
  <2>1. n + m = d * q + r /\ r \in 0 .. d - 1 /\ q \in Int /\ r = n + m BY <1>9, <1>1, <1>6
  <2> HIDE DEF q, r
  <2>2. Wrapped(n) = r - m BY <2>1, <1>5
  <2> QED BY <2>1, <2>2, <1>9, <1>1
<1> QED BY <1>7, <1>8, <1>9
----
(* Rounding.  What comes out is a multiple of a power of two that is small *)
(* beside the number, the multiple next to it, and an even one of two. *)

\* n/d is small enough to be rounded.
Fits(n, d) == n \in Int /\ d \in Nat \ {0} /\ Size(n) < TwoTo[Precision + Span] * d
Roundable(n) == n \in Int /\ Size(n) < TwoTo[Precision + Span]

Rounds(n, d, m, k) ==
  /\ m \in Int /\ k \in 0 .. Span
  /\ \E q \in Int : m = TwoTo[k] * q /\ (2 * Size(m * d - n) = TwoTo[k] * d => q % 2 = 0)
  /\ 2 * Size(m * d - n) <= TwoTo[k] * d
  /\ Size(n) < TwoTo[Precision] * TwoTo[k] * d
  /\ k = 0 \/ TwoTo[Precision] * TwoTo[k] * d <= 2 * Size(n)

\* The exponent that Rounded takes.
Exponent(n, d, k) ==
  TwoTo[Precision + k] * d > Size(n) /\ (k = 0 \/ TwoTo[Precision + k - 1] * d <= Size(n))

LEMMA HasExponent ==
  ASSUME NEW n, NEW d, Fits(n, d) PROVE \E k \in 0 .. Span : Exponent(n, d, k)
<1> DEFINE T == {k \in 0 .. Span : TwoTo[Precision + k] * d > Size(n)}
<1>1. Span \in T
  <2>1. Precision + Span \in 0 .. Reach BY Widths
  <2>2. TwoTo[Precision + Span] \in Nat BY <2>1, TwoToPositive
  <2>3. Size(n) \in Int /\ TwoTo[Precision + Span] * d \in Int BY <2>2 DEF Fits, Size
  <2>4. TwoTo[Precision + Span] * d > Size(n) BY <2>3 DEF Fits
  <2> QED BY <2>4, Widths
<1>2. PICK k \in T : \A j \in T : k <= j
  <2>1. T \in SUBSET Nat BY Widths
  <2> HIDE DEF T
  <2> QED BY <1>1, <2>1, Least
<1>3. CASE k = 0 BY <1>2, <1>3 DEF Exponent
<1>4. CASE k # 0
  <2>1. k - 1 \in 0 .. Span /\ k - 1 \notin T BY <1>2, <1>4, Widths
  <2>2. ~(TwoTo[Precision + (k - 1)] * d > Size(n)) BY <2>1
  <2>3. Precision + (k - 1) = Precision + k - 1 /\ Precision + k - 1 \in 0 .. Reach
    BY <1>2, <1>4, Widths
  <2>4. TwoTo[Precision + k - 1] \in Int /\ Size(n) \in Int /\ d \in Int
    BY <2>3, TwoToPositive DEF Size, Fits
  <2>5. TwoTo[Precision + k - 1] * d <= Size(n)
    <3> DEFINE a == TwoTo[Precision + k - 1] * d
    <3>1. a \in Int /\ ~(a > Size(n)) BY <2>2, <2>3, <2>4
    <3> HIDE DEF a
    <3>2. a <= Size(n) BY <3>1, <2>4
    <3> QED BY <3>2 DEF a
  <2> QED BY <1>2, <2>5 DEF Exponent
<1> QED BY <1>3, <1>4

LEMMA RoundedRounds ==
  ASSUME NEW n, NEW d, Fits(n, d) PROVE \E k : Rounds(n, d, Rounded(n, d), k)
<1> DEFINE e == CHOOSE k \in 0 .. Span : Exponent(n, d, k) c == TwoTo[e] u == c * d
           low == n \div u over == 2 * (n - low * u)
           t == IF over < u \/ (over = u /\ low % 2 = 0) THEN low ELSE low + 1 m == c * t
<1>1. Rounded(n, d) = m BY Zenon DEF Rounded, TiesToEven, Exponent, Span
<1>2. e \in 0 .. Span /\ Exponent(n, d, e)
  <2>1. \E k \in 0 .. Span : Exponent(n, d, k) BY HasExponent
  <2> QED BY <2>1, Zenon
<1>3. c \in Nat \ {0} /\ n \in Int /\ d \in Nat \ {0} BY <1>2, TwoToPositive, Widths DEF Fits
<1>4. u \in Nat \ {0}
  <2> HIDE DEF c
  <2> QED BY <1>3
<1> DEFINE r == n % u
<1>5. low \in Int /\ r \in 0 .. u - 1 /\ n = u * low + r
  <2> HIDE DEF u
  <2> QED BY <1>3, <1>4, DivIs
<1>6. t \in Int /\ 2 * Size(u * t - n) <= u /\ (2 * Size(u * t - n) = u => t % 2 = 0)
  <2> HIDE DEF r, low, u
  <2>1. over = 2 * r BY <1>3, <1>4, <1>5
  <2> HIDE DEF over
  <2>2. CASE over < u \/ (over = u /\ low % 2 = 0)
    <3>1. t = low BY <2>2
    <3>2. Size(u * low - n) = r
      <4>1. u * low - n = -r BY <1>4, <1>5
      <4> QED BY <4>1, <1>4, <1>5 DEF Size
    <3>3. 2 * r <= u /\ (2 * r = u => low % 2 = 0) BY <2>1, <2>2, <1>4, <1>5
    <3> HIDE DEF t
    <3> QED BY <3>1, <3>2, <3>3, <1>5
  <2>3. CASE ~(over < u \/ (over = u /\ low % 2 = 0))
    <3>1. t = low + 1 BY <2>3
    <3>2. Size(u * (low + 1) - n) = u - r
      <4>1. u * (low + 1) = u * low + u BY <1>4, <1>5
      <4> DEFINE g == u * low
      <4>2. g \in Int /\ u * (low + 1) = g + u /\ n = g + r BY <4>1, <1>4, <1>5
      <4> HIDE DEF g
      <4>3. u * (low + 1) - n = u - r BY <4>2, <1>4, <1>5
      <4> QED BY <4>3, <1>4, <1>5 DEF Size
    <3>3. 2 * (u - r) <= u BY <2>1, <2>3, <1>4, <1>5
    <3>4. 2 * (u - r) = u => (low + 1) % 2 = 0
      <4>1. 2 * (u - r) = u => low % 2 # 0 BY <2>1, <2>3, <1>4, <1>5
      <4>2. low % 2 # 0 => (low + 1) % 2 = 0 BY <1>5
      <4> QED BY <4>1, <4>2
    <3> HIDE DEF t
    <3> QED BY <3>1, <3>2, <3>3, <3>4, <1>5
  <2> QED BY <2>2, <2>3
<1>7. m \in Int /\ m * d = u * t
  <2> HIDE DEF c, t
  <2> QED BY <1>3, <1>6
<1>8. TwoTo[Precision + e] = TwoTo[Precision] * c /\ TwoTo[Precision] \in Nat
  <2> HIDE DEF e
  <2> QED BY <1>2, TwoToAdds, TwoToPositive, Widths
<1>9. Size(n) < TwoTo[Precision] * c * d
  <2>1. TwoTo[Precision + e] * d > Size(n) BY <1>2 DEF Exponent
  <2>2. TwoTo[Precision] * c * d > Size(n) BY <2>1, <1>8
  <2> DEFINE g == TwoTo[Precision] * c * d
  <2>3. g \in Int /\ Size(n) \in Int /\ g > Size(n)
    <3> HIDE DEF c
    <3> QED BY <2>2, <1>3, <1>8 DEF Size
  <2> HIDE DEF g
  <2>4. Size(n) < g BY <2>3
  <2> QED BY <2>4 DEF g
<1>10. e = 0 \/ TwoTo[Precision] * c * d <= 2 * Size(n)
  <2> SUFFICES ASSUME e # 0 PROVE TwoTo[Precision] * c * d <= 2 * Size(n) OBVIOUS
  <2>1. TwoTo[Precision + e - 1] * d <= Size(n) BY <1>2 DEF Exponent
  <2> DEFINE j == Precision + e a == TwoTo[Precision + e - 1] b == TwoTo[Precision + e]
  <2>2. j \in 1 .. Reach /\ Precision + e - 1 = j - 1 /\ j - 1 \in 0 .. Reach
    BY <1>2, Widths
  <2>3. b = 2 * TwoTo[j - 1] /\ TwoTo[j - 1] \in Int
    <3> HIDE DEF j
    <3>1. TwoTo[j] = 2 * TwoTo[j - 1] BY <2>2, TwoToNext
    <3>2. TwoTo[j - 1] \in Int BY <2>2, TwoToPositive
    <3> QED BY <3>1, <3>2 DEF j
  <2>4. b = 2 * a /\ a \in Int BY <2>2, <2>3, Zenon
  <2> DEFINE g == a * d
  <2>5. g <= Size(n) /\ Size(n) \in Int /\ g \in Int
    <3>1. Size(n) \in Int BY <1>3 DEF Size
    <3> HIDE DEF a
    <3>2. g \in Int BY <2>4, <1>3
    <3> QED BY <2>1, <3>1, <3>2 DEF a
  <2>6. b * d = 2 * g
    <3> HIDE DEF a, b
    <3> QED BY <2>4, <1>3
  <2>7. TwoTo[Precision] * c * d = b * d BY <1>8
  <2> HIDE DEF g, b
  <2>8. b * d <= 2 * Size(n) BY <2>5, <2>6
  <2> QED BY <2>7, <2>8
<1> HIDE DEF e
<1>11. Rounds(n, d, m, e)
  <2>1. 2 * Size(m * d - n) <= c * d /\ (2 * Size(m * d - n) = c * d => t % 2 = 0)
    <3> HIDE DEF m, t
    <3> QED BY <1>6, <1>7
  <2> HIDE DEF t
  <2> QED BY <1>2, <1>6, <1>7, <1>9, <1>10, <2>1 DEF Rounds
<1> QED BY <1>1, <1>11

\* The powers that a rounding is about, p for the precision.
Powers(p, h, u, k) ==
  /\ p = TwoTo[Precision] /\ h = TwoTo[Precision - 1] /\ u = TwoTo[k]
  /\ p \in Nat /\ h \in Nat /\ u \in Nat /\ p = 2 * h /\ h >= 4 /\ u >= 1

LEMMA PowersAre ==
  ASSUME NEW k \in 0 .. Span
  PROVE  /\ Powers(TwoTo[Precision], TwoTo[Precision - 1], TwoTo[k], k)
         /\ k # 0 => \E v \in Nat \ {0} : TwoTo[k] = 2 * v
         /\ TwoTo[Precision] = 4 * TwoTo[Precision - 2] /\ TwoTo[Precision - 2] \in Nat
<1> DEFINE i == Precision - 1 j == Precision - 2
<1>1. /\ Precision \in 1 .. Reach /\ i \in 1 .. Reach /\ j \in 1 .. Reach /\ i - 1 = j
      /\ i \in 0 .. Reach /\ j \in 0 .. Reach /\ j - 1 \in 0 .. Reach /\ k \in 0 .. Reach
  BY Widths
<1>2. TwoTo[Precision] = 2 * TwoTo[i] BY <1>1, TwoToNext
<1>3. TwoTo[i] = 2 * TwoTo[j]
  <2> HIDE DEF i, j
  <2>1. TwoTo[i] = 2 * TwoTo[i - 1] BY <1>1, TwoToNext
  <2> QED BY <2>1, <1>1
<1>4. TwoTo[j] = 2 * TwoTo[j - 1] /\ TwoTo[j - 1] \in Nat \ {0}
  <2> HIDE DEF i, j
  <2> QED BY <1>1, TwoToNext, TwoToPositive
<1>5. TwoTo[k] \in Nat /\ TwoTo[k] >= 1 BY <1>1, TwoToPositive
<1>6. k # 0 => \E v \in Nat \ {0} : TwoTo[k] = 2 * v
  <2> SUFFICES ASSUME k # 0 PROVE \E v \in Nat \ {0} : TwoTo[k] = 2 * v OBVIOUS
  <2>1. k \in 1 .. Reach /\ k - 1 \in 0 .. Reach BY Widths
  <2> QED BY <2>1, TwoToNext, TwoToPositive
<1> DEFINE a == TwoTo[Precision] b == TwoTo[i] c == TwoTo[j] x == TwoTo[j - 1]
<1>7. a = 2 * b /\ b = 2 * c /\ c = 2 * x /\ x \in Nat \ {0} BY <1>2, <1>3, <1>4
<1> HIDE DEF x
<1>8. a \in Nat /\ b \in Nat /\ c \in Nat /\ b >= 4 /\ a = 4 * c
  <2> HIDE DEF a, b, c
  <2> QED BY <1>7
<1>9. Powers(a, b, TwoTo[k], k) BY <1>5, <1>7, <1>8 DEF Powers
<1> QED BY <1>6, <1>8, <1>9

\* What Rounds says, of the numbers alone.
Near(n, d, m, k, p, u, q) ==
  /\ m = u * q /\ q \in Int /\ 2 * Size(m * d - n) <= u * d /\ Size(n) < p * u * d
  /\ 2 * Size(m * d - n) = u * d => q % 2 = 0
  /\ k = 0 \/ p * u * d <= 2 * Size(n)

LEMMA RoundsIs ==
  ASSUME NEW n \in Int, NEW d, NEW m, NEW k, Rounds(n, d, m, k)
  PROVE  \E p, h, u, q : Powers(p, h, u, k) /\ Near(n, d, m, k, p, u, q) /\ m \in Int /\ k \in 0 .. Span
<1>1. k \in 0 .. Span BY DEF Rounds
<1>2. Powers(TwoTo[Precision], TwoTo[Precision - 1], TwoTo[k], k) BY <1>1, PowersAre
<1>3. PICK q \in Int : m = TwoTo[k] * q /\ (2 * Size(m * d - n) = TwoTo[k] * d => q % 2 = 0) BY DEF Rounds
<1>4. Near(n, d, m, k, TwoTo[Precision], TwoTo[k], q) BY <1>3 DEF Near, Rounds
<1>5. m \in Int BY DEF Rounds
<1> QED BY <1>1, <1>2, <1>4, <1>5

(* The error is small beside the number, if no bit of it is below a unit. *)
LEMMA ErrorRounds ==
  ASSUME NEW n \in Int, NEW d \in Nat \ {0}, NEW m, NEW k, Rounds(n, d, m, k), k # 0
  PROVE  TwoTo[Precision] * Size(m * d - n) <= Size(n)
<1>4. PICK p, h, u, q : Powers(p, h, u, k) /\ Near(n, d, m, k, p, u, q) /\ m \in Int
  BY RoundsIs
<1> DEFINE e == Size(m * d - n) s == Size(n)
<1>5. e \in Nat /\ s \in Nat BY <1>4 DEF Size
<1>6. u \in Nat /\ p \in Nat /\ 2 * e <= u * d /\ p * u * d <= 2 * s /\ p = TwoTo[Precision]
  BY <1>4 DEF Powers, Near
<1> HIDE DEF e, s
<1> DEFINE g == u * d
<1>7. g \in Nat /\ 2 * e <= g /\ p * g <= 2 * s
  <2>1. p * u * d = p * (u * d) BY <1>6
  <2> QED BY <2>1, <1>6
<1> HIDE DEF g
<1>8. p * e <= s
  <2>1. p * (2 * e) <= p * g BY <1>5, <1>6, <1>7
  <2>2. p * (2 * e) = 2 * (p * e) /\ p * e \in Int /\ p * g \in Int BY <1>5, <1>6, <1>7
  <2> QED BY <2>1, <2>2, <1>5, <1>7
<1> QED BY <1>6, <1>8 DEF e, s

(* A multiple of the power is not passed. *)
LEMMA MultipleKept ==
  ASSUME NEW n \in Int, NEW d \in Nat \ {0}, NEW u \in Nat, u >= 1, NEW q \in Int, NEW c \in Int, NEW m, m = u * q,
         2 * Size(m * d - n) <= u * d
  PROVE  (n >= (u * c) * d => m >= u * c) /\ (n <= (u * c) * d => m <= u * c)
<1> DEFINE w == u * c g == u * d a == m * d b == w * d
<1>1. w \in Int /\ m \in Int /\ g \in Int /\ g >= 1 /\ a \in Int /\ b \in Int OBVIOUS
<1>2. a - b = g * (q - c) OBVIOUS
<1>3. q - c <= -1 => a - b <= -g
  <2> SUFFICES ASSUME q - c <= -1 PROVE a - b <= -g OBVIOUS
  <2>1. g * (q - c) <= -g
    <3> HIDE DEF g
    <3> QED BY <1>1
  <2> QED BY <1>2, <2>1
<1>4. q - c >= 1 => a - b >= g
  <2> SUFFICES ASSUME q - c >= 1 PROVE a - b >= g OBVIOUS
  <2>1. g * (q - c) >= g
    <3> HIDE DEF g
    <3> QED BY <1>1
  <2> QED BY <1>2, <2>1
<1>5. 2 * Size(a - n) <= g OBVIOUS
<1>6. (q >= c => m >= w) /\ (q <= c => m <= w) OBVIOUS
<1> HIDE DEF w, g, a, b
<1>7. 2 * (a - n) <= g /\ 2 * (n - a) <= g BY <1>1, <1>5 DEF Size
<1>8. (n >= b => q >= c) /\ (n <= b => q <= c) BY <1>1, <1>3, <1>4, <1>7
<1>9. (n >= b => m >= w) /\ (n <= b => m <= w) BY <1>6, <1>8
<1> QED BY <1>9 DEF w, b

\* z has no more significant bits than a float.
Representable(z) == \E j \in 0 .. Span, t \in Int : z = TwoTo[j] * t /\ Size(t) <= TwoTo[Precision]

(* It is a multiple of any power that it is not small beside. *)
LEMMA RepresentableAt ==
  ASSUME NEW z, Representable(z), NEW k \in 0 .. Span
  PROVE  /\ z \in Int
         /\ (\E s \in Int : z = TwoTo[k] * s) \/ (k # 0 /\ 2 * Size(z) <= TwoTo[Precision] * TwoTo[k])
<1>1. PICK j \in 0 .. Span, t \in Int : z = TwoTo[j] * t /\ Size(t) <= TwoTo[Precision]
  BY DEF Representable
<1> DEFINE p == TwoTo[Precision] v == TwoTo[j] u == TwoTo[k]
<1>2. p \in Nat /\ v \in Nat /\ u \in Nat /\ v >= 1 BY TwoToPositive, Widths
<1>3. z = v * t /\ z \in Int BY <1>1, <1>2
<1>4. CASE k <= j
  <2> DEFINE g == TwoTo[j - k]
  <2>1. v = u * g /\ g \in Nat
    <3>1. TwoTo[k + (j - k)] = TwoTo[k] * TwoTo[j - k] /\ TwoTo[j - k] \in Nat
      BY <1>4, TwoToAdds, TwoToPositive, Widths
    <3>2. k + (j - k) = j OBVIOUS
    <3> QED BY <3>1, <3>2
  <2> HIDE DEF v, g, u
  <2>2. z = u * (g * t) /\ g * t \in Int BY <2>1, <1>2, <1>3
  <2> QED BY <2>2, <1>3 DEF u
<1>5. CASE k > j
  <2> DEFINE g == TwoTo[(k - j) - 1]
  <2>1. u = v * (2 * g) /\ g \in Nat /\ g >= 1
    <3>1. k - j \in 1 .. Reach /\ k - j \in Nat /\ j + (k - j) <= Reach /\ (k - j) - 1 \in 0 .. Reach /\ j + (k - j) = k
      BY <1>5, Widths
    <3> DEFINE i == k - j
    <3> HIDE DEF i
    <3>2. TwoTo[i] = 2 * TwoTo[i - 1] BY <3>1, TwoToNext DEF i
    <3>3. TwoTo[j + i] = TwoTo[j] * TwoTo[i] BY <3>1, TwoToAdds DEF i
    <3>4. TwoTo[i - 1] \in Nat \ {0} BY <3>1, TwoToPositive DEF i
    <3> QED BY <3>1, <3>2, <3>3, <3>4 DEF i
  <2> DEFINE s == Size(t)
  <2>2. s \in Nat /\ s <= p BY <1>1 DEF Size
  <2>3. Size(z) = v * s
    <3> HIDE DEF v, s
    <3>1. v * s \in Nat BY <1>2, <2>2
    <3>2. t = s \/ t = -s BY DEF s, Size
    <3>3. z = v * s \/ z = -(v * s) BY <1>2, <1>3, <2>2, <3>2
    <3> DEFINE y == v * s
    <3>4. y \in Nat /\ (z = y \/ z = -y) BY <3>1, <3>3
    <3> HIDE DEF y
    <3>5. Size(z) = y BY <3>4 DEF Size
    <3> QED BY <3>5 DEF y
  <2> HIDE DEF v, g, s, u, p
  <2>4. v * s <= v * p /\ v * p \in Nat /\ v * s \in Nat BY <1>2, <2>2
  <2>5. v * p <= (v * p) * g BY <2>4, <2>1
  <2>6. p * u = 2 * ((v * p) * g) /\ (v * p) * g \in Nat BY <2>1, <1>2
  <2> DEFINE a == v * s b == v * p c == (v * p) * g
  <2>7. a \in Int /\ b \in Int /\ c \in Int /\ a <= b /\ b <= c /\ p * u = 2 * c /\ Size(z) = a
    BY <2>3, <2>4, <2>5, <2>6
  <2> HIDE DEF a, b, c
  <2>8. 2 * Size(z) <= p * u BY <2>7
  <2> QED BY <2>8, <1>3, <1>5 DEF p, u
<1> QED BY <1>4, <1>5

(* A float is not passed either. *)
LEMMA RoundedKept ==
  ASSUME NEW n \in Int, NEW d \in Nat \ {0}, NEW m, NEW k, Rounds(n, d, m, k), NEW z, Representable(z)
  PROVE  (n >= z * d => m >= z) /\ (n <= z * d => m <= z)
<1>1. PICK p, h, u, q : Powers(p, h, u, k) /\ Near(n, d, m, k, p, u, q) /\ m \in Int /\ k \in 0 .. Span
  BY RoundsIs
<1>2. /\ p \in Nat /\ h \in Nat /\ u \in Nat /\ p = 2 * h /\ h >= 4 /\ u >= 1 /\ p = TwoTo[Precision] /\ u = TwoTo[k]
      /\ m = u * q /\ q \in Int /\ 2 * Size(m * d - n) <= u * d
  BY <1>1 DEF Powers, Near
<1>3. \A c \in Int : (n >= (u * c) * d => m >= u * c) /\ (n <= (u * c) * d => m <= u * c)
  <2> SUFFICES ASSUME NEW c \in Int PROVE (n >= (u * c) * d => m >= u * c) /\ (n <= (u * c) * d => m <= u * c)
    OBVIOUS
  <2>1. u \in Nat /\ u >= 1 /\ q \in Int /\ m = u * q /\ 2 * Size(m * d - n) <= u * d BY <1>2
  <2> QED BY <2>1, MultipleKept
<1>4. z \in Int /\ ((\E s \in Int : z = u * s) \/ (k # 0 /\ 2 * Size(z) <= p * u))
  BY <1>1, <1>2, RepresentableAt
<1>5. CASE \E s \in Int : z = u * s BY <1>3, <1>5
<1>6. CASE k # 0 /\ 2 * Size(z) <= p * u
  <2> DEFINE w == u * h x == w * d y == z * d
  <2>1. p * u = 2 * w /\ p * u * d = 2 * x /\ w \in Nat /\ x \in Nat /\ y \in Int BY <1>2, <1>4
  <2>2. 2 * x <= 2 * Size(n) BY <1>1, <1>6, <2>1 DEF Near
  <2>3. z <= w /\ -w <= z
    <3> HIDE DEF w
    <3> QED BY <1>4, <1>6, <2>1 DEF Size
  <2>4. y <= x /\ -x <= y
    <3> HIDE DEF w
    <3> QED BY <1>4, <2>1, <2>3
  <2>5. (n >= x => m >= w) /\ (n <= -x => m <= -w)
    <3>1. (n >= (u * h) * d => m >= u * h) /\ (n <= (u * (-h)) * d => m <= u * (-h)) BY <1>3, <1>2
    <3>2. u * (-h) = -w /\ (u * (-h)) * d = -x BY <1>2
    <3> QED BY <3>1, <3>2
  <2>6. (n >= x => m >= w) /\ (n <= x => m <= w) /\ (n >= -x => m >= -w) /\ (n <= -x => m <= -w)
    <3>1. (n >= (u * h) * d => m >= u * h) /\ (n <= (u * h) * d => m <= u * h) BY <1>3, <1>2
    <3>2. (n >= (u * (-h)) * d => m >= u * (-h)) /\ (n <= (u * (-h)) * d => m <= u * (-h)) BY <1>3, <1>2
    <3>3. u * (-h) = -w /\ (u * (-h)) * d = -x BY <1>2
    <3> QED BY <3>1, <3>2, <3>3
  <2>9. (y = x => z = w) /\ (y = -x => z = -w)
    <3> HIDE DEF w
    <3>1. z <= w - 1 => z * d <= w * d - d /\ w * d \in Int BY <1>4, <2>1
    <3>2. z >= 1 - w => z * d >= d - w * d /\ w * d \in Int BY <1>4, <2>1
    <3> HIDE DEF x, y
    <3>3. (z <= w - 1 => y <= x - d) /\ (z >= 1 - w => y >= d - x) BY <3>1, <3>2 DEF x, y
    <3> QED BY <3>3, <2>1, <2>3, <1>4
  <2> HIDE DEF w, x, y
  <2>7. n >= x \/ n <= -x BY <2>1, <2>2 DEF Size
  <2>8. (n >= y => m >= z) /\ (n <= y => m <= z) BY <1>1, <1>4, <2>1, <2>3, <2>4, <2>6, <2>7, <2>9
  <2> QED BY <2>8 DEF y
<1> QED BY <1>4, <1>5, <1>6

(* What comes out is a float. *)
LEMMA RoundsRepresentable ==
  ASSUME NEW n \in Int, NEW d \in Nat \ {0}, NEW m, NEW k, Rounds(n, d, m, k)
  PROVE  /\ m \in Int /\ k \in 0 .. Span
         /\ \E t \in Int : m = TwoTo[k] * t /\ Size(t) <= TwoTo[Precision]
<1>1. PICK p, h, u, q : Powers(p, h, u, k) /\ Near(n, d, m, k, p, u, q) /\ m \in Int /\ k \in 0 .. Span
  BY RoundsIs
<1>2. /\ p \in Nat /\ u \in Nat /\ u >= 1 /\ u = TwoTo[k] /\ p = TwoTo[Precision]
      /\ m = u * q /\ q \in Int /\ 2 * Size(m * d - n) <= u * d /\ Size(n) < p * u * d
  BY <1>1 DEF Powers, Near
<1>3. Size(q) <= p
  <2> SUFFICES ASSUME ~(Size(q) <= p) PROVE FALSE OBVIOUS
  <2> DEFINE s == Size(q) g == u * d a == p * u * d x == m * d
  <2>1. s \in Nat /\ s >= p + 1 /\ (q = s \/ q = -s) BY <1>2 DEF Size
  <2>2. g \in Nat /\ g >= 1 BY <1>2
  <2>3. a = g * p
    <3>1. (p * u) * d = (u * d) * p
      <4>1. \A i, j, l \in Int : (i * j) * l = (j * l) * i OBVIOUS
      <4>2. p \in Int /\ u \in Int /\ d \in Int BY <1>2
      <4> HIDE DEF s, g, a, x
      <4> QED BY <4>1, <4>2, Zenon
    <3> QED BY <3>1, Zenon
  <2>4. x = g * q
    <3>1. (u * q) * d = (u * d) * q BY <1>2
    <3> QED BY <3>1, <1>2
  <2> HIDE DEF s, g, a, x
  <2> DEFINE b == g * s
  <2>5. b >= g * (p + 1) /\ g * (p + 1) = g * p + g /\ g * p \in Int /\ b \in Int
    <3>1. g * s >= g * (p + 1) BY <1>2, <2>1, <2>2
    <3>2. g * (p + 1) = g * p + g /\ g * p \in Int /\ g * s \in Int
      <4>1. g \in Int /\ p \in Int /\ s \in Int BY <1>2, <2>1, <2>2
      <4> HIDE DEF b
      <4> QED BY <4>1
    <3> QED BY <3>1, <3>2, Zenon
  <2>6. x = b \/ x = -b
    <3>1. q = -s => g * q = -(g * s) BY <2>1, <2>2
    <3> QED BY <2>1, <2>4, <3>1
  <2> HIDE DEF b
  <2>7. a \in Int /\ b >= a + g
    <3> DEFINE i == g * p
    <3>1. i \in Int /\ b >= i + g /\ a = i
      <4>1. i \in Int /\ a = i /\ b \in Int /\ b >= g * (p + 1) /\ g * (p + 1) = i + g BY <2>3, <2>5
      <4> DEFINE l == g * (p + 1)
      <4>2. b >= l /\ l = i + g BY <4>1
      <4> HIDE DEF l, i
      <4> QED BY <4>1, <4>2, <2>2
    <3> HIDE DEF i
    <3> QED BY <3>1
  <2>8. 2 * Size(x - n) <= g /\ Size(n) < a BY <1>2 DEF x, g, a
  <2> QED BY <2>2, <2>5, <2>6, <2>7, <2>8 DEF Size
<1> QED BY <1>1, <1>2, <1>3

LEMMA SmallRepresentable ==
  ASSUME NEW z \in Int, Size(z) <= TwoTo[Precision] PROVE Representable(z)
<1>1. TwoTo[0] = 1 /\ 0 \in 0 .. Span BY TwoToStart, Widths
<1>2. z = TwoTo[0] * z BY <1>1
<1> QED BY <1>1, <1>2 DEF Representable

(* Rounding to an integer. *)
LEMMA NearestRounds ==
  ASSUME NEW n, Roundable(n) PROVE n \in Int /\ \E k : Rounds(n, 1, Nearest(n), k)
<1>1. n \in Int BY DEF Roundable
<1>2. Fits(n, 1)
  <2>1. TwoTo[Precision + Span] \in Int BY TwoToPositive, Widths
  <2>2. TwoTo[Precision + Span] * 1 = TwoTo[Precision + Span] BY <2>1
  <2> QED BY <1>1, <2>2 DEF Fits, Roundable
<1> QED BY <1>1, <1>2, RoundedRounds DEF Nearest

LEMMA ErrorOf ==
  ASSUME NEW n, Roundable(n)
  PROVE  Nearest(n) \in Int /\ TwoTo[Precision] * Size(Nearest(n) - n) <= Size(n)
<1> DEFINE m == Nearest(n)
<1>1. n \in Int BY NearestRounds
<1>2. PICK k : Rounds(n, 1, m, k) BY NearestRounds
<1> HIDE DEF m
<1>3. m \in Int /\ 2 * Size(m * 1 - n) <= TwoTo[k] * 1 BY <1>2 DEF Rounds
<1>4. m * 1 - n = m - n BY <1>1, <1>3
<1>5. CASE k = 0
  <2>1. Size(m - n) \in Nat /\ 2 * Size(m - n) <= 1 BY <1>1, <1>3, <1>4, <1>5, TwoToStart DEF Size
  <2>2. Size(m - n) = 0 /\ TwoTo[Precision] \in Nat BY <2>1, TwoToPositive, Widths
  <2>3. TwoTo[Precision] * Size(m - n) <= Size(n) BY <2>2, <1>1 DEF Size
  <2> QED BY <2>3, <1>3 DEF m
<1>6. CASE k # 0
  <2>1. TwoTo[Precision] * Size(m * 1 - n) <= Size(n)
    <3> DEFINE d == 1
    <3>1. d \in Nat \ {0} /\ Rounds(n, d, m, k) BY <1>2
    <3> HIDE DEF d
    <3>2. TwoTo[Precision] * Size(m * d - n) <= Size(n) BY <3>1, <1>1, <1>6, ErrorRounds
    <3> QED BY <3>2 DEF d
  <2> QED BY <2>1, <1>3, <1>4 DEF m
<1> QED BY <1>5, <1>6

LEMMA FloatKept ==
  ASSUME NEW n, Roundable(n), NEW z, Representable(z)
  PROVE  (n >= z => Nearest(n) >= z) /\ (n <= z => Nearest(n) <= z)
<1> DEFINE m == Nearest(n) d == 1
<1>1. n \in Int BY NearestRounds
<1>2. PICK k : Rounds(n, d, m, k) BY NearestRounds
<1>3. d \in Nat \ {0} OBVIOUS
<1> HIDE DEF m, d
<1>4. (n >= z * d => m >= z) /\ (n <= z * d => m <= z) BY <1>1, <1>2, <1>3, RoundedKept
<1>5. z \in Int
  <2>1. 0 \in 0 .. Span BY Widths
  <2> QED BY <2>1, RepresentableAt
<1>6. z * d = z BY <1>5 DEF d
<1> QED BY <1>4, <1>6 DEF m

LEMMA RepresentableKept ==
  ASSUME NEW z, Roundable(z), Representable(z) PROVE Nearest(z) = z
<1>1. z \in Int /\ Nearest(z) \in Int BY ErrorOf DEF Roundable
<1>2. Nearest(z) >= z /\ Nearest(z) <= z BY <1>1, FloatKept
<1> QED BY <1>1, <1>2

LEMMA SmallKept ==
  ASSUME NEW z \in Int, Size(z) <= TwoTo[Precision] PROVE Roundable(z) /\ Nearest(z) = z
<1>1. TwoTo[Precision] < TwoTo[Precision + Span] /\ TwoTo[Precision] \in Int /\ TwoTo[Precision + Span] \in Int
  <2> DEFINE i == Precision + Span
  <2>1. i \in 1 .. Reach /\ i - 1 \in Nat /\ i - 1 <= Reach /\ Precision \in Nat /\ Precision <= i - 1
    BY Widths
  <2> HIDE DEF i
  <2>2. TwoTo[i] = 2 * TwoTo[i - 1] BY <2>1, TwoToNext
  <2>3. TwoTo[Precision] <= TwoTo[i - 1] BY <2>1, TwoToGrows
  <2>4. TwoTo[Precision] \in Nat \ {0} /\ TwoTo[i - 1] \in Nat \ {0} BY <2>1, TwoToPositive, Widths
  <2>5. TwoTo[Precision] < TwoTo[i] /\ TwoTo[Precision] \in Int /\ TwoTo[i] \in Int
    BY <2>2, <2>3, <2>4
  <2> QED BY <2>5 DEF i
<1>2. Size(z) \in Int BY DEF Size
<1>3. Roundable(z) BY <1>1, <1>2 DEF Roundable
<1> QED BY <1>3, SmallRepresentable, RepresentableKept

LEMMA NearestRepresentable ==
  ASSUME NEW n, Roundable(n) PROVE Representable(Nearest(n))
<1> DEFINE m == Nearest(n) d == 1
<1>1. n \in Int BY NearestRounds
<1>2. PICK k : Rounds(n, d, m, k) BY NearestRounds
<1>3. d \in Nat \ {0} OBVIOUS
<1> HIDE DEF m, d
<1>4. Representable(m) BY <1>1, <1>2, <1>3, RoundsRepresentable DEF Representable
<1> QED BY <1>4 DEF m

LEMMA NearestBounds ==
  ASSUME NEW n, Roundable(n)
  PROVE  /\ n \in Int /\ Nearest(n) \in Int /\ Size(Nearest(n)) <= 2 * Size(n)
         /\ (n >= 0 => Nearest(n) >= 0) /\ (n <= 0 => Nearest(n) <= 0)
         /\ (Size(n) >= TwoTo[Precision] => Size(Nearest(n)) >= TwoTo[Precision])
<1> DEFINE m == Nearest(n) p == TwoTo[Precision]
<1>1. n \in Int /\ m \in Int /\ p * Size(m - n) <= Size(n) BY ErrorOf DEF Roundable
<1>2. p \in Nat /\ p >= 1 BY TwoToPositive, Widths
<1>3. (n >= 0 => m >= 0) /\ (n <= 0 => m <= 0)
  <2>1. Representable(0)
    <3>1. 0 \in Int /\ Size(0) <= p BY <1>2 DEF Size
    <3> QED BY <3>1, SmallRepresentable
  <2> QED BY <2>1, FloatKept
<1>4. (n >= p => m >= p) /\ (n <= -p => m <= -p)
  <2>1. p \in Int /\ Size(p) <= p /\ -p \in Int /\ Size(-p) <= p BY <1>2 DEF Size
  <2>2. Representable(p) /\ Representable(-p)
    <3>1. Representable(p) BY <2>1, SmallRepresentable
    <3> DEFINE z == -p
    <3>2. z \in Int /\ Size(z) <= p BY <2>1
    <3> HIDE DEF z
    <3>3. Representable(z) BY <3>2, SmallRepresentable
    <3> QED BY <3>1, <3>3 DEF z
  <2>3. n >= p => m >= p BY <2>2, FloatKept
  <2> DEFINE z == -p
  <2>4. Representable(z) BY <2>2
  <2> HIDE DEF z
  <2>5. n <= z => m <= z BY <2>4, FloatKept
  <2> QED BY <2>3, <2>5 DEF z
<1> HIDE DEF m, p
<1>5. Size(m) <= 2 * Size(n)
  <2> DEFINE e == Size(m - n)
  <2>1. e \in Nat /\ p * e <= Size(n) /\ Size(m) <= Size(n) + e /\ Size(n) \in Int /\ Size(m) \in Int
    BY <1>1 DEF Size
  <2> HIDE DEF e
  <2>2. e <= p * e /\ p * e \in Int BY <1>2, <2>1
  <2> QED BY <2>1, <2>2
<1>6. Size(n) >= p => Size(m) >= p BY <1>1, <1>2, <1>3, <1>4 DEF Size
<1> QED BY <1>1, <1>3, <1>5, <1>6 DEF m, p
----
(* How far sums and products of integers go. *)

LEMMA RangeIs ==
  ASSUME NEW m, m = TwoTo[IntBits - 1]
  PROVE  /\ m \in Nat /\ m >= 8 /\ 2 * TwoTo[Precision] <= m /\ TwoTo[2 * IntBits] = 4 * (m * m)
         /\ \A z \in Int : Size(z) <= 8 * (m * m) => Roundable(z)
         /\ \A z \in Int : Size(z) <= 32 * m => Roundable(z)
<1>1. TwoTo[Precision] \in Nat /\ TwoTo[Precision] >= 4 BY PowersAre, Widths DEF Powers
<1>3. TwoTo[(IntBits - 1) + (IntBits - 1)] = m * m BY TwoToAdds, Widths
<1>4. TwoTo[2 * IntBits] = 4 * (m * m)
  <2> DEFINE i == 2 * IntBits
  <2>1. i \in 1 .. Reach /\ i - 1 \in 1 .. Reach /\ (i - 1) - 1 = (IntBits - 1) + (IntBits - 1)
    BY Widths
  <2>2. TwoTo[i - 1] = 2 * TwoTo[(i - 1) - 1]
    <3> DEFINE j == i - 1
    <3>1. j \in 1 .. Reach BY <2>1
    <3> HIDE DEF j
    <3>2. TwoTo[j] = 2 * TwoTo[j - 1] BY <3>1, TwoToNext
    <3> QED BY <3>2 DEF j
  <2> HIDE DEF i
  <2>3. TwoTo[i] = 2 * TwoTo[i - 1] BY <2>1, TwoToNext
  <2>4. TwoTo[i] = 2 * (2 * (m * m)) BY <2>1, <2>2, <2>3, <1>3
  <2>5. m * m \in Int BY <1>1, TwoToPositive, Widths
  <2> QED BY <2>4, <2>5 DEF i
<1>5. m \in Nat /\ m >= 8 /\ 2 * TwoTo[Precision] <= m
  <2> DEFINE i == IntBits - 1
  <2>1. i \in 1 .. Reach /\ i - 1 \in Nat /\ Precision <= i - 1 /\ i - 1 <= Reach
    BY Widths
  <2> HIDE DEF i
  <2>2. TwoTo[i] = 2 * TwoTo[i - 1] /\ TwoTo[Precision] <= TwoTo[i - 1] /\ TwoTo[i - 1] \in Nat
    BY <2>1, TwoToNext, TwoToGrows, TwoToPositive, Widths
  <2>3. TwoTo[i] \in Nat /\ TwoTo[i] >= 8 /\ 2 * TwoTo[Precision] <= TwoTo[i] BY <2>2, <1>1
  <2> QED BY <2>3 DEF i
<1>6. TwoTo[Precision + 2 * IntBits] = TwoTo[Precision] * (4 * (m * m))
  <2>1. 2 * IntBits \in Nat /\ Precision + 2 * IntBits <= Reach BY Widths
  <2> QED BY <2>1, <1>4, TwoToAdds, Widths
<1> DEFINE a == m * m w == TwoTo[Precision + Span] x == TwoTo[Precision + 2 * IntBits] p == TwoTo[Precision]
<1>7. a \in Nat /\ a >= 8 * m BY <1>5
<1>8. x = p * (4 * a) /\ p \in Nat /\ p >= 4 /\ x <= w /\ w \in Int
  <2>1. /\ Precision + 2 * IntBits \in Nat /\ Precision + Span \in Nat /\ Precision + 2 * IntBits <= Precision + Span
        /\ Precision + Span <= Reach
    BY Widths
  <2>2. x <= w /\ w \in Int BY <2>1, TwoToGrows, TwoToPositive
  <2> QED BY <1>1, <1>6, <2>2
<1> HIDE DEF a, w, x, p
<1>9. w >= 16 * a
  <2>1. p * (4 * a) >= 4 * (4 * a) BY <1>7, <1>8
  <2> QED BY <2>1, <1>7, <1>8
<1>10. \A z \in Int : Size(z) <= 8 * a => Roundable(z)
  <2> SUFFICES ASSUME NEW z \in Int, Size(z) <= 8 * a PROVE Roundable(z) OBVIOUS
  <2>1. Size(z) \in Int BY DEF Size
  <2>2. Size(z) < w BY <2>1, <1>5, <1>7, <1>8, <1>9
  <2> QED BY <2>2 DEF Roundable, w
<1>11. \A z \in Int : Size(z) <= 32 * m => Roundable(z)
  <2> SUFFICES ASSUME NEW z \in Int, Size(z) <= 32 * m PROVE Roundable(z) OBVIOUS
  <2>1. Size(z) \in Int BY DEF Size
  <2>2. Size(z) <= 8 * a BY <2>1, <1>5, <1>7
  <2> QED BY <2>2, <1>10
<1> QED BY <1>4, <1>5, <1>10, <1>11 DEF a
(* QUOTIENT, REMAINDER and MODULO. *)

LEMMA IntSteps ==
  ASSUME NEW x, NEW y
  PROVE  /\ IntStep("+", x, y) = Plus(x, y)
         /\ IntStep("-", x, y) = Plus(x, Wrapped(-y))
         /\ IntStep("*", x, y) = Times(x, y)
         /\ IntStep("/", x, y) = Over(x, y)
         /\ IntStep("%", x, y) = Remainder(x, y)
         /\ IntStep("m", x, y) = Modulo(x, y)
BY DEF IntStep

LEMMA IntNodeIs ==
  ASSUME NEW n PROVE IntNode(n) # Bad /\ IntNode(n).int /\ IntNode(n).n = n /\ IntNode(n).d = 1
BY DEF IntNode, Bad

LEMMA Binaries ==
  ASSUME NEW x, NEW y
  PROVE  /\ Binary("+", IntNode(x), IntNode(y)) = Plus(x, y)
         /\ Binary("-", IntNode(x), IntNode(y)) = Plus(x, Wrapped(-y))
         /\ Binary("*", IntNode(x), IntNode(y)) = Times(x, y)
         /\ Binary("/", IntNode(x), IntNode(y)) = Over(x, y)
         /\ Binary("%", IntNode(x), IntNode(y)) = Remainder(x, y)
         /\ Binary("m", IntNode(x), IntNode(y)) = Modulo(x, y)
<1>1. ASSUME NEW op PROVE Binary(op, IntNode(x), IntNode(y)) = IntStep(op, x, y)
  BY IntNodeIs, Zenon DEF Binary
<1> QED BY <1>1, IntSteps, Zenon

\* a is a multiple of d, and r what is left of a.
LEMMA LeavesMultiple ==
  ASSUME NEW a \in Int, NEW d \in Int, d # 0, NEW q \in Int, NEW r \in Int, a = d * q + r
  PROVE  (a - r) % Size(d) = 0
<1> DEFINE s == Size(d) c == IF d < 0 THEN -q ELSE q
<1>1. s \in Nat \ {0} /\ c \in Int /\ ((s = d /\ c = q) \/ (s = -d /\ c = -q))
  <2>1. CASE d < 0 BY <2>1 DEF Size
  <2>2. CASE ~(d < 0) BY <2>2 DEF Size
  <2> QED BY <2>1, <2>2
<1> HIDE DEF s, c
<1>2. a - r = s * c
  <2>1. a - r = d * q OBVIOUS
  <2>2. (-d) * (-q) = d * q OBVIOUS
  <2> QED BY <2>1, <2>2, <1>1
<1>3. a - r \in Int OBVIOUS
<1>4. (a - r) % s = 0
  <2> DEFINE n == a - r
  <2>1. n \in Int /\ n = s * c BY <1>2, <1>3
  <2> HIDE DEF n
  <2>2. n % s = 0 BY <2>1, <1>1, NoRemainder
  <2> QED BY <2>2 DEF n
<1> QED BY <1>4 DEF s

LEMMA RemZero ==
  ASSUME NEW a \in Int, NEW d \in Int, d # 0 PROVE Rem(a, d) = 0 <=> a % Size(d) = 0
<1> DEFINE q == Quot(a, d) r == Rem(a, d) s == Size(d)
<1>1. Divided(a, d, q, r) BY QuotRem
<1>2. s \in Nat \ {0} BY DEF Size
<1> HIDE DEF q, r
<1>3. q \in Int /\ r \in Int /\ a = d * q + r /\ Size(r) < s /\ (r < 0 => a < 0) /\ (r > 0 => a > 0)
  BY <1>1 DEF Divided
<1>4. r = 0 => a % s = 0
  <2> SUFFICES ASSUME r = 0 PROVE a % s = 0 OBVIOUS
  <2>1. (a - r) % s = 0 BY <1>3, LeavesMultiple
  <2>2. a - r = a BY <1>3
  <2> QED BY <2>1, <2>2
<1>5. ASSUME a % s = 0 PROVE r = 0
  <2> HIDE DEF s
  <2>1. PICK k \in Int : a = s * k BY <1>2, <1>5, NoRemainder
  <2>2. (a - r) % s = 0 BY <1>3, LeavesMultiple DEF s
  <2> DEFINE n == a - r
  <2>3. n \in Int /\ n % s = 0 BY <1>3, <2>2
  <2> HIDE DEF n
  <2>4. PICK j \in Int : n = s * j BY <2>3, <1>2, NoRemainder
  <2>5. r = s * k - s * j BY <2>1, <2>4, <1>3 DEF n
  <2>6. r = s * (k - j) BY <2>5, <1>2
  <2>7. Size(r) < s /\ r \in Int BY <1>3
  <2>8. k - j = 0
    <3>1. k - j >= 1 => s * (k - j) >= s BY <1>2
    <3>2. k - j <= -1 => s * (k - j) <= -s BY <1>2
    <3> DEFINE g == k - j
    <3>3. g \in Int /\ (g >= 1 => r >= s) /\ (g <= -1 => r <= -s) BY <3>1, <3>2, <2>6
    <3> HIDE DEF g
    <3>4. g = 0 BY <3>3, <2>7, <1>2 DEF Size
    <3> QED BY <3>4 DEF g
  <2> QED BY <2>6, <2>8, <1>2
<1> QED BY <1>4, <1>5 DEF r, s

----
(* SUM, DIFFERENCE and PRODUCT. *)

LEMMA FloatNodeOne ==
  ASSUME NEW n \in Int
  PROVE  FloatNode(n, 1) = [int |-> FALSE, n |-> Nearest(n), d |-> 1] /\ Quot(n, 1) = n
<1> DEFINE q == Quot(n, 1) r == Rem(n, 1)
<1>1. Divided(n, 1, q, r) BY QuotRem
<1> HIDE DEF q, r
<1>2. q \in Int /\ r \in Int /\ n = 1 * q + r /\ Size(r) < Size(1) BY <1>1 DEF Divided
<1>3. r = 0 /\ q = n BY <1>2 DEF Size
<1> QED BY <1>3 DEF FloatNode, q, r

LEMMA PlusIs ==
  ASSUME NEW x \in Ints, NEW y \in Ints
  PROVE  \/ x + y \in Ints /\ Plus(x, y) = IntNode(x + y)
         \/ /\ x + y \notin Ints /\ Plus(x, y) = FloatNode(Nearest(x) + Nearest(y), 1)
            /\ Size(x + y) = Size(x) + Size(y)
<1> DEFINE m == TwoTo[IntBits - 1] v == Wrapped(x + y)
<1>1. m \in Nat \ {0} /\ \A n : n \in Ints <=> n \in Int /\ -m <= n /\ n < m BY IntsIs
<1>2. v = IF x + y < -m THEN x + y + 2 * m ELSE IF x + y >= m THEN x + y - 2 * m ELSE x + y
  <2> DEFINE n == x + y
  <2>1. n \in Int /\ -3 * m <= n /\ n < 3 * m BY <1>1
  <2> HIDE DEF n
  <2>2. Wrapped(n) = IF n < -m THEN n + 2 * m ELSE IF n >= m THEN n - 2 * m ELSE n
    BY <2>1, WrappedIs
  <2>3. v = IF n < -m THEN n + 2 * m ELSE IF n >= m THEN n - 2 * m ELSE n BY <2>2 DEF n
  <2> QED BY <2>1, <2>3, <1>1 DEF n
<1>3. Plus(x, y) = IF (y < 0 /\ v >= x) \/ (y >= 0 /\ v < x) THEN FloatNode(Nearest(x) + Nearest(y), 1) ELSE IntNode(v)
  BY DEF Plus
<1> HIDE DEF v, m
<1>4. CASE x + y \in Ints
  <2>1. v = x + y /\ ~((y < 0 /\ v >= x) \/ (y >= 0 /\ v < x)) BY <1>1, <1>2, <1>4
  <2> QED BY <2>1, <1>3, <1>4
<1>5. CASE x + y \notin Ints
  <2>1. (y < 0 /\ v >= x) \/ (y >= 0 /\ v < x) BY <1>1, <1>2, <1>5
  <2>2. Size(x + y) = Size(x) + Size(y) BY <1>1, <1>5 DEF Size
  <2> QED BY <2>1, <2>2, <1>3, <1>5
<1> QED BY <1>4, <1>5

(* The significant bits that a bound of four errors leaves. *)
LEMMA Quarter ==
  ASSUME NEW e \in Nat, NEW t \in Nat, TwoTo[Precision] * e <= 4 * t
  PROVE  e * TwoTo[Precision - 2] <= t
<1> DEFINE p == TwoTo[Precision] f == TwoTo[Precision - 2]
<1>4. p = 4 * f /\ f \in Nat
  <2>1. 0 \in 0 .. Span BY Widths
  <2> QED BY <2>1, PowersAre
<1>5. p * e <= 4 * t OBVIOUS
<1> HIDE DEF p, f
<1>6. p * e = 4 * (e * f) /\ e * f \in Int BY <1>4
<1>7. e * f <= t BY <1>5, <1>6
<1> QED BY <1>7 DEF f

\* An error of e beside s, one part in p.
Part(p, e, s) == p \in Nat /\ e \in Nat /\ s \in Nat /\ p >= 4 /\ p * e \in Nat /\ 4 * e <= p * e /\ p * e <= s

LEMMA ErrorPart ==
  ASSUME NEW n, Roundable(n)
  PROVE  Part(TwoTo[Precision], Size(Nearest(n) - n), Size(n)) /\ n \in Int /\ Nearest(n) \in Int
<1> DEFINE p == TwoTo[Precision] m == Nearest(n) e == Size(m - n) s == Size(n)
<1>1. n \in Int /\ m \in Int /\ p * e <= s BY ErrorOf DEF Roundable
<1>2. e \in Nat /\ s \in Nat BY <1>1 DEF Size
<1>3. p \in Nat /\ p >= 4 BY PowersAre, Widths DEF Powers
<1> HIDE DEF p, m, e, s
<1>4. p * e \in Nat /\ 4 * e <= p * e BY <1>2, <1>3
<1>5. Part(p, e, s) BY <1>1, <1>2, <1>3, <1>4 DEF Part
<1> QED BY <1>1, <1>5 DEF p, m, e, s

(* What rounding three times does to a sum. *)
LEMMA SumError ==
  ASSUME NEW x, NEW y, NEW s, NEW f, Roundable(x), Roundable(y), s = Nearest(x) + Nearest(y), Roundable(s),
         f = Nearest(s), NEW t, t = Size(x) + Size(y)
  PROVE  /\ t \in Nat /\ f \in Int /\ s \in Int /\ x \in Int /\ y \in Int
         /\ TwoTo[Precision] * Size(f - (x + y)) <= 4 * t
         /\ Size(s) <= 2 * t
<1> DEFINE p == TwoTo[Precision] a == Nearest(x) b == Nearest(y)
           ea == Size(a - x) eb == Size(b - y) es == Size(f - s) e == Size(f - (x + y))
<1>1. Part(p, ea, Size(x)) /\ Part(p, eb, Size(y)) /\ Part(p, es, Size(s)) /\ x \in Int /\ y \in Int /\ a \in Int /\ b \in Int /\ s \in Int /\ f \in Int
  BY ErrorPart
<1>2. /\ Size(x) \in Nat /\ Size(y) \in Nat /\ Size(s) \in Nat /\ e \in Nat
      /\ e <= ea + eb + es /\ Size(s) <= t + ea + eb
  <2> HIDE DEF a, b
  <2>1. s = a + b BY DEF a, b
  <2> QED BY <1>1, <2>1 DEF Size
<1> HIDE DEF p, a, b, ea, eb, es, e
<1>3. p * e <= p * ea + p * eb + p * es
  <2>1. p \in Nat /\ ea \in Nat /\ eb \in Nat /\ es \in Nat BY <1>1 DEF Part
  <2>2. p * e <= p * (ea + eb + es) BY <1>2, <2>1
  <2>3. p * (ea + eb + es) = p * ea + p * eb + p * es BY <2>1
  <2> QED BY <2>2, <2>3
<1> DEFINE pe == p * e pa == p * ea pb == p * eb ps == p * es
<1>4. pe \in Int /\ pe <= pa + pb + ps BY <1>1, <1>2, <1>3 DEF Part
<1>5. /\ pa \in Nat /\ pb \in Nat /\ ps \in Nat /\ 4 * ea <= pa /\ 4 * eb <= pb
      /\ pa <= Size(x) /\ pb <= Size(y) /\ ps <= Size(s) /\ ea \in Nat /\ eb \in Nat
  BY <1>1 DEF Part
<1> HIDE DEF pe, pa, pb, ps
<1>6. t \in Nat /\ Size(s) <= 2 * t /\ pe <= 4 * t BY <1>2, <1>4, <1>5
<1> QED BY <1>1, <1>6 DEF pe, p, e

LEMMA IntRange ==
  ASSUME NEW x \in Ints
  PROVE  x \in Int /\ Size(x) \in Nat /\ Size(x) <= TwoTo[IntBits - 1] /\ Roundable(x)
<1> DEFINE m == TwoTo[IntBits - 1]
<1>1. x \in Int /\ -m <= x /\ x < m /\ m \in Nat BY IntsIs
<1> HIDE DEF m
<1>2. Size(x) \in Nat /\ Size(x) <= m /\ Size(x) <= 32 * m BY <1>1 DEF Size
<1>3. Roundable(x) BY <1>1, <1>2, RangeIs DEF m
<1> QED BY <1>1, <1>2, <1>3 DEF m

LEMMA SumRange ==
  ASSUME NEW x \in Ints, NEW y \in Ints, NEW s, s = Nearest(x) + Nearest(y)
  PROVE  Roundable(x) /\ Roundable(y) /\ Roundable(s) /\ s \in Int /\ Size(s) <= 4 * TwoTo[IntBits - 1]
<1> DEFINE m == TwoTo[IntBits - 1] a == Nearest(x) b == Nearest(y)
<1>1. Roundable(x) /\ Roundable(y) /\ Size(x) <= m /\ Size(y) <= m /\ Size(x) \in Nat /\ Size(y) \in Nat
  BY IntRange
<1>2. a \in Int /\ b \in Int /\ Size(a) <= 2 * Size(x) /\ Size(b) <= 2 * Size(y)
  BY <1>1, NearestBounds
<1>3. m \in Nat /\ \A z \in Int : Size(z) <= 32 * m => Roundable(z) BY RangeIs
<1>4. s = a + b OBVIOUS
<1> HIDE DEF m, a, b
<1>5. Size(s) <= 4 * m /\ s \in Int /\ Size(s) <= 32 * m BY <1>1, <1>2, <1>3, <1>4 DEF Size
<1> QED BY <1>1, <1>3, <1>5 DEF m

LEMMA ExactInt ==
  ASSUME NEW n PROVE ExactOrNear(IntNode(n), n) /\ IntNode(n).int
BY IntNodeIs DEF ExactOrNear

LEMMA ExactFloat ==
  ASSUME NEW n \in Int, NEW f \in Int, TwoTo[Precision] * Size(f - n) <= 4 * Size(n)
  PROVE  LET x == [int |-> FALSE, n |-> f, d |-> 1] IN ExactOrNear(x, n) /\ ~x.int
<1> DEFINE x == [int |-> FALSE, n |-> f, d |-> 1] e == Size(f - n) t == Size(n)
<1>1. e \in Nat /\ t \in Nat BY DEF Size
<1>2. e * TwoTo[Precision - 2] <= t
  <2>1. TwoTo[Precision] * e <= 4 * t OBVIOUS
  <2> HIDE DEF e, t
  <2> QED BY <1>1, <2>1, Quarter
<1>3. x.n - n * x.d = f - n /\ Size(n) * x.d = Size(n) BY <1>1
<1>4. Close(x, n) BY <1>2, <1>3 DEF Close
<1> QED BY <1>4 DEF ExactOrNear

LEMMA PlusExact ==
  ASSUME NEW x \in Ints, NEW y \in Ints
  PROVE  ExactOrNear(Plus(x, y), x + y) /\ (Plus(x, y).int <=> x + y \in Ints)
<1>1. CASE x + y \in Ints
  <2>1. Plus(x, y) = IntNode(x + y) BY <1>1, PlusIs
  <2> QED BY <2>1, <1>1, ExactInt
<1>2. CASE x + y \notin Ints
  <2> DEFINE s == Nearest(x) + Nearest(y) f == Nearest(s) n == x + y
  <2>1. Plus(x, y) = FloatNode(s, 1) /\ Size(x + y) = Size(x) + Size(y) BY <1>2, PlusIs
  <2>2. Roundable(x) /\ Roundable(y) /\ Roundable(s) /\ s \in Int BY SumRange
  <2>3. f \in Int /\ x \in Int /\ y \in Int /\ TwoTo[Precision] * Size(f - (x + y)) <= 4 * (Size(x) + Size(y))
    <3> HIDE DEF s, f
    <3>1. s = Nearest(x) + Nearest(y) /\ f = Nearest(s) BY Zenon DEF s, f
    <3> QED BY <2>2, <3>1, SumError
  <2>4. FloatNode(s, 1) = [int |-> FALSE, n |-> f, d |-> 1] BY <2>2, FloatNodeOne
  <2>5. n \in Int /\ TwoTo[Precision] * Size(f - n) <= 4 * Size(n) BY <2>1, <2>3
  <2> HIDE DEF s, f, n
  <2>6. LET z == [int |-> FALSE, n |-> f, d |-> 1] IN ExactOrNear(z, n) /\ ~z.int
    BY <2>3, <2>5, ExactFloat
  <2> QED BY <2>1, <2>4, <2>6, <1>2 DEF n
<1> QED BY <1>1, <1>2

LEMMA SizeOfProduct ==
  ASSUME NEW x \in Int, NEW y \in Int PROVE Size(x * y) = Size(x) * Size(y)
<1> DEFINE u == Size(x) v == Size(y) n == u * v
<1>1. u \in Nat /\ v \in Nat /\ (x = u \/ x = -u) /\ (y = v \/ y = -v) BY DEF Size
<1> HIDE DEF u, v
<1>2. n \in Nat BY <1>1
<1>3. x * y = n \/ x * y = -n
  <2>1. CASE x = u /\ y = v BY <2>1
  <2>2. CASE x = -u /\ y = v BY <2>2, <1>1
  <2>3. CASE x = u /\ y = -v BY <2>3, <1>1
  <2>4. CASE x = -u /\ y = -v BY <2>4, <1>1
  <2> QED BY <1>1, <2>1, <2>2, <2>3, <2>4
<1> HIDE DEF n
<1>4. Size(x * y) = n BY <1>2, <1>3 DEF Size
<1> QED BY <1>4 DEF n, u, v

(* What rounding three times does to a product. *)
LEMMA ProductError ==
  ASSUME NEW x, NEW y, NEW s, NEW f, Roundable(x), Roundable(y), s = Nearest(x) * Nearest(y), Roundable(s),
         f = Nearest(s)
  PROVE  /\ f \in Int /\ x \in Int /\ y \in Int
         /\ TwoTo[Precision] * Size(f - x * y) <= 4 * Size(x * y)
<1> DEFINE p == TwoTo[Precision] a == Nearest(x) b == Nearest(y)
           ea == Size(a - x) eb == Size(b - y) es == Size(f - s) e == Size(f - x * y)
           u == Size(x) v == Size(y)
<1>1. Part(p, ea, u) /\ Part(p, eb, v) /\ Part(p, es, Size(s)) /\ x \in Int /\ y \in Int /\ a \in Int /\ b \in Int /\ s \in Int /\ f \in Int
  BY ErrorPart
<1>2. u \in Nat /\ v \in Nat /\ ea \in Nat /\ eb \in Nat /\ es \in Nat /\ p \in Nat /\ p >= 4
  BY <1>1 DEF Part
<1> DEFINE n == u * v ax == ea * v bx == u * eb ab == ea * eb
<1>3. n \in Nat /\ ax \in Nat /\ bx \in Nat /\ ab \in Nat
  <2> HIDE DEF u, v, ea, eb
  <2> QED BY <1>2
<1>4. Size(x * y) = n BY <1>1, SizeOfProduct
<1>5. Size(s - x * y) <= ax + bx + ab /\ s - x * y \in Int
  <2> DEFINE da == a - x db == b - y
  <2>1. da \in Int /\ db \in Int BY <1>1
  <2>2. s - x * y = da * y + x * db + da * db
    <3>1. a = x + da /\ b = y + db /\ s = a * b BY <1>1
    <3> HIDE DEF a, b, da, db
    <3>2. s = (x + da) * (y + db) BY <3>1
    <3> QED BY <3>2, <2>1, <1>1
  <2>3. \A i, j \in Int : i * j <= Size(i) * Size(j) /\ -(i * j) <= Size(i) * Size(j) /\ Size(i) * Size(j) \in Int /\ i * j \in Int
    <3> SUFFICES ASSUME NEW i \in Int, NEW j \in Int
                 PROVE i * j <= Size(i) * Size(j) /\ -(i * j) <= Size(i) * Size(j) /\ Size(i) * Size(j) \in Int /\ i * j \in Int
      OBVIOUS
    <3> DEFINE g == i * j h == Size(i) * Size(j)
    <3>1. Size(g) = h BY SizeOfProduct
    <3>2. g \in Int OBVIOUS
    <3> HIDE DEF g, h
    <3>3. g <= h /\ -g <= h /\ h \in Int BY <3>1, <3>2 DEF Size
    <3> QED BY <3>2, <3>3 DEF g, h
  <2> DEFINE g1 == da * y g2 == x * db g3 == da * db
  <2>4. /\ g1 <= ax /\ -g1 <= ax /\ g2 <= bx /\ -g2 <= bx /\ g3 <= ab /\ -g3 <= ab
        /\ g1 \in Int /\ g2 \in Int /\ g3 \in Int
    <3> HIDE DEF da, db
    <3>1. ea = Size(da) /\ eb = Size(db) BY DEF da, db
    <3> QED BY <3>1, <2>1, <2>3, <1>1
  <2> DEFINE z == s - x * y
  <2>5. z = g1 + g2 + g3 BY <2>2
  <2> HIDE DEF z, g1, g2, g3, ax, bx, ab
  <2>6. Size(z) <= ax + bx + ab /\ z \in Int BY <2>4, <2>5, <1>3 DEF Size
  <2> QED BY <2>6 DEF z
<1>6. p * ax <= n /\ p * bx <= n /\ p * ab <= ax /\ 4 * ax <= p * ax /\ 4 * bx <= p * bx
  <2>1. p * ea <= u /\ p * eb <= v BY <1>1 DEF Part
  <2> HIDE DEF u, v, ea, eb, p
  <2>2. (p * ea) * v <= u * v BY <2>1, <1>2
  <2>3. u * (p * eb) <= u * v BY <2>1, <1>2
  <2>4. ea * (p * eb) <= ea * v BY <2>1, <1>2
  <2>5. (p * ea) * v = p * (ea * v) /\ u * (p * eb) = p * (u * eb) /\ ea * (p * eb) = p * (ea * eb)
    BY <1>2
  <2>6. p * ax <= n /\ p * bx <= n /\ p * ab <= ax BY <2>2, <2>3, <2>4, <2>5, Zenon
  <2> HIDE DEF n, ax, bx, ab
  <2>7. 4 * ax <= p * ax /\ 4 * bx <= p * bx BY <1>2, <1>3
  <2> QED BY <2>6, <2>7
<1>7. 4 * ab <= p * ab
  <2> HIDE DEF ab, p
  <2> QED BY <1>2, <1>3
<1>8. e <= es + ax + bx + ab /\ e \in Nat /\ Size(s) <= n + ax + bx + ab /\ Size(s) \in Nat
  <2> DEFINE xy == x * y
  <2>1. xy \in Int /\ Size(xy) = n /\ Size(s - xy) <= ax + bx + ab BY <1>1, <1>4, <1>5
  <2> HIDE DEF xy, n, ax, bx, ab
  <2>2. Size(f - xy) <= es + ax + bx + ab /\ Size(f - xy) \in Nat /\ Size(s) <= n + ax + bx + ab /\ Size(s) \in Nat
    BY <1>1, <1>3, <2>1 DEF Size
  <2> QED BY <2>2 DEF xy
<1>9. p * es <= Size(s) /\ p * es \in Nat BY <1>1 DEF Part
<1> HIDE DEF p, a, b, ea, eb, es, e, u, v, n, ax, bx, ab
<1>10. p * e <= p * es + p * ax + p * bx + p * ab
  <2>1. p * e <= p * (es + ax + bx + ab) BY <1>2, <1>3, <1>8
  <2>2. p * (es + ax + bx + ab) = p * es + p * ax + p * bx + p * ab BY <1>2, <1>3
  <2> QED BY <2>1, <2>2
<1> DEFINE pe == p * e ps == p * es pa == p * ax pb == p * bx pk == p * ab
<1>11. pe \in Nat /\ ps \in Nat /\ pa \in Nat /\ pb \in Nat /\ pk \in Nat BY <1>2, <1>3, <1>8
<1>12. /\ pe <= ps + pa + pb + pk /\ pa <= n /\ pb <= n /\ pk <= ax /\ 4 * ax <= pa /\ 4 * bx <= pb /\ 4 * ab <= pk
       /\ ps <= Size(s) /\ Size(s) <= n + ax + bx + ab
  BY <1>6, <1>7, <1>8, <1>9, <1>10
<1> HIDE DEF pe, ps, pa, pb, pk
<1>13. pe <= 4 * n BY <1>3, <1>8, <1>11, <1>12
<1> QED BY <1>1, <1>4, <1>13 DEF pe, p, e

LEMMA ProductRange ==
  ASSUME NEW x \in Ints, NEW y \in Ints, NEW s, s = Nearest(x) * Nearest(y)
  PROVE  Roundable(x) /\ Roundable(y) /\ Roundable(s) /\ s \in Int
<1> DEFINE m == TwoTo[IntBits - 1] a == Nearest(x) b == Nearest(y) u == Size(a) v == Size(b)
<1>1. Roundable(x) /\ Roundable(y) /\ Size(x) <= m /\ Size(y) <= m /\ Size(x) \in Nat /\ Size(y) \in Nat
  BY IntRange
<1>2. a \in Int /\ b \in Int /\ u <= 2 * Size(x) /\ v <= 2 * Size(y) BY <1>1, NearestBounds
<1>3. m \in Nat /\ \A z \in Int : Size(z) <= 8 * (m * m) => Roundable(z) BY RangeIs
<1>4. s = a * b OBVIOUS
<1> HIDE DEF m, a, b
<1>5. Size(s) = u * v /\ s \in Int
  <2>1. Size(a * b) = Size(a) * Size(b) BY <1>2, SizeOfProduct
  <2>2. a * b \in Int BY <1>2
  <2> QED BY <2>1, <2>2, <1>4, Zenon
<1>6. u \in Nat /\ v \in Nat BY <1>2 DEF Size
<1> HIDE DEF u, v
<1>7. u <= 2 * m /\ v <= 2 * m BY <1>1, <1>2, <1>3, <1>6
<1>8. u * v <= 4 * (m * m)
  <2>1. u * v <= (2 * m) * v BY <1>3, <1>6, <1>7
  <2>2. (2 * m) * v <= (2 * m) * (2 * m) BY <1>3, <1>6, <1>7
  <2>3. (2 * m) * (2 * m) = 4 * (m * m) /\ u * v \in Int /\ (2 * m) * v \in Int /\ m * m \in Int
    BY <1>3, <1>6
  <2> DEFINE g == u * v h == (2 * m) * v k == (2 * m) * (2 * m) j == m * m
  <2>4. g <= h /\ h <= k /\ k = 4 * j /\ g \in Int /\ h \in Int /\ j \in Int BY <2>1, <2>2, <2>3
  <2> HIDE DEF g, h, k, j
  <2>5. g <= 4 * j BY <2>4
  <2> QED BY <2>5 DEF g, j
<1>9. Size(s) <= 8 * (m * m)
  <2> DEFINE g == u * v j == m * m
  <2>1. g \in Int /\ j \in Nat /\ g <= 4 * j /\ Size(s) = g BY <1>3, <1>5, <1>6, <1>8
  <2> HIDE DEF g, j
  <2>2. Size(s) <= 8 * j BY <2>1
  <2> QED BY <2>2 DEF j
<1> QED BY <1>1, <1>3, <1>5, <1>9

\* A number that is not a float rounds to one that is not small.
LEMMA SmallOrKept ==
  ASSUME NEW x, Roundable(x) PROVE Nearest(x) = x \/ Size(Nearest(x)) >= TwoTo[Precision]
<1>1. x \in Int /\ TwoTo[Precision] \in Int BY TwoToPositive, Widths DEF Roundable
<1>2. Size(x) <= TwoTo[Precision] \/ Size(x) >= TwoTo[Precision] BY <1>1 DEF Size
<1> QED BY <1>1, <1>2, SmallKept, NearestBounds

LEMMA ProductSmall ==
  ASSUME NEW x \in Ints, NEW y \in Ints, NEW s, s = Nearest(x) * Nearest(y), Size(Nearest(s)) <= MAXLOGOINT
  PROVE  Nearest(s) = x * y
<1> DEFINE p == TwoTo[Precision] a == Nearest(x) b == Nearest(y) u == Size(a) v == Size(b)
<1>1. Roundable(x) /\ Roundable(y) /\ Roundable(s) /\ s \in Int BY ProductRange
<1>2. MAXLOGOINT \in Nat /\ MAXLOGOINT < p /\ p \in Nat BY TwoToPositive, Widths
<1>3. x \in Int /\ y \in Int /\ a \in Int /\ b \in Int /\ u \in Nat /\ v \in Nat /\ s = a * b /\ Size(Nearest(s)) \in Nat
  BY <1>1, NearestBounds DEF Size
<1>4. Nearest(s) = s BY <1>1, <1>2, <1>3, SmallOrKept
<1>5. a = x \/ u >= p BY <1>1, SmallOrKept
<1>6. b = y \/ v >= p BY <1>1, SmallOrKept
<1>7. a = 0 => x = 0
  <2> SUFFICES ASSUME a = 0 PROVE x = 0 OBVIOUS
  <2>1. u = 0 BY DEF Size
  <2> HIDE DEF a, u
  <2>2. ~(u >= p) BY <2>1, <1>2, TwoToPositive, Widths DEF p
  <2> QED BY <2>2, <1>5
<1>8. b = 0 => y = 0
  <2> SUFFICES ASSUME b = 0 PROVE y = 0 OBVIOUS
  <2>1. v = 0 BY DEF Size
  <2> HIDE DEF b, v
  <2>2. ~(v >= p) BY <2>1, <1>2, TwoToPositive, Widths DEF p
  <2> QED BY <2>2, <1>6
<1>9. u * v < p
  <2>1. Size(s) = u * v BY <1>3, SizeOfProduct
  <2>2. Size(s) <= MAXLOGOINT /\ Size(s) \in Nat BY <1>3, <1>4
  <2> HIDE DEF p, u, v
  <2> QED BY <2>1, <2>2, <1>2
<1>10. (a = 0 <=> u = 0) /\ (b = 0 <=> v = 0)
  <2> HIDE DEF a, b
  <2> QED BY <1>3 DEF Size
<1> HIDE DEF p, a, b, u, v
<1>11. CASE a = 0
  <2>1. s = 0 /\ x * y = 0 BY <1>3, <1>7, <1>11
  <2> QED BY <2>1, <1>4
<1>12. CASE b = 0
  <2>1. s = 0 /\ x * y = 0 BY <1>3, <1>8, <1>12
  <2> QED BY <2>1, <1>4
<1>13. CASE a # 0 /\ b # 0
  <2>1. u >= 1 /\ v >= 1 BY <1>3, <1>10, <1>13
  <2>2. u <= u * v /\ v <= u * v /\ u * v \in Int BY <1>3, <2>1
  <2> DEFINE g == u * v
  <2>3. g \in Int /\ u <= g /\ v <= g /\ g < p BY <2>2, <1>9
  <2> HIDE DEF g
  <2>4. ~(u >= p) /\ ~(v >= p) BY <2>3, <1>2, <1>3
  <2> QED BY <2>4, <1>3, <1>4, <1>5, <1>6
<1> QED BY <1>11, <1>12, <1>13

LEMMA TimesIs ==
  ASSUME NEW x \in Ints, NEW y \in Ints, NEW s, s = Nearest(x) * Nearest(y)
  PROVE  \/ Times(x, y) = IntNode(x * y)
         \/ Times(x, y) = [int |-> FALSE, n |-> Nearest(s), d |-> 1] /\ ~(Size(Nearest(s)) <= MAXLOGOINT)
<1> DEFINE product == FloatNode(s, 1)
<1>1. s \in Int BY ProductRange
<1>2. product = [int |-> FALSE, n |-> Nearest(s), d |-> 1] BY <1>1, FloatNodeOne
<1>3. Times(x, y) = IF Size(x) < SAFEINT /\ Size(y) < SAFEINT THEN IntNode(x * y)
                    ELSE IF Size(product.n) <= MAXLOGOINT THEN IntNode(product.n) ELSE product
  BY DEF Times
<1> HIDE DEF product
<1>4. product.n = Nearest(s) BY <1>2
<1>5. Size(Nearest(s)) <= MAXLOGOINT => Nearest(s) = x * y BY ProductSmall
<1> QED BY <1>2, <1>3, <1>4, <1>5

LEMMA TimesExact ==
  ASSUME NEW x \in Ints, NEW y \in Ints
  PROVE  /\ ExactOrNear(Times(x, y), x * y)
         /\ (Size(x * y) <= MAXLOGOINT /\ Size(Nearest(x)) = Size(x) /\ Size(Nearest(y)) = Size(y) => Times(x, y).int)
<1> DEFINE s == Nearest(x) * Nearest(y) f == Nearest(s) z == [int |-> FALSE, n |-> f, d |-> 1]
<1>1. Roundable(x) /\ Roundable(y) /\ Roundable(s) /\ s \in Int BY ProductRange
<1>2. Times(x, y) = IntNode(x * y) \/ (Times(x, y) = z /\ ~(Size(f) <= MAXLOGOINT)) BY TimesIs
<1>3. f \in Int /\ x \in Int /\ y \in Int /\ TwoTo[Precision] * Size(f - x * y) <= 4 * Size(x * y)
  <2> HIDE DEF s, f
  <2>1. s = Nearest(x) * Nearest(y) /\ f = Nearest(s) BY Zenon DEF s, f
  <2> QED BY <1>1, <2>1, ProductError
<1>4. CASE Times(x, y) = IntNode(x * y) BY <1>4, ExactInt
<1>5. CASE Times(x, y) = z /\ ~(Size(f) <= MAXLOGOINT)
  <2> DEFINE n == x * y
  <2>1. n \in Int /\ TwoTo[Precision] * Size(f - n) <= 4 * Size(n) BY <1>3
  <2>2. ExactOrNear(z, n)
    <3> HIDE DEF n, f
    <3> QED BY <2>1, <1>3, ExactFloat
  <2>3. ~(Size(n) <= MAXLOGOINT /\ Size(Nearest(x)) = Size(x) /\ Size(Nearest(y)) = Size(y))
    <3> SUFFICES ASSUME Size(n) <= MAXLOGOINT, Size(Nearest(x)) = Size(x), Size(Nearest(y)) = Size(y) PROVE FALSE
      OBVIOUS
    <3>1. Nearest(x) \in Int /\ Nearest(y) \in Int BY <1>1, NearestBounds
    <3>2. Size(s) = Size(n) BY <3>1, <1>3, SizeOfProduct
    <3>3. Size(n) \in Int /\ MAXLOGOINT \in Nat /\ MAXLOGOINT < TwoTo[Precision] /\ TwoTo[Precision] \in Nat
      BY <2>1, TwoToPositive, Widths DEF Size
    <3>4. Size(s) <= TwoTo[Precision]
      <4> HIDE DEF s, n
      <4> QED BY <3>2, <3>3
    <3>5. f = s BY <1>1, <3>4, SmallKept
    <3> QED BY <1>5, <3>2, <3>5
  <2> QED BY <1>5, <2>2, <2>3
<1> QED BY <1>2, <1>4, <1>5

(* Two sums, the first of which has become a float. *)
LEMMA SumGoesOn ==
  ASSUME NEW f \in Int, NEW c \in Int, Nearest(c) \in Int, NEW w, w = f + Nearest(c)
  PROVE  Binary("+", [int |-> FALSE, n |-> f, d |-> 1], IntNode(c)) = [int |-> FALSE, n |-> Nearest(w), d |-> 1]
<1> DEFINE x == [int |-> FALSE, n |-> f, d |-> 1] g == [int |-> FALSE, n |-> Nearest(c), d |-> 1]
<1>1. AsFloat(IntNode(c)) = g BY IntNodeIs, FloatNodeOne DEF AsFloat
<1>2. AsFloat(x) = x /\ ~x.int /\ x # Bad BY DEF AsFloat, Bad
<1>3. Binary("+", x, IntNode(c)) = FloatStep("+", x, g)
  <2> HIDE DEF x, g
  <2> QED BY <1>1, <1>2, IntNodeIs DEF Binary
<1>4. FloatStep("+", x, g) = FloatNode(x.n * g.d + g.n * x.d, x.d * g.d)
  <2> HIDE DEF x, g
  <2> QED BY DEF FloatStep
<1>5. x.n * g.d + g.n * x.d = w /\ x.d * g.d = 1 /\ w \in Int OBVIOUS
<1>6. FloatNode(w, 1) = [int |-> FALSE, n |-> Nearest(w), d |-> 1] BY <1>5, FloatNodeOne
<1> QED BY <1>3, <1>4, <1>5, <1>6, Zenon

LEMMA ThreeError ==
  ASSUME NEW a \in Ints, NEW b \in Ints, NEW c \in Ints, NEW s, s = Nearest(a) + Nearest(b),
         NEW f, f = Nearest(s), NEW w, w = f + Nearest(c), NEW g, g = Nearest(w)
  PROVE  /\ g \in Int /\ f \in Int /\ Nearest(c) \in Int
         /\ TwoTo[Precision] * Size(g - (a + b + c)) <= 4 * (Size(a) + Size(b) + Size(c))
<1> DEFINE p == TwoTo[Precision] m == TwoTo[IntBits - 1] na == Nearest(a) nb == Nearest(b) nc == Nearest(c)
           ea == Size(na - a) eb == Size(nb - b) ec == Size(nc - c) es == Size(f - s) ew == Size(g - w)
           e == Size(g - (a + b + c))
<1>1. /\ Roundable(a) /\ Roundable(b) /\ Roundable(c) /\ Roundable(s) /\ s \in Int /\ Size(s) <= 4 * m
      /\ Size(c) <= m
  BY SumRange, IntRange
<1>2. /\ Part(p, ea, Size(a)) /\ Part(p, eb, Size(b)) /\ Part(p, ec, Size(c)) /\ Part(p, es, Size(s))
      /\ a \in Int /\ b \in Int /\ c \in Int /\ na \in Int /\ nb \in Int /\ nc \in Int /\ f \in Int
  BY <1>1, ErrorPart
<1>3. Roundable(w)
  <2>1. Size(f) <= 2 * Size(s) /\ Size(nc) <= 2 * Size(c) BY <1>1, NearestBounds
  <2>2. m \in Nat /\ \A z \in Int : Size(z) <= 32 * m => Roundable(z) BY RangeIs
  <2> HIDE DEF m, nc
  <2>3. w = f + nc BY DEF nc
  <2>4. w \in Int /\ Size(w) <= 32 * m BY <1>1, <1>2, <2>1, <2>2, <2>3 DEF Size
  <2> QED BY <2>2, <2>4
<1>4. Part(p, ew, Size(w)) /\ w \in Int /\ g \in Int BY <1>3, ErrorPart
<1>5. s = na + nb /\ w = f + nc OBVIOUS
<1> DEFINE t == Size(a) + Size(b) k == Size(c)
<1>6. /\ t \in Nat /\ k \in Nat /\ Size(s) \in Nat /\ Size(w) \in Nat /\ e \in Nat
      /\ Size(s) <= t + ea + eb /\ Size(w) <= t + k + ea + eb + ec + es
      /\ e <= ea + eb + ec + es + ew
  <2> HIDE DEF na, nb, nc
  <2> QED BY <1>2, <1>4, <1>5 DEF Size
<1>7. p \in Nat /\ ea \in Nat /\ eb \in Nat /\ ec \in Nat /\ es \in Nat /\ ew \in Nat
  BY <1>2, <1>4 DEF Part
<1> DEFINE pe == p * e pa == p * ea pb == p * eb pk == p * ec ps == p * es pw == p * ew
<1>8. /\ pa \in Nat /\ pb \in Nat /\ pk \in Nat /\ ps \in Nat /\ pw \in Nat
      /\ 4 * ea <= pa /\ 4 * eb <= pb /\ 4 * ec <= pk /\ 4 * es <= ps
      /\ pa + pb <= t /\ pk <= k /\ ps <= Size(s) /\ pw <= Size(w)
  <2>1. /\ pa \in Nat /\ pb \in Nat /\ pk \in Nat /\ ps \in Nat /\ pw \in Nat
        /\ 4 * ea <= pa /\ 4 * eb <= pb /\ 4 * ec <= pk /\ 4 * es <= ps
        /\ pa <= Size(a) /\ pb <= Size(b) /\ pk <= k /\ ps <= Size(s) /\ pw <= Size(w)
    BY <1>2, <1>4 DEF Part
  <2>2. Size(a) \in Nat /\ Size(b) \in Nat BY <1>2 DEF Part
  <2> HIDE DEF pa, pb, pk, ps, pw, ea, eb, ec, es
  <2> QED BY <2>1, <2>2
<1> HIDE DEF p, m, na, nb, nc, ea, eb, ec, es, ew, e, t, k
<1>9. pe \in Nat /\ pe <= pa + pb + pk + ps + pw
  <2>1. p * e <= p * (ea + eb + ec + es + ew) BY <1>6, <1>7
  <2>2. p * (ea + eb + ec + es + ew) = p * ea + p * eb + p * ec + p * es + p * ew BY <1>7
  <2>3. p * e \in Nat BY <1>6, <1>7
  <2> QED BY <2>1, <2>2, <2>3
<1> HIDE DEF pe, pa, pb, pk, ps, pw
<1>10. pe <= 4 * (t + k) BY <1>6, <1>7, <1>8, <1>9
<1> QED BY <1>2, <1>4, <1>10 DEF pe, p, e, t, k, nc

(* The third input is added to the sum of the others, float or not. *)
LEMMA ThreeSum ==
  ASSUME NEW a \in Ints, NEW b \in Ints, NEW c \in Ints
  PROVE  LET sum == Binary("+", Binary("+", IntNode(a), IntNode(b)), IntNode(c))
         IN IF a + b \in Ints THEN ExactOrNear(sum, a + b + c)
            ELSE ~sum.int /\ Size(sum.n - (a + b + c)) * TwoTo[Precision - 2] <= Size(a) + Size(b) + Size(c)
<1> DEFINE first == Binary("+", IntNode(a), IntNode(b)) sum == Binary("+", first, IntNode(c))
<1>1. first = Plus(a, b) BY Binaries
<1>2. CASE a + b \in Ints
  <2>1. first = IntNode(a + b) BY <1>1, <1>2, PlusIs
  <2>2. sum = Plus(a + b, c) BY <2>1, Binaries
  <2>3. ExactOrNear(Plus(a + b, c), a + b + c) BY <1>2, PlusExact
  <2> QED BY <1>2, <2>2, <2>3
<1>3. CASE a + b \notin Ints
  <2> DEFINE s == Nearest(a) + Nearest(b) f == Nearest(s) w == f + Nearest(c) g == Nearest(w)
  <2>1. s \in Int /\ a \in Int /\ b \in Int /\ c \in Int BY SumRange, IntRange
  <2>2. first = [int |-> FALSE, n |-> f, d |-> 1] BY <1>1, <1>3, <2>1, PlusIs, FloatNodeOne
  <2>3. /\ g \in Int /\ f \in Int /\ Nearest(c) \in Int
        /\ TwoTo[Precision] * Size(g - (a + b + c)) <= 4 * (Size(a) + Size(b) + Size(c))
    <3> HIDE DEF s, f, w, g
    <3>1. s = Nearest(a) + Nearest(b) /\ f = Nearest(s) /\ w = f + Nearest(c) /\ g = Nearest(w)
      BY Zenon DEF s, f, w, g
    <3> QED BY <3>1, ThreeError
  <2>4. Binary("+", [int |-> FALSE, n |-> f, d |-> 1], IntNode(c)) = [int |-> FALSE, n |-> g, d |-> 1]
    <3> HIDE DEF f, w, g
    <3>1. w = f + Nearest(c) /\ g = Nearest(w) BY Zenon DEF w, g
    <3>2. Binary("+", [int |-> FALSE, n |-> f, d |-> 1], IntNode(c)) = [int |-> FALSE, n |-> Nearest(w), d |-> 1]
      BY <2>1, <2>3, <3>1, SumGoesOn
    <3> QED BY <3>1, <3>2, Zenon
  <2>5. sum = [int |-> FALSE, n |-> g, d |-> 1]
    <3> HIDE DEF first, f, g
    <3> QED BY <2>2, <2>4, Zenon
  <2> HIDE DEF first, sum, g
  <2>6. ~sum.int /\ sum.n = g BY <2>5
  <2> DEFINE e == Size(g - (a + b + c)) t == Size(a) + Size(b) + Size(c)
  <2>7. e \in Nat /\ t \in Nat BY <2>1, <2>3 DEF Size
  <2>8. TwoTo[Precision] * e <= 4 * t BY <2>3
  <2> HIDE DEF e, t
  <2>9. e * TwoTo[Precision - 2] <= t BY <2>7, <2>8, Quarter
  <2> QED BY <1>3, <2>6, <2>9 DEF e, t, sum, first
<1> QED BY <1>2, <1>3

LEMMA EdgesAreInts == Edges \subseteq Ints
<1> DEFINE m == TwoTo[IntBits - 1]
<1>1. m \in Nat \ {0} /\ MaxInt = m - 1 /\ MinInt = -m /\ \A n : n \in Ints <=> n \in Int /\ -m <= n /\ n < m
  BY IntsIs
<1>2. MAXLOGOINT \in Nat /\ SAFEINT \in Nat /\ SAFEINT <= MAXLOGOINT /\ MAXLOGOINT + 1 < m /\ m >= 4
  <2>1. SAFEINT <= MAXLOGOINT
    <3>1. SAFEINT \in Nat /\ SAFEINT >= 1 /\ SAFEINT * SAFEINT <= MAXLOGOINT /\ MAXLOGOINT \in Nat
      BY Widths
    <3>2. SAFEINT <= SAFEINT * SAFEINT /\ SAFEINT * SAFEINT \in Int BY <3>1
    <3> QED BY <3>1, <3>2
  <2>2. 2 * TwoTo[Precision] <= m /\ m >= 8 BY RangeIs
  <2>3. TwoTo[Precision] \in Nat BY TwoToPositive, Widths
  <2> HIDE DEF m
  <2> QED BY <2>1, <2>2, <2>3, <1>1, Widths
<1> HIDE DEF m
<1> QED BY <1>1, <1>2 DEF Edges

LEMMA SumsAreRight == SumsAreExact
<1>1. ASSUME NEW a \in Ints, NEW b \in Ints
      PROVE LET sum == Binary("+", IntNode(a), IntNode(b))
                difference == Binary("-", IntNode(a), IntNode(b))
                product == Binary("*", IntNode(a), IntNode(b))
            IN /\ ExactOrNear(sum, a + b) /\ (sum.int <=> a + b \in Ints)
               /\ b # MinInt => ExactOrNear(difference, a - b) /\ (difference.int <=> a - b \in Ints)
               /\ ExactOrNear(product, a * b) /\ (Size(a * b) <= MAXLOGOINT /\ Size(Nearest(a)) = Size(a) /\ Size(Nearest(b)) = Size(b) => product.int)
  <2>1. ExactOrNear(Plus(a, b), a + b) /\ (Plus(a, b).int <=> a + b \in Ints) BY PlusExact
  <2>2. ASSUME b # MinInt
        PROVE ExactOrNear(Plus(a, Wrapped(-b)), a - b) /\ (Plus(a, Wrapped(-b)).int <=> a - b \in Ints)
    <3> DEFINE m == TwoTo[IntBits - 1] c == -b
    <3>1. m \in Nat \ {0} /\ MinInt = -m /\ \A n : n \in Ints <=> n \in Int /\ -m <= n /\ n < m
      BY IntsIs
    <3>2. c \in Int /\ c \in Ints /\ -3 * m <= c /\ c < 3 * m /\ ~(c < -m) /\ ~(c >= m) /\ a + c = a - b
      <4> HIDE DEF m
      <4> QED BY <2>2, <3>1
    <3>3. Wrapped(c) = c
      <4> HIDE DEF c
      <4> QED BY <3>2, WrappedIs
    <3>4. ExactOrNear(Plus(a, c), a + c) /\ (Plus(a, c).int <=> a + c \in Ints)
      <4> HIDE DEF c
      <4> QED BY <3>2, PlusExact
    <3> QED BY <3>2, <3>3, <3>4, Zenon
  <2>3. ExactOrNear(Times(a, b), a * b) /\ (Size(a * b) <= MAXLOGOINT /\ Size(Nearest(a)) = Size(a) /\ Size(Nearest(b)) = Size(b) => Times(a, b).int)
    BY TimesExact
  <2>4. /\ Binary("+", IntNode(a), IntNode(b)) = Plus(a, b)
        /\ Binary("-", IntNode(a), IntNode(b)) = Plus(a, Wrapped(-b))
        /\ Binary("*", IntNode(a), IntNode(b)) = Times(a, b)
    BY Binaries
  <2> QED BY <2>1, <2>2, <2>3, <2>4, Zenon
<1>2. ASSUME NEW a \in Edges, NEW b \in Edges, NEW c \in Edges
      PROVE LET sum == Binary("+", Binary("+", IntNode(a), IntNode(b)), IntNode(c))
            IN IF a + b \in Ints THEN ExactOrNear(sum, a + b + c)
               ELSE ~sum.int /\ Size(sum.n - (a + b + c)) * TwoTo[Precision - 2] <= Size(a) + Size(b) + Size(c)
  <2>1. a \in Ints /\ b \in Ints /\ c \in Ints BY EdgesAreInts
  <2> QED BY <2>1, ThreeSum
<1> QED BY <1>1, <1>2, Zenon DEF SumsAreExact
----
(* Fractions, and the quotients that do not divide. *)

LEMMA UnitIs ==
  /\ Unit \in Nat /\ Unit = TwoTo[FractionBits] /\ Unit = 2 * TwoTo[FractionBits - 1] /\ TwoTo[FractionBits - 1] \in Nat \ {0}
  /\ TwoTo[IntBits - 1] \in Nat \ {0} /\ TwoTo[Precision] * (2 * TwoTo[IntBits - 1]) <= Unit
  /\ TwoTo[Precision + Span] = (TwoTo[Precision] * TwoTo[2 * IntBits]) * Unit
<1>1. FractionBits \in 1 .. Reach /\ FractionBits - 1 \in 0 .. Reach /\ IntBits \in 1 .. Reach /\ IntBits - 1 \in 0 .. Reach
  BY Widths
<1>2. TwoTo[FractionBits] = 2 * TwoTo[FractionBits - 1] /\ TwoTo[IntBits] = 2 * TwoTo[IntBits - 1]
  BY <1>1, TwoToNext
<1>3. /\ TwoTo[FractionBits - 1] \in Nat \ {0} /\ TwoTo[IntBits - 1] \in Nat \ {0} /\ TwoTo[FractionBits] \in Nat
  BY <1>1, TwoToPositive, Widths
<1>4. TwoTo[Precision + IntBits] = TwoTo[Precision] * TwoTo[IntBits] /\ TwoTo[Precision + IntBits] <= TwoTo[FractionBits]
  <2>1. /\ Precision \in Nat /\ IntBits \in Nat /\ Precision + IntBits \in Nat /\ Precision + IntBits <= FractionBits
        /\ FractionBits \in Nat /\ FractionBits <= Reach /\ Precision + IntBits <= Reach
    BY Widths
  <2> QED BY <2>1, TwoToAdds, TwoToGrows
<1>5. TwoTo[Precision] * (2 * TwoTo[IntBits - 1]) <= TwoTo[FractionBits] BY <1>2, <1>4
<1>6. TwoTo[Precision + Span] = (TwoTo[Precision] * TwoTo[2 * IntBits]) * TwoTo[FractionBits]
  <2> DEFINE i == Precision + 2 * IntBits
  <2>1. /\ i \in Nat /\ FractionBits \in Nat /\ i + FractionBits <= Reach /\ i <= Reach /\ i + FractionBits = Precision + Span
        /\ Precision \in Nat /\ 2 * IntBits \in Nat
    BY Widths
  <2>2. TwoTo[i] = TwoTo[Precision] * TwoTo[2 * IntBits] BY <2>1, TwoToAdds
  <2> HIDE DEF i
  <2>3. TwoTo[i + FractionBits] = TwoTo[i] * TwoTo[FractionBits] BY <2>1, TwoToAdds
  <2> QED BY <2>1, <2>2, <2>3
<1> QED BY <1>2, <1>3, <1>5, <1>6 DEF Unit

LEMMA FloatNodeIs ==
  ASSUME NEW n, NEW d, NEW s, s = (IF d < 0 THEN -1 ELSE 1), NEW m, m = Rounded(s * n * Unit, s * d)
  PROVE  \/ Rem(n, d) = 0 /\ FloatNode(n, d) = [int |-> FALSE, n |-> Nearest(Quot(n, d)), d |-> 1]
         \/ Rem(n, d) # 0 /\ m % Unit = 0 /\ FloatNode(n, d) = [int |-> FALSE, n |-> m \div Unit, d |-> 1]
         \/ Rem(n, d) # 0 /\ m % Unit # 0 /\ FloatNode(n, d) = [int |-> FALSE, n |-> m, d |-> Unit]
BY DEF FloatNode, InUnits

(* What makes up a fraction can be rounded, and it is not below the units. *)
LEMMA FractionRounds ==
  ASSUME NEW n \in Int, NEW d \in Nat \ {0}, NEW m, m = Rounded(n * Unit, d),
         Size(n) <= (16 * (TwoTo[IntBits - 1] * TwoTo[IntBits - 1])) * d
  PROVE  /\ \E k : Rounds(n * Unit, d, m, k)
         /\ n * Unit \in Int /\ Size(n * Unit) = Size(n) * Unit
<1> DEFINE j == TwoTo[IntBits - 1] p == TwoTo[Precision] a == j * j z == n * Unit s == Size(n)
<1>1. Unit \in Nat \ {0} /\ j \in Nat \ {0} /\ p \in Nat /\ p >= 8
  <2>1. 0 \in 0 .. Span BY Widths
  <2> QED BY <2>1, UnitIs, PowersAre DEF Powers
<1>2. TwoTo[2 * IntBits] = 4 * a BY RangeIs
<1>3. a \in Nat \ {0} /\ s \in Nat
  <2> HIDE DEF j
  <2> QED BY <1>1 DEF Size
<1>4. z \in Int /\ Size(z) = s * Unit
  <2>1. Size(Unit) = Unit BY <1>1 DEF Size
  <2>2. Unit \in Int /\ z \in Int BY <1>1
  <2> QED BY <2>1, <2>2, SizeOfProduct
<1>5. TwoTo[Precision + Span] = (p * (4 * a)) * Unit BY <1>2, UnitIs
<1> HIDE DEF a, s, p, j
<1>6. s < (p * (4 * a)) * d
  <2>1. s <= (16 * a) * d BY DEF a, s, j
  <2> DEFINE g == a * d
  <2>2. g \in Nat /\ g >= 1 BY <1>3
  <2>3. (p * (4 * a)) * d = p * (4 * g) /\ (16 * a) * d = 16 * g BY <1>1, <1>3
  <2> HIDE DEF g
  <2>4. p * (4 * g) >= 8 * (4 * g) BY <2>2, <1>1
  <2>5. s <= 16 * g BY <2>1, <2>3
  <2> QED BY <2>2, <2>3, <2>4, <2>5, <1>1, <1>3
<1>7. s * Unit < TwoTo[Precision + Span] * d
  <2> DEFINE g == (p * (4 * a)) * d
  <2>1. g \in Nat /\ s < g BY <1>1, <1>3, <1>6
  <2>2. TwoTo[Precision + Span] * d = g * Unit BY <1>1, <1>3, <1>5
  <2> HIDE DEF g
  <2>3. s * Unit < g * Unit BY <2>1, <1>1, <1>3
  <2> QED BY <2>2, <2>3
<1>8. Fits(z, d) BY <1>4, <1>7 DEF Fits
<1> HIDE DEF z
<1>9. \E k : Rounds(z, d, Rounded(z, d), k) BY <1>8, RoundedRounds
<1> QED BY <1>4, <1>9 DEF z, s

LEMMA SizeOfOpposite == ASSUME NEW x \in Int PROVE Size(-x) = Size(x)
BY DEF Size

(* A float quotient is near the quotient of what it is given. *)
FloatNear(A, B, x) ==
  \E n, d : /\ x = [int |-> FALSE, n |-> n, d |-> d] /\ n \in Int /\ d \in Nat \ {0}
            /\ TwoTo[Precision] * Size(n * B - A * d) <= Size(A) * d

LEMMA WholeQuotient ==
  ASSUME NEW A \in Int, NEW B \in Int, B # 0, Size(A) <= 2 * TwoTo[IntBits - 1], Rem(A, B) = 0
  PROVE  FloatNear(A, B, [int |-> FALSE, n |-> Nearest(Quot(A, B)), d |-> 1])
<1> DEFINE q == Quot(A, B) r == Rem(A, B) n == Nearest(q) m == TwoTo[IntBits - 1] p == TwoTo[Precision]
<1>1. Divided(A, B, q, r) BY QuotRem
<1>2. r = 0 OBVIOUS
<1> HIDE DEF q, r
<1>3. q \in Int /\ A = B * q /\ Size(B) * Size(q) <= Size(A) BY <1>1, <1>2 DEF Divided
<1>4. Size(B) \in Nat \ {0} /\ Size(q) \in Nat /\ Size(A) \in Nat BY <1>3 DEF Size
<1>5. Size(q) <= Size(A)
  <2> DEFINE b == Size(B) s == Size(q)
  <2>1. b \in Nat \ {0} /\ s \in Nat /\ b * s <= Size(A) BY <1>3, <1>4
  <2> HIDE DEF b, s
  <2>2. s <= b * s /\ b * s \in Nat BY <2>1
  <2>3. s <= Size(A) BY <2>1, <2>2, <1>4
  <2> QED BY <2>3 DEF s
<1>6. Roundable(q)
  <2>1. m \in Nat /\ \A z \in Int : Size(z) <= 32 * m => Roundable(z) BY RangeIs
  <2> HIDE DEF m
  <2>2. Size(q) <= 32 * m BY <2>1, <1>4, <1>5 DEF m
  <2> QED BY <2>1, <2>2, <1>3
<1>7. n \in Int /\ p * Size(n - q) <= Size(q) /\ p \in Nat BY <1>6, ErrorOf, TwoToPositive, Widths
<1> HIDE DEF n, p
<1>8. n * B - A * 1 = B * (n - q) BY <1>3, <1>7
<1>9. Size(B * (n - q)) = Size(B) * Size(n - q) /\ Size(A) = Size(B) * Size(q) /\ Size(n - q) \in Nat
  <2>1. n - q \in Int BY <1>3, <1>7
  <2>2. Size(B * (n - q)) = Size(B) * Size(n - q) BY <2>1, SizeOfProduct
  <2>3. Size(B * q) = Size(B) * Size(q) BY <1>3, SizeOfProduct
  <2> QED BY <2>1, <2>2, <2>3, <1>3 DEF Size
<1>10. p * Size(n * B - A * 1) <= Size(A) * 1
  <2> DEFINE b == Size(B) s == Size(q) e == Size(n - q)
  <2>1. b \in Nat /\ s \in Nat /\ e \in Nat /\ p * e <= s BY <1>4, <1>7, <1>9
  <2>2. Size(n * B - A * 1) = b * e /\ Size(A) = b * s BY <1>8, <1>9
  <2> HIDE DEF b, s, e
  <2>3. b * (p * e) <= b * s BY <2>1, <1>7
  <2>4. b * (p * e) = p * (b * e) /\ (b * s) * 1 = b * s BY <2>1, <1>7
  <2> QED BY <2>2, <2>3, <2>4, Zenon
<1>11. 1 \in Nat \ {0} OBVIOUS
<1>12. FloatNear(A, B, [int |-> FALSE, n |-> n, d |-> 1]) BY <1>7, <1>10, <1>11, Zenon DEF FloatNear, p
<1> QED BY <1>12 DEF n, q

LEMMA QuotientNear ==
  ASSUME NEW A \in Int, NEW B \in Int, A # 0, B # 0,
         Size(A) <= 2 * TwoTo[IntBits - 1], Size(B) <= 2 * TwoTo[IntBits - 1]
  PROVE  FloatNear(A, B, FloatNode(A, B))
<1> DEFINE s == IF B < 0 THEN -1 ELSE 1 D == s * B N == s * A j == TwoTo[IntBits - 1] p == TwoTo[Precision]
           m == Rounded(N * Unit, D)
<1>1. (s = 1 \/ s = -1) /\ D \in Nat \ {0} /\ D = Size(B) /\ N \in Int /\ Size(N) = Size(A) /\ Size(A) \in Nat \ {0}
  <2>1. CASE B < 0
    <3>1. s = -1 /\ D = -B /\ N = -A BY <2>1
    <3> QED BY <3>1, <2>1 DEF Size
  <2>2. CASE ~(B < 0)
    <3>1. s = 1 /\ D = B /\ N = A BY <2>2
    <3> QED BY <3>1, <2>2 DEF Size
  <2> QED BY <2>1, <2>2
<1>2. \/ Rem(A, B) = 0 /\ FloatNode(A, B) = [int |-> FALSE, n |-> Nearest(Quot(A, B)), d |-> 1]
      \/ Rem(A, B) # 0 /\ m % Unit = 0 /\ FloatNode(A, B) = [int |-> FALSE, n |-> m \div Unit, d |-> 1]
      \/ Rem(A, B) # 0 /\ m % Unit # 0 /\ FloatNode(A, B) = [int |-> FALSE, n |-> m, d |-> Unit]
  <2> DEFINE M == Rounded(s * A * Unit, s * B)
  <2>1. M = m OBVIOUS
  <2>2. s = IF B < 0 THEN -1 ELSE 1 OBVIOUS
  <2> HIDE DEF s, m
  <2> QED BY <2>1, <2>2, FloatNodeIs
<1>3. Unit \in Nat \ {0} /\ j \in Nat \ {0} /\ p * (2 * j) <= Unit /\ p \in Nat BY UnitIs, TwoToPositive, Widths
<1> HIDE DEF s, D, N, m
<1>4. PICK k : Rounds(N * Unit, D, m, k) /\ N * Unit \in Int /\ Size(N * Unit) = Size(N) * Unit
  <2>1. Size(N) <= (16 * (j * j)) * D
    <3> HIDE DEF j
    <3>1. Size(N) <= 2 * j /\ Size(N) \in Nat BY <1>1 DEF j
    <3>2. j * j >= j /\ j * j \in Nat BY <1>3
    <3> DEFINE a == j * j
    <3>3. a \in Nat /\ a >= j BY <3>2
    <3> HIDE DEF a
    <3>4. (16 * a) * D >= 16 * a BY <1>1, <3>3
    <3>5. (16 * a) * D \in Int BY <1>1, <3>3
    <3>6. Size(N) <= (16 * a) * D BY <3>1, <3>3, <3>4, <3>5, <1>3
    <3> QED BY <3>6 DEF a
  <2>2. m = Rounded(N * Unit, D) BY DEF m
  <2> QED BY <1>1, <2>1, <2>2, FractionRounds
<1>5. m \in Int BY <1>4 DEF Rounds
<1>6. k # 0
  <2> SUFFICES ASSUME k = 0 PROVE FALSE OBVIOUS
  <2>1. Size(N * Unit) < p * TwoTo[k] * D BY <1>4 DEF Rounds
  <2>2. p * TwoTo[k] * D = p * D BY TwoToStart, <1>3
  <2> DEFINE a == Size(A)
  <2>3. a \in Nat \ {0} /\ a * Unit < p * D /\ D <= 2 * j BY <1>1, <1>4, <2>1, <2>2
  <2> HIDE DEF a, p, j
  <2>4. p * D <= p * (2 * j) /\ a * Unit >= Unit BY <2>3, <1>1, <1>3
  <2> DEFINE x == p * D y == p * (2 * j) z == a * Unit
  <2>5. x \in Int /\ y \in Int /\ z \in Int /\ x <= y /\ z >= Unit /\ z < x /\ y <= Unit
    BY <2>3, <2>4, <1>1, <1>3 DEF p, j
  <2> HIDE DEF x, y, z
  <2> QED BY <2>5, <1>3
<1>7. p * Size(m * B - A * Unit) <= Size(A) * Unit
  <2>1. p * Size(m * D - N * Unit) <= Size(N * Unit) BY <1>1, <1>4, <1>6, ErrorRounds
  <2>2. Size(m * D - N * Unit) = Size(m * B - A * Unit)
    <3> DEFINE x == m * B y == A * Unit
    <3>1. x \in Int /\ y \in Int BY <1>3, <1>5
    <3>2. CASE s = 1
      <4>1. D = B /\ N = A BY <3>2 DEF D, N
      <4> QED BY <4>1
    <3>3. CASE s = -1
      <4>1. D = -B /\ N = -A BY <3>3 DEF D, N
      <4>2. m * D = -x /\ N * Unit = -y BY <4>1, <1>3, <1>5
      <4> HIDE DEF x, y
      <4>3. Size(m * D - N * Unit) = Size(x - y) BY <4>2, <3>1 DEF Size
      <4> QED BY <4>3 DEF x, y
    <3> QED BY <3>2, <3>3, <1>1
  <2> QED BY <2>1, <2>2, <1>1, <1>4
<1>8. CASE Rem(A, B) = 0 BY <1>2, <1>8, WholeQuotient, Zenon
<1>9. CASE FloatNode(A, B) = [int |-> FALSE, n |-> m, d |-> Unit]
  BY <1>3, <1>5, <1>7, <1>9, Zenon DEF FloatNear, p
<1>10. CASE m % Unit = 0 /\ FloatNode(A, B) = [int |-> FALSE, n |-> m \div Unit, d |-> 1]
  <2> DEFINE n == m \div Unit
  <2>1. n \in Int /\ m = Unit * n
    <3>1. n \in Int /\ m = Unit * n + (m % Unit) BY <1>3, <1>5, DivIs
    <3>2. m % Unit = 0 BY <1>10
    <3> DEFINE r == m % Unit
    <3> HIDE DEF n, r
    <3>3. m = Unit * n + r /\ r = 0 BY <3>1, <3>2 DEF r
    <3> QED BY <3>1, <3>3, <1>3
  <2> HIDE DEF n
  <2> DEFINE x == n * B - A * 1 e == Size(x) a == Size(A)
  <2>2. x \in Int /\ m * B - A * Unit = x * Unit BY <2>1, <1>3
  <2>3. Size(x * Unit) = e * Unit
    <3>1. Size(Unit) = Unit /\ Unit \in Int BY <1>3 DEF Size
    <3> HIDE DEF x
    <3> QED BY <3>1, <2>2, SizeOfProduct DEF e
  <2>4. e \in Nat /\ a \in Nat BY <1>1, <2>2 DEF Size
  <2>5. p * (e * Unit) <= a * Unit BY <1>7, <2>2, <2>3
  <2> HIDE DEF e, a, x, p
  <2>6. p * e <= a
    <3> SUFFICES ASSUME p * e >= a + 1 PROVE FALSE BY <1>3, <2>4
    <3>1. (p * e) * Unit >= (a + 1) * Unit BY <1>3, <2>4
    <3>2. (p * e) * Unit = p * (e * Unit) /\ (a + 1) * Unit = a * Unit + Unit BY <1>3, <2>4
    <3> DEFINE y == p * (e * Unit) z == a * Unit
    <3>3. y \in Int /\ z \in Int /\ y <= z /\ y >= z + Unit BY <3>1, <3>2, <2>4, <2>5, <1>3
    <3> HIDE DEF y, z
    <3> QED BY <3>3, <1>3
  <2>7. p * e <= a * 1 /\ 1 \in Nat \ {0} BY <2>4, <2>6
  <2> QED BY <2>1, <2>7, <1>10, Zenon DEF FloatNear, p, e, a, x, n
<1> QED BY <1>2, <1>8, <1>9, <1>10

(* A quotient of integers, both rounded first. *)
LEMMA DivisionNear ==
  ASSUME NEW a \in Ints, NEW b \in Ints, a # 0, b # 0
  PROVE  LET q == FloatNode(Nearest(a), Nearest(b))
         IN ~q.int /\ Size(q.n * b - a * q.d) * TwoTo[Precision - 2] <= Size(a) * q.d
<1> DEFINE A == Nearest(a) B == Nearest(b) p == TwoTo[Precision] j == TwoTo[IntBits - 1] x == FloatNode(A, B)
<1>1. Roundable(a) /\ Roundable(b) /\ a \in Int /\ b \in Int /\ Size(a) \in Nat /\ Size(b) \in Nat /\ Size(a) <= j /\ Size(b) <= j
  BY IntRange
<1>2. Part(p, Size(A - a), Size(a)) /\ Part(p, Size(B - b), Size(b)) /\ A \in Int /\ B \in Int BY <1>1, ErrorPart
<1>3. A # 0 /\ B # 0
  <2>1. Size(0) = 0 /\ TwoTo[Precision] \in Nat \ {0} BY TwoToPositive, Widths DEF Size
  <2>2. A = a \/ Size(A) >= p BY <1>1, SmallOrKept
  <2>3. B = b \/ Size(B) >= p BY <1>1, SmallOrKept
  <2> HIDE DEF A, B, p
  <2>4. p > Size(0) /\ Size(0) \in Int /\ p \in Int BY <2>1 DEF p
  <2>5. A = 0 => FALSE BY <2>2, <2>4
  <2>6. B = 0 => FALSE BY <2>3, <2>4
  <2> QED BY <2>5, <2>6
<1>4. Size(A) <= 2 * j /\ Size(B) <= 2 * j
  <2>1. Size(A) <= 2 * Size(a) /\ Size(B) <= 2 * Size(b) BY <1>1, NearestBounds
  <2>2. j \in Nat /\ Size(A) \in Nat /\ Size(B) \in Nat BY <1>2, UnitIs DEF Size
  <2> HIDE DEF A, B, j
  <2> QED BY <2>1, <2>2, <1>1
<1>5. FloatNear(A, B, x)
  <2> HIDE DEF A, B
  <2> QED BY <1>2, <1>3, <1>4, QuotientNear
<1>6. PICK n, d : /\ x = [int |-> FALSE, n |-> n, d |-> d] /\ n \in Int /\ d \in Nat \ {0}
                  /\ p * Size(n * B - A * d) <= Size(A) * d
  BY <1>5 DEF FloatNear
<1> HIDE DEF A, B, x, j
<1> DEFINE y == n * b - a * d e == Size(y) ea == Size(A - a) eb == Size(b - B) u == Size(a) v == Size(b) w == Size(n)
           t == u * d g == n * b
           e1 == w * eb e2 == Size(n * B - A * d) e3 == d * ea
<1>7. p \in Nat /\ p >= 8
  <2>1. 0 \in 0 .. Span BY Widths
  <2> QED BY <2>1, PowersAre DEF Powers
<1>8. /\ ea \in Nat /\ eb \in Nat /\ u \in Nat /\ v \in Nat /\ w \in Nat /\ p * ea <= u /\ p * eb <= v
  <2>1. Size(B - b) = eb
    <3>1. b - B = -(B - b) /\ B - b \in Int BY <1>1, <1>2
    <3> QED BY <3>1, SizeOfOpposite
  <2>2. w \in Nat BY <1>6 DEF Size
  <2> QED BY <1>1, <1>2, <2>1, <2>2 DEF Part
<1>9. e <= e1 + e2 + e3 /\ e \in Nat /\ e2 \in Nat /\ y \in Int
  <2> DEFINE i1 == n * (b - B) i2 == n * B - A * d i3 == d * (A - a)
  <2>1. i1 \in Int /\ i2 \in Int /\ i3 \in Int /\ y \in Int BY <1>1, <1>2, <1>6
  <2>2. y = i1 + i2 + i3 BY <1>1, <1>2, <1>6
  <2>3. Size(i1) = e1
    <3>1. b - B \in Int BY <1>1, <1>2
    <3> QED BY <3>1, <1>6, SizeOfProduct
  <2>4. Size(i3) = e3
    <3>1. A - a \in Int /\ d \in Int /\ Size(d) = d BY <1>1, <1>2, <1>6 DEF Size
    <3> QED BY <3>1, SizeOfProduct
  <2>5. Size(i2) = e2 OBVIOUS
  <2> HIDE DEF i1, i2, i3, y, e1, e2, e3
  <2> QED BY <2>1, <2>2, <2>3, <2>4, <2>5 DEF Size
<1>10. e1 \in Nat /\ e3 \in Nat /\ t \in Nat
  <2> HIDE DEF w, eb, ea, u
  <2> QED BY <1>6, <1>8
<1>11. p * e1 <= e + t
  <2>1. Size(g) = w * v BY <1>1, <1>6, SizeOfProduct
  <2>2. Size(a * d) = t
    <3>1. d \in Int /\ Size(d) = d BY <1>6 DEF Size
    <3> QED BY <3>1, <1>1, SizeOfProduct
  <2>3. g \in Int /\ a * d \in Int /\ y = g - a * d BY <1>1, <1>6
  <2> DEFINE h == a * d
  <2>4. h \in Int /\ y = g - h /\ Size(h) = t BY <2>2, <2>3
  <2>5. e = Size(y) OBVIOUS
  <2> HIDE DEF g, h, y, t, e
  <2>6. Size(g) <= e + t BY <2>3, <2>4, <2>5 DEF Size
  <2> HIDE DEF w, v, eb, p
  <2>7. w * (p * eb) <= w * v BY <1>7, <1>8
  <2>8. w * (p * eb) = p * (w * eb) BY <1>7, <1>8
  <2> DEFINE k1 == w * (p * eb) k2 == w * v
  <2>9. k1 \in Int /\ k2 \in Int /\ k1 <= k2 /\ k2 <= e + t /\ e1 * p = k1
    <3>1. k1 \in Int /\ k2 \in Int BY <1>7, <1>8
    <3>2. e1 * p = k1 BY <1>7, <1>8
    <3>3. k2 <= e + t BY <2>1, <2>6
    <3> HIDE DEF k1, k2, e1
    <3>4. k1 <= k2 BY <2>7 DEF k1, k2
    <3> QED BY <3>1, <3>2, <3>3, <3>4
  <2> HIDE DEF k1, k2, e1
  <2>10. p * e1 = e1 * p BY <1>7, <1>10
  <2>11. k1 <= e + t BY <2>9, <1>9, <1>10
  <2> QED BY <2>9, <2>10, <2>11
<1>12. p * e2 <= t + e3
  <2>1. Size(A) <= u + ea /\ Size(A) \in Nat BY <1>1, <1>2 DEF Size
  <2> DEFINE z == Size(A)
  <2>2. z <= u + ea /\ z \in Nat /\ p * e2 <= z * d BY <1>6, <2>1
  <2> HIDE DEF z, u, ea, e2
  <2>3. z * d <= (u + ea) * d BY <1>6, <1>8, <2>2
  <2>4. (u + ea) * d = u * d + d * ea BY <1>6, <1>8
  <2> HIDE DEF p
  <2>5. p * e2 \in Int /\ z * d \in Int BY <1>6, <1>7, <1>9, <2>2
  <2> DEFINE k1 == p * e2 k2 == z * d k3 == (u + ea) * d
  <2>6. k1 \in Int /\ k2 \in Int /\ k1 <= k2 /\ k2 <= k3 /\ k3 = t + e3 BY <2>2, <2>3, <2>4, <2>5
  <2> HIDE DEF k1, k2, k3, t, e3
  <2>7. k1 <= t + e3 BY <2>6, <1>10
  <2> QED BY <2>7 DEF k1
<1>13. p * e3 <= t
  <2> HIDE DEF p, ea, u
  <2>1. d * (p * ea) <= d * u BY <1>6, <1>7, <1>8
  <2>2. d * (p * ea) = p * (d * ea) /\ d * u = u * d BY <1>6, <1>7, <1>8
  <2> QED BY <2>1, <2>2
<1> HIDE DEF e, e1, e2, e3, t
<1>14. p * e <= p * e1 + p * e2 + p * e3 /\ 8 * e <= p * e /\ 8 * e3 <= p * e3 /\ p * e \in Nat
  <2> HIDE DEF p
  <2>1. p * e <= p * (e1 + e2 + e3) BY <1>7, <1>9, <1>10
  <2>2. p * (e1 + e2 + e3) = p * e1 + p * e2 + p * e3 BY <1>7, <1>9, <1>10
  <2>3. 8 * e <= p * e /\ 8 * e3 <= p * e3 /\ p * e \in Nat BY <1>7, <1>9, <1>10
  <2> QED BY <2>1, <2>2, <2>3
<1>15. p * e <= 4 * t
  <2> DEFINE k0 == p * e k1 == p * e1 k2 == p * e2 k3 == p * e3
  <2>1. /\ k0 \in Nat /\ k0 <= k1 + k2 + k3 /\ 8 * e <= k0 /\ 8 * e3 <= k3
        /\ k1 <= e + t /\ k2 <= t + e3 /\ k3 <= t
    BY <1>11, <1>12, <1>13, <1>14
  <2>2. k1 \in Int /\ k2 \in Int /\ k3 \in Int BY <1>7, <1>9, <1>10
  <2> HIDE DEF k0, k1, k2, k3
  <2>3. k0 <= 4 * t BY <2>1, <2>2, <1>9, <1>10
  <2> QED BY <2>3 DEF k0
<1>16. e * TwoTo[Precision - 2] <= t
  <2>1. e \in Nat /\ t \in Nat /\ TwoTo[Precision] * e <= 4 * t BY <1>9, <1>10, <1>15
  <2> QED BY <2>1, Quarter
<1>17. ~x.int /\ x.n = n /\ x.d = d BY <1>6
<1>18. Size(x.n * b - a * x.d) * TwoTo[Precision - 2] <= Size(a) * x.d BY <1>16, <1>17 DEF e, y, t, u
<1> QED BY <1>17, <1>18 DEF x, A, B

LEMMA DivisionIsRight == DivisionAgrees
<1> SUFFICES ASSUME NEW a \in Ints, NEW b \in Ints, b # 0
             PROVE  LET q == Binary("/", IntNode(a), IntNode(b))
                        r == Binary("%", IntNode(a), IntNode(b))
                        m == Binary("m", IntNode(a), IntNode(b))
                    IN /\ q.int <=> a % Size(b) = 0
                       /\ IF q.int THEN q.n * b = a
                          ELSE Size(q.n * b - a * q.d) * TwoTo[Precision - 2] <= Size(a) * q.d
                       /\ r.int /\ Size(r.n) < Size(b) /\ (r.n # 0 => (r.n < 0) = (a < 0)) /\ (a - r.n) % Size(b) = 0
                       /\ m.int /\ (a - m.n) % Size(b) = 0
                       /\ IF b > 0 THEN m.n \in 0 .. b - 1 ELSE m.n \in b .. -1
  BY Zenon DEF DivisionAgrees
<1> DEFINE q == Binary("/", IntNode(a), IntNode(b)) r == Binary("%", IntNode(a), IntNode(b))
           m == Binary("m", IntNode(a), IntNode(b)) x == Quot(a, b) y == Rem(a, b)
           f == FloatNode(Nearest(a), Nearest(b))
<1>1. a \in Int /\ b \in Int BY IntsIs
<1>2. q = Over(a, b) /\ r = Remainder(a, b) /\ m = Modulo(a, b) BY Binaries
<1>3. Divided(a, b, x, y) BY <1>1, QuotRem
<1>4. y = 0 <=> a % Size(b) = 0 BY <1>1, RemZero
<1>5. q = (IF y # 0 THEN f ELSE IntNode(x)) BY <1>2 DEF Over
<1>6. r = IntNode(y) BY <1>2 DEF Remainder
<1>7. m = (IF (y < 0) # (b < 0) THEN IntNode(y + b) ELSE IntNode(y)) BY <1>2 DEF Modulo
<1>8. a # 0 => ~f.int /\ Size(f.n * b - a * f.d) * TwoTo[Precision - 2] <= Size(a) * f.d BY DivisionNear
<1> HIDE DEF q, r, m, x, y, f
<1>9. x \in Int /\ y \in Int /\ a = b * x + y /\ Size(y) < Size(b) /\ (y < 0 => a < 0) /\ (y > 0 => a > 0)
  BY <1>3 DEF Divided
<1>10. y # 0 => a # 0 BY <1>9
<1>11. /\ q.int <=> a % Size(b) = 0
       /\ IF q.int THEN q.n * b = a
          ELSE Size(q.n * b - a * q.d) * TwoTo[Precision - 2] <= Size(a) * q.d
  <2>1. CASE y = 0
    <3>1. q.n = x /\ q.int BY <2>1, <1>5, IntNodeIs
    <3>2. x * b = a BY <2>1, <1>9, <1>1
    <3> QED BY <2>1, <3>1, <3>2, <1>4
  <2>2. CASE y # 0
    <3>1. q = f BY <2>2, <1>5
    <3> QED BY <2>2, <3>1, <1>4, <1>8, <1>10, Zenon
  <2> QED BY <2>1, <2>2
<1>12. r.int /\ r.n = y BY <1>6, IntNodeIs
<1>13. Size(y) < Size(b) /\ (y # 0 => (y < 0) = (a < 0)) /\ (a - y) % Size(b) = 0
  <2>1. (a - y) % Size(b) = 0 BY <1>1, <1>9, LeavesMultiple
  <2>2. y # 0 => (y < 0) = (a < 0) BY <1>1, <1>9
  <2> QED BY <2>1, <2>2, <1>9
<1>14. m.int /\ m.n = IF (y < 0) # (b < 0) THEN y + b ELSE y BY <1>7, IntNodeIs
<1> DEFINE z == IF (y < 0) # (b < 0) THEN y + b ELSE y
<1>15. (a - z) % Size(b) = 0
  <2>1. CASE (y < 0) # (b < 0)
    <3> DEFINE g == x - 1 h == y + b
    <3>1. g \in Int /\ h \in Int /\ b * g = b * x - b BY <1>1, <1>9
    <3>2. a = b * g + h BY <3>1, <1>1, <1>9
    <3> HIDE DEF g, h
    <3>3. (a - h) % Size(b) = 0 BY <3>1, <3>2, <1>1, LeavesMultiple
    <3> QED BY <2>1, <3>3 DEF h
  <2>2. CASE ~((y < 0) # (b < 0)) BY <2>2, <1>13
  <2> QED BY <2>1, <2>2
<1>16. IF b > 0 THEN z \in 0 .. b - 1 ELSE z \in b .. -1 BY <1>1, <1>9 DEF Size
<1> HIDE DEF z
<1>17. m.int /\ m.n = z BY <1>14 DEF z
<1> QED BY <1>11, <1>12, <1>13, <1>15, <1>16, <1>17, Zenon DEF q, r, m
----
(* The order of integers and floats. *)

\* The values of a float: an integer with few significant bits, in units
\* too, or a fraction within the significant bits.
Whole(n) ==
  /\ n \in Int /\ Roundable(n) /\ Representable(n) /\ Representable(n * Unit)
  /\ Size(n) <= 8 * (TwoTo[IntBits - 1] * TwoTo[IntBits - 1])
Fraction(n, d) ==
  d = Unit /\ n \in Int /\ n % Unit # 0 /\ Representable(n) /\ Size(n) < TwoTo[Precision] * Unit
FloatValue(n, d) == (d = 1 /\ Whole(n)) \/ Fraction(n, d)

LEMMA ValueIs ==
  ASSUME NEW n, NEW d, FloatValue(n, d)
  PROVE  n \in Int /\ d \in Nat \ {0} /\ ((d = 1 /\ Roundable(n) /\ Representable(n)) \/ Size(n) < TwoTo[Precision] * d)
<1>1. Unit \in Nat \ {0} BY UnitIs
<1> QED BY <1>1 DEF FloatValue, Whole, Fraction

LEMMA WholeFloat ==
  ASSUME NEW n, FloatValue(n, 1)
  PROVE  n \in Int /\ Roundable(n) /\ Representable(n) /\ Nearest(n) = n
<1>1. n \in Int BY ValueIs
<1>2. CASE Roundable(n) /\ Representable(n) BY <1>1, <1>2, RepresentableKept
<1>3. CASE Size(n) < TwoTo[Precision] * 1
  <2>1. Size(n) <= TwoTo[Precision] BY <1>1, <1>3, TwoToPositive, Widths DEF Size
  <2> QED BY <1>1, <2>1, SmallKept, SmallRepresentable
<1> QED BY <1>2, <1>3, ValueIs

\* A power of two times something.
LEMMA PowerTimes ==
  ASSUME NEW i \in Nat, NEW j \in Nat, i + j <= Span, NEW t \in Int
  PROVE  TwoTo[i] * (TwoTo[j] * t) = TwoTo[i + j] * t /\ TwoTo[i] \in Nat \ {0} /\ TwoTo[j] \in Nat \ {0}
<1>1. i + j <= Reach /\ i \in 0 .. Reach /\ j \in 0 .. Reach BY Widths
<1>2. TwoTo[i + j] = TwoTo[i] * TwoTo[j] BY <1>1, TwoToAdds
<1>3. TwoTo[i] \in Nat \ {0} /\ TwoTo[j] \in Nat \ {0} BY <1>1, TwoToPositive
<1> DEFINE a == TwoTo[i] b == TwoTo[j] c == TwoTo[i + j]
<1>4. c = a * b /\ a \in Nat \ {0} /\ b \in Nat \ {0} BY <1>2, <1>3
<1> HIDE DEF a, b, c
<1>5. a * (b * t) = c * t BY <1>4
<1> QED BY <1>4, <1>5 DEF a, b, c

(* What is small is a float, and so is a small multiple of a unit. *)
LEMMA SmallWhole ==
  ASSUME NEW z \in Int, Size(z) <= TwoTo[Precision] PROVE Whole(z)
<1>1. Roundable(z) /\ Representable(z) BY SmallKept, SmallRepresentable
<1>2. Representable(z * Unit)
  <2>1. FractionBits \in 0 .. Span BY Widths
  <2>2. z * Unit = TwoTo[FractionBits] * z BY UnitIs
  <2> QED BY <2>1, <2>2 DEF Representable
<1> DEFINE j == TwoTo[IntBits - 1]
<1>3. j \in Nat /\ j >= 8 /\ 2 * TwoTo[Precision] <= j BY RangeIs
<1>4. Size(z) <= 8 * (j * j)
  <2>1. TwoTo[Precision] \in Nat /\ Size(z) \in Nat BY TwoToPositive, Widths DEF Size
  <2> HIDE DEF j
  <2>2. j * j >= j /\ j * j \in Nat BY <1>3
  <2> QED BY <2>1, <2>2, <1>3
<1> QED BY <1>1, <1>2, <1>4 DEF Whole

(* A big integer's rounding is one, in units as well. *)
LEMMA BigWhole ==
  ASSUME NEW a \in Int, Size(a) <= TwoTo[2 * IntBits] PROVE Whole(Nearest(a))
<1> DEFINE j == TwoTo[IntBits - 1] g == j * j m == Nearest(a)
<1>1. TwoTo[2 * IntBits] = 4 * g /\ g \in Nat \ {0} /\ \A z \in Int : Size(z) <= 8 * g => Roundable(z)
  <2>1. j \in Nat \ {0} BY RangeIs
  <2> QED BY <2>1, RangeIs
<1> HIDE DEF j, g
<1>2. Size(a) \in Nat /\ Size(a) <= 4 * g BY <1>1 DEF Size
<1>3. Roundable(a) BY <1>1, <1>2
<1>4. m \in Int /\ Size(m) <= 2 * Size(a) /\ Representable(m) BY <1>3, NearestBounds, NearestRepresentable
<1>5. Size(m) <= 8 * g /\ Roundable(m)
  <2>1. Size(m) \in Nat BY <1>4 DEF Size
  <2> HIDE DEF m
  <2>2. Size(m) <= 8 * g BY <2>1, <1>1, <1>2, <1>4
  <2> QED BY <2>2, <1>1, <1>4
<1>6. Representable(m * Unit)
  <2> DEFINE d == 1
  <2>1. d \in Nat \ {0} /\ \E k : Rounds(a, d, m, k) BY <1>3, NearestRounds
  <2> HIDE DEF d
  <2>2. PICK k : Rounds(a, d, m, k) BY <2>1
  <2> HIDE DEF m
  <2>3. k \in 0 .. Span /\ \E t \in Int : m = TwoTo[k] * t /\ Size(t) <= TwoTo[Precision]
    BY <2>1, <2>2, RoundsRepresentable
  <2>4. PICK t \in Int : m = TwoTo[k] * t /\ Size(t) <= TwoTo[Precision] BY <2>3
  <2>5. k <= 2 * IntBits
    <3> SUFFICES ASSUME k >= 2 * IntBits + 1 PROVE FALSE BY <2>3, Widths
    <3>1. TwoTo[Precision] * TwoTo[k] * d <= 2 * Size(a) BY <2>2, Widths DEF Rounds
    <3>2. 2 * IntBits \in Nat /\ k \in Nat /\ k <= Reach /\ 2 * IntBits <= k BY <2>3, Widths
    <3>3. TwoTo[2 * IntBits] <= TwoTo[k] BY <3>2, TwoToGrows
    <3>4. TwoTo[Precision] \in Nat /\ TwoTo[Precision] >= 8 /\ TwoTo[k] \in Nat
      <4>1. TwoTo[Precision] \in Nat /\ TwoTo[Precision] >= 8
        <5>1. 0 \in 0 .. Span BY Widths
        <5> QED BY <5>1, PowersAre DEF Powers
      <4> QED BY <4>1, <3>2, TwoToPositive
    <3> DEFINE p == TwoTo[Precision] u == TwoTo[k]
    <3>5. p * u * d = p * u BY <3>4 DEF d
    <3>6. p * u <= 8 * g /\ 4 * g <= u /\ p \in Nat /\ p >= 8 /\ u \in Nat
      <4>1. p * u <= 2 * Size(a) BY <3>1, <3>5
      <4>2. p * u \in Int BY <3>4
      <4> HIDE DEF p, u
      <4>3. p * u <= 8 * g
        <5> DEFINE x == p * u
        <5> HIDE DEF x
        <5>1. x <= 2 * Size(a) /\ x \in Int BY <4>1, <4>2 DEF x
        <5>2. x <= 8 * g BY <5>1, <1>1, <1>2
        <5> QED BY <5>2 DEF x
      <4> QED BY <4>3, <3>3, <3>4, <1>1 DEF p, u
    <3> HIDE DEF p, u
    <3>7. p * u >= 8 * u BY <3>6
    <3>8. p * u \in Int BY <3>6
    <3> QED BY <3>6, <3>7, <3>8, <1>1
  <2>6. k + FractionBits \in 0 .. Span /\ FractionBits \in Nat /\ k \in Nat /\ FractionBits + k = k + FractionBits
    BY <2>3, <2>5, Widths
  <2>7. TwoTo[FractionBits] * (TwoTo[k] * t) = TwoTo[FractionBits + k] * t BY <2>6, PowerTimes
  <2>8. m * Unit = TwoTo[FractionBits] * m BY <1>4, UnitIs
  <2> QED BY <2>4, <2>6, <2>7, <2>8, Zenon DEF Representable
<1> QED BY <1>4, <1>5, <1>6 DEF Whole, g, j

(* Below the precision every quotient fits. *)
LEMMA QuotBelow ==
  ASSUME NEW n \in Int, NEW d \in Nat \ {0}, NEW b \in Nat, NEW q \in Int, NEW r \in Int,
         n = d * q + r, d * Size(q) <= Size(n), Size(n) < b * d
  PROVE  Size(q) < b
<1> DEFINE s == Size(q)
<1>1. s \in Nat /\ d * s <= Size(n) /\ Size(n) \in Int BY DEF Size
<1> DEFINE g == d * s h == b * d
<1>2. g \in Int /\ h \in Int BY <1>1
<1>3. g < h
  <2> HIDE DEF g, h
  <2> QED BY <1>1, <1>2 DEF g, h
<1> HIDE DEF s
<1>4. s < b
  <2> SUFFICES ASSUME s >= b PROVE FALSE BY <1>1
  <2>1. d * s >= d * b /\ d * b = b * d BY <1>1
  <2> QED BY <1>2, <1>3, <2>1
<1> QED BY <1>4 DEF s

LEMMA FractionFloat ==
  ASSUME NEW a \in Int, NEW d \in Nat \ {0}, Size(a) < TwoTo[Precision] * d,
         NEW m, m = Rounded(a * Unit, d)
  PROVE  /\ m \in Int
         /\ m % Unit = 0 => FloatValue(m \div Unit, 1)
         /\ m % Unit # 0 => FloatValue(m, Unit)
<1> DEFINE p == TwoTo[Precision] j == TwoTo[IntBits - 1] P == p * Unit
<1>1. p \in Nat \ {0} /\ Unit \in Nat \ {0} /\ j \in Nat /\ j >= 8 /\ 2 * p <= j
  BY UnitIs, RangeIs, TwoToPositive, Widths
<1>2. Size(a) <= (16 * (j * j)) * d
  <2>1. Size(a) < p * d /\ Size(a) \in Nat BY DEF Size
  <2> HIDE DEF p, j
  <2>2. j * j >= j /\ j * j \in Nat BY <1>1
  <2>3. 16 * (j * j) >= p BY <1>1, <2>2
  <2> DEFINE g == 16 * (j * j)
  <2>4. g \in Nat /\ g >= p BY <2>2, <2>3
  <2> HIDE DEF g
  <2>5. g * d >= p * d /\ g * d \in Int /\ p * d \in Int BY <2>4, <1>1
  <2>6. Size(a) <= g * d
    <3> DEFINE x == g * d y == p * d
    <3>1. x \in Int /\ y \in Int /\ x >= y /\ Size(a) < y BY <2>1, <2>5
    <3> HIDE DEF x, y
    <3>2. Size(a) <= x BY <3>1, <2>1
    <3> QED BY <3>2 DEF x
  <2> QED BY <2>6 DEF g
<1>3. PICK k : Rounds(a * Unit, d, m, k) /\ a * Unit \in Int /\ Size(a * Unit) = Size(a) * Unit
  BY <1>2, FractionRounds
<1> DEFINE z == a * Unit
<1>4. Rounds(z, d, m, k) /\ z \in Int /\ Size(z) = Size(a) * Unit BY <1>3
<1> HIDE DEF z
<1>5. m \in Int /\ Representable(m) BY <1>4, RoundsRepresentable DEF Representable
<1>6. P \in Nat /\ Representable(P) /\ Representable(-P)
  <2>1. FractionBits \in 0 .. Span /\ Unit = TwoTo[FractionBits] BY Widths, UnitIs
  <2>2. P = TwoTo[FractionBits] * p /\ -P = TwoTo[FractionBits] * (-p) BY <1>1, <2>1
  <2>3. p \in Int /\ -p \in Int /\ Size(p) <= p /\ Size(-p) <= p BY <1>1 DEF Size
  <2> QED BY <1>1, <2>1, <2>2, <2>3 DEF Representable
<1>7. z <= P * d /\ z >= (-P) * d
  <2> DEFINE x == Size(a) * Unit y == (p * d) * Unit
  <2>1. x <= y /\ x \in Int /\ y \in Int
    <3>1. Size(a) < p * d /\ Size(a) \in Nat /\ p * d \in Nat BY <1>1 DEF Size
    <3> DEFINE e == Size(a) f == p * d
    <3>2. e < f /\ e \in Nat /\ f \in Nat BY <3>1
    <3> HIDE DEF e, f
    <3>3. e * Unit <= f * Unit /\ e * Unit \in Int /\ f * Unit \in Int BY <3>2, <1>1
    <3> QED BY <3>3 DEF e, f
  <2>2. P * d = y /\ (-P) * d = -y
    <3> HIDE DEF p
    <3> QED BY <1>1
  <2> HIDE DEF x, y, P
  <2>3. Size(z) = x BY <1>4 DEF x
  <2> QED BY <2>1, <2>2, <2>3, <1>4 DEF Size
<1>8. m <= P /\ m >= -P
  <2>1. m <= P BY <1>4, <1>6, <1>7, RoundedKept
  <2> DEFINE Q == -P
  <2>2. Representable(Q) /\ z >= Q * d BY <1>6, <1>7
  <2> HIDE DEF Q, P
  <2>3. m >= Q BY <1>4, <2>2, RoundedKept
  <2> QED BY <2>1, <2>3 DEF Q
<1>9. ASSUME m % Unit = 0 PROVE FloatValue(m \div Unit, 1)
  <2> DEFINE w == m \div Unit
  <2>1. w \in Int /\ m = Unit * w
    <3> DEFINE r == m % Unit
    <3>1. w \in Int /\ m = Unit * w + r /\ r = 0 BY <1>1, <1>5, <1>9, DivIs
    <3> HIDE DEF w, r
    <3> QED BY <3>1, <1>1
  <2> HIDE DEF w
  <2>2. Size(w) <= p
    <3> SUFFICES ASSUME w >= p + 1 \/ w <= -(p + 1) PROVE FALSE BY <2>1, <1>1 DEF Size
    <3> HIDE DEF p
    <3>1. p * Unit \in Int /\ Unit * w \in Int BY <1>1, <2>1
    <3>2. w >= p + 1 => Unit * w >= p * Unit + Unit BY <1>1, <2>1
    <3>3. w <= -(p + 1) => Unit * w <= -(p * Unit) - Unit BY <1>1, <2>1
    <3> DEFINE x == Unit * w
    <3>4. x \in Int /\ m = x /\ (w >= p + 1 => x >= P + Unit) /\ (w <= -(p + 1) => x <= (-P) - Unit)
      BY <2>1, <3>1, <3>2, <3>3
    <3> HIDE DEF x, P
    <3> QED BY <3>4, <1>1, <1>6, <1>8
  <2>3. Whole(w) BY <2>1, <2>2, SmallWhole
  <2> QED BY <2>3 DEF FloatValue, w
<1>10. ASSUME m % Unit # 0 PROVE FloatValue(m, Unit)
  <2>1. m # P /\ m # -P
    <3>1. P = Unit * p /\ -P = Unit * (-p) /\ p \in Int /\ -p \in Int BY <1>1
    <3> DEFINE q == -p Q == -P
    <3>2. P = Unit * p /\ Q = Unit * q /\ p \in Int /\ q \in Int BY <3>1
    <3> HIDE DEF p, q, P, Q
    <3>3. \A e \in Int : m = Unit * e => FALSE BY <1>1, <1>5, <1>10, NoRemainder
    <3>4. m # P /\ m # Q BY <3>2, <3>3
    <3> QED BY <3>4 DEF Q
  <2> HIDE DEF P
  <2>2. Size(m) < P BY <2>1, <1>5, <1>6, <1>8 DEF Size
  <2> QED BY <2>2, <1>5, <1>10 DEF FloatValue, Fraction, P
<1> QED BY <1>5, <1>9, <1>10

LEMMA SomeFloat ==
  ASSUME NEW f \in Fractions
  PROVE  \E n, d : FloatNode(f[1], f[2]) = [int |-> FALSE, n |-> n, d |-> d] /\ FloatValue(n, d)
<1> DEFINE a == f[1] d == f[2] q == Quot(a, d) r == Rem(a, d) p == TwoTo[Precision] m == Rounded(a * Unit, d)
<1>1. a \in Int /\ d \in Nat \ {0} /\ ((d = 1 /\ Size(a) <= TwoTo[2 * IntBits]) \/ Size(a) < p * d)
  BY FractionsAssumption
<1>2. Divided(a, d, q, r) BY <1>1, QuotRem
<1>3. \/ r = 0 /\ FloatNode(a, d) = [int |-> FALSE, n |-> Nearest(q), d |-> 1]
      \/ r # 0 /\ m % Unit = 0 /\ FloatNode(a, d) = [int |-> FALSE, n |-> m \div Unit, d |-> 1]
      \/ r # 0 /\ m % Unit # 0 /\ FloatNode(a, d) = [int |-> FALSE, n |-> m, d |-> Unit]
  <2> DEFINE s == IF d < 0 THEN -1 ELSE 1
  <2> HIDE DEF a, d, q, r, m
  <2>1. s = 1 BY <1>1
  <2>2. s * a * Unit = a * Unit /\ s * d = d BY <2>1, <1>1, UnitIs
  <2>3. m = Rounded(s * a * Unit, s * d) BY <2>2, Zenon DEF m
  <2>4. s = IF d < 0 THEN -1 ELSE 1 OBVIOUS
  <2> HIDE DEF s
  <2> QED BY <2>3, <2>4, FloatNodeIs DEF q, r
<1>4. p \in Nat BY TwoToPositive, Widths
<1> HIDE DEF a, d, q, r, p, m
<1>5. q \in Int /\ r \in Int /\ a = d * q + r /\ Size(r) < Size(d) /\ Size(d) * Size(q) <= Size(a)
  BY <1>2 DEF Divided
<1>6. Size(d) = d BY <1>1 DEF Size
<1>7. CASE Size(a) < p * d
  <2>1. CASE r = 0
    <3>1. Size(q) < p BY <1>1, <1>4, <1>5, <1>6, <1>7, QuotBelow
    <3>2. Size(q) <= p /\ Size(q) \in Int BY <3>1, <1>4, <1>5 DEF Size
    <3>3. Nearest(q) = q BY <1>5, <3>2, SmallKept DEF p
    <3>4. FloatValue(q, 1) BY <1>5, <3>2, SmallWhole DEF FloatValue, p
    <3> QED BY <2>1, <1>3, <3>3, <3>4 DEF a, d
  <2>2. CASE r # 0
    <3>1. (m % Unit = 0 => FloatValue(m \div Unit, 1)) /\ (m % Unit # 0 => FloatValue(m, Unit))
      BY <1>1, <1>7, FractionFloat DEF p, m
    <3> QED BY <2>2, <1>3, <3>1 DEF a, d
  <2> QED BY <2>1, <2>2
<1>8. CASE d = 1 /\ Size(a) <= TwoTo[2 * IntBits]
  <2>1. r = 0 /\ q = a BY <1>1, <1>5, <1>6, <1>8 DEF Size
  <2>2. FloatValue(Nearest(a), 1) BY <1>1, <1>8, BigWhole DEF FloatValue
  <2> QED BY <1>3, <2>1, <2>2 DEF a, d
<1> QED BY <1>1, <1>7, <1>8

(* An integer and a float compare as the integer's rounding and the float. *)
LEMMA OrderWithFloat ==
  ASSUME NEW m \in Ints, NEW n, NEW d, FloatValue(n, d)
  PROVE  /\ Nearest(m) \in Int /\ m \in Int /\ n \in Int /\ d \in Int
         /\ (Nearest(m) * d < n => m * d < n) /\ (Nearest(m) * d > n => m * d > n)
<1> DEFINE k == Nearest(m) p == TwoTo[Precision]
<1>1. Roundable(m) /\ m \in Int /\ k \in Int /\ p \in Nat
  BY IntRange, NearestBounds, TwoToPositive, Widths
<1>2. n \in Int /\ d \in Nat \ {0} BY ValueIs
<1>3. CASE d = 1 /\ Roundable(n) /\ Representable(n)
  <2>1. (m >= n => k >= n) /\ (m <= n => k <= n) BY <1>1, <1>3, FloatKept
  <2> HIDE DEF k
  <2>2. k * d = k /\ m * d = m BY <1>1, <1>3
  <2>3. (k < n => m < n) /\ (k > n => m > n) BY <1>1, <1>2, <2>1
  <2> QED BY <1>1, <1>2, <2>2, <2>3 DEF k
<1>4. CASE Size(n) < p * d
  <2>1. k = m \/ (m > p /\ k >= p) \/ (m < -p /\ k <= -p)
    <3>1. Size(m) <= p \/ Size(m) >= p BY <1>1 DEF Size
    <3>2. Size(m) <= p => k = m BY <1>1, SmallKept
    <3>3. Size(m) >= p => Size(k) >= p /\ (m >= 0 => k >= 0) /\ (m <= 0 => k <= 0)
      BY <1>1, NearestBounds
    <3> HIDE DEF k, p
    <3> QED BY <1>1, <3>1, <3>2, <3>3 DEF Size
  <2>2. p * d \in Int /\ n < p * d /\ n > -(p * d)
    <3> DEFINE g == p * d
    <3>1. g \in Int /\ Size(n) < g BY <1>1, <1>2, <1>4
    <3> HIDE DEF g
    <3>2. n < g /\ n > -g BY <3>1, <1>2 DEF Size
    <3> QED BY <3>1, <3>2 DEF g
  <2> HIDE DEF k, p
  <2>3. CASE k = m BY <2>3, <1>1, <1>2 DEF k
  <2>4. CASE m > p /\ k >= p
    <3>1. m * d >= p * d /\ k * d >= p * d /\ m * d \in Int /\ k * d \in Int BY <1>1, <1>2, <2>4
    <3> DEFINE g == p * d h == m * d j == k * d
    <3>2. g \in Int /\ h \in Int /\ j \in Int /\ h >= g /\ j >= g /\ n < g BY <2>2, <3>1
    <3> HIDE DEF g, h, j
    <3>3. (j < n => h < n) /\ (j > n => h > n) BY <3>2, <1>2
    <3> QED BY <3>3, <1>1, <1>2 DEF h, j, k
  <2>5. CASE m < -p /\ k <= -p
    <3>1. m * d <= (-p) * d /\ k * d <= (-p) * d /\ m * d \in Int /\ k * d \in Int /\ (-p) * d = -(p * d)
      BY <1>1, <1>2, <2>5
    <3> DEFINE g == p * d h == m * d j == k * d
    <3>2. g \in Int /\ h \in Int /\ j \in Int /\ h <= -g /\ j <= -g /\ n > -g BY <2>2, <3>1
    <3> HIDE DEF g, h, j
    <3>3. (j < n => h < n) /\ (j > n => h > n) BY <3>2, <1>2
    <3> QED BY <3>3, <1>1, <1>2 DEF h, j, k
  <2> QED BY <2>1, <2>3, <2>4, <2>5
<1> QED BY <1>3, <1>4, ValueIs

LEMMA NumberIs ==
  ASSUME NEW x \in SomeNumbers
  PROVE  \/ \E n \in Ints : x = IntNode(n)
         \/ \E n, d : x = [int |-> FALSE, n |-> n, d |-> d] /\ FloatValue(n, d)
BY SomeFloat DEF SomeNumbers

LEMMA FloatIs ==
  ASSUME NEW n, NEW d
  PROVE  LET x == [int |-> FALSE, n |-> n, d |-> d] IN ~x.int /\ x.n = n /\ x.d = d /\ AsFloat(x) = x
BY DEF AsFloat

\* What the properties ask of a comparison.
Ordered(x, y) ==
  /\ Compare(x, y) < 0 => Below(x, y)
  /\ Compare(x, y) > 0 => Below(y, x)
  /\ (Compare(x, y) = 0 /\ x.int = y.int) => ~Below(x, y) /\ ~Below(y, x)

LEMMA IntsOrdered ==
  ASSUME NEW m \in Ints, NEW n \in Ints, m - n \in Ints PROVE Ordered(IntNode(m), IntNode(n))
<1> DEFINE x == IntNode(m) y == IntNode(n) g == TwoTo[IntBits - 1] k == m - n
<1>1. g \in Nat \ {0} /\ \A i : i \in Ints <=> i \in Int /\ -g <= i /\ i < g BY IntsIs
<1>2. x.int /\ x.n = m /\ x.d = 1 /\ y.int /\ y.n = n /\ y.d = 1 BY IntNodeIs
<1>3. k \in Int /\ -3 * g <= k /\ k < 3 * g /\ ~(k < -g) /\ ~(k >= g)
  <2> HIDE DEF g
  <2> QED BY <1>1
<1>4. Wrapped(k) = k
  <2> HIDE DEF k
  <2> QED BY <1>3, WrappedIs
<1> HIDE DEF x, y
<1>5. Compare(x, y) = m - n BY <1>2, <1>4, Zenon DEF Compare
<1>6. (Below(x, y) <=> m * 1 < n * 1) /\ (Below(y, x) <=> n * 1 < m * 1) /\ m \in Int /\ n \in Int
  BY <1>1, <1>2 DEF Below
<1>7. Ordered(x, y) BY <1>5, <1>6 DEF Ordered
<1> QED BY <1>7 DEF x, y

LEMMA FloatsOrdered ==
  ASSUME NEW m, NEW c, NEW n, NEW d, FloatValue(m, c), FloatValue(n, d)
  PROVE  Ordered([int |-> FALSE, n |-> m, d |-> c], [int |-> FALSE, n |-> n, d |-> d])
<1> DEFINE x == [int |-> FALSE, n |-> m, d |-> c] y == [int |-> FALSE, n |-> n, d |-> d]
           a == m * d b == n * c
<1>1. ~x.int /\ x.n = m /\ x.d = c /\ AsFloat(x) = x /\ ~y.int /\ y.n = n /\ y.d = d /\ AsFloat(y) = y
  BY FloatIs
<1>2. m \in Int /\ n \in Int /\ c \in Int /\ d \in Int BY ValueIs
<1> HIDE DEF x, y
<1>3. Compare(x, y) = x.n * y.d - y.n * x.d BY <1>1, Zenon DEF Compare
<1>4. Compare(x, y) = a - b /\ (Below(x, y) <=> a < b) /\ (Below(y, x) <=> b < a) /\ a \in Int /\ b \in Int
  BY <1>1, <1>2, <1>3 DEF Below
<1> HIDE DEF a, b
<1>5. Ordered(x, y) BY <1>4 DEF Ordered
<1> QED BY <1>5 DEF x, y

LEMMA MixedOrdered ==
  ASSUME NEW m \in Ints, NEW n, NEW d, FloatValue(n, d)
  PROVE  /\ Ordered(IntNode(m), [int |-> FALSE, n |-> n, d |-> d])
         /\ Ordered([int |-> FALSE, n |-> n, d |-> d], IntNode(m))
<1> DEFINE x == IntNode(m) y == [int |-> FALSE, n |-> n, d |-> d] k == Nearest(m)
           f == [int |-> FALSE, n |-> k, d |-> 1] a == m * d b == k * d
<1>1. x.int /\ x.n = m /\ x.d = 1 /\ ~y.int /\ y.n = n /\ y.d = d /\ AsFloat(y) = y
  BY IntNodeIs, FloatIs
<1>2. k \in Int /\ m \in Int /\ n \in Int /\ d \in Int /\ (b < n => a < n) /\ (b > n => a > n)
  BY OrderWithFloat
<1>3. AsFloat(x) = f BY <1>2, IntNodeIs, FloatNodeOne DEF AsFloat
<1>4. f.n = k /\ f.d = 1 OBVIOUS
<1> HIDE DEF x, y, f
<1>5. Compare(x, y) = f.n * y.d - y.n * f.d /\ Compare(y, x) = y.n * f.d - f.n * y.d
  BY <1>1, <1>3, Zenon DEF Compare
<1>6. /\ Compare(x, y) = b - n /\ Compare(y, x) = n - b /\ a \in Int /\ b \in Int
      /\ (Below(x, y) <=> a < n) /\ (Below(y, x) <=> n < a)
  BY <1>1, <1>2, <1>4, <1>5 DEF Below
<1>7. x.int # y.int BY <1>1
<1> HIDE DEF a, b, k
<1>8. /\ (Compare(x, y) < 0 => Below(x, y)) /\ (Compare(x, y) > 0 => Below(y, x))
      /\ (Compare(y, x) < 0 => Below(y, x)) /\ (Compare(y, x) > 0 => Below(x, y))
  BY <1>2, <1>6
<1>9. Ordered(x, y) /\ Ordered(y, x) BY <1>7, <1>8, Zenon DEF Ordered
<1> QED BY <1>9 DEF x, y

LEMMA OrderIsRight == OrderIsKept
<1> SUFFICES ASSUME NEW x \in SomeNumbers, NEW y \in SomeNumbers, ~(x.int /\ y.int /\ x.n - y.n \notin Ints)
             PROVE Ordered(x, y)
  BY Zenon DEF OrderIsKept, Ordered
<1>1. CASE (\E m \in Ints : x = IntNode(m)) /\ (\E n \in Ints : y = IntNode(n))
  <2>1. PICK m \in Ints, n \in Ints : x = IntNode(m) /\ y = IntNode(n) BY <1>1
  <2>2. m - n \in Ints BY <2>1, IntNodeIs
  <2> QED BY <2>1, <2>2, IntsOrdered
<1>2. CASE (\E m \in Ints : x = IntNode(m)) /\ (\E n, d : y = [int |-> FALSE, n |-> n, d |-> d] /\ FloatValue(n, d))
  BY <1>2, MixedOrdered, Zenon
<1>3. CASE (\E n, d : x = [int |-> FALSE, n |-> n, d |-> d] /\ FloatValue(n, d)) /\ (\E m \in Ints : y = IntNode(m))
  BY <1>3, MixedOrdered, Zenon
<1>4. CASE /\ \E n, d : x = [int |-> FALSE, n |-> n, d |-> d] /\ FloatValue(n, d)
           /\ \E n, d : y = [int |-> FALSE, n |-> n, d |-> d] /\ FloatValue(n, d)
  BY <1>4, FloatsOrdered, Zenon
<1> QED BY NumberIs, <1>1, <1>2, <1>3, <1>4
----
(* INT, ROUND and integer_arg. *)

\* q is n/d without its fraction.
Part0(n, d, q) == q \in Int /\ Size(q) * d <= Size(n) /\ Size(n) < (Size(q) + 1) * d

LEMMA QuotIs ==
  ASSUME NEW n \in Int, NEW d \in Nat \ {0} PROVE Part0(n, d, Quot(n, d))
<1> DEFINE q == Quot(n, d) r == Rem(n, d) s == Size(q) t == Size(r)
<1>1. Divided(n, d, q, r) BY QuotRem
<1> HIDE DEF q, r
<1>2. Size(d) = d BY DEF Size
<1>3. q \in Int /\ r \in Int /\ n = d * q + r /\ t < d /\ d * s <= Size(n) BY <1>1, <1>2 DEF Divided
<1>4. s \in Nat /\ t \in Nat /\ (q = s \/ q = -s) BY <1>3 DEF Size
<1>5. Size(n) < (s + 1) * d
  <2> HIDE DEF s
  <2> DEFINE g == d * q h == d * s
  <2>1. h \in Nat /\ (g = h \/ g = -h)
    <3>1. q = -s => d * q = -(d * s) BY <1>4
    <3> QED BY <1>4, <3>1
  <2>2. n = g + r /\ (s + 1) * d = h + d BY <1>3, <1>4
  <2> HIDE DEF g, h
  <2>3. Size(n) <= h + t BY <2>1, <2>2, <1>3 DEF Size
  <2>4. Size(n) \in Int BY DEF Size
  <2> HIDE DEF t
  <2> QED BY <2>1, <2>2, <2>3, <2>4, <1>3, <1>4
<1>6. s * d = d * s
  <2> HIDE DEF s
  <2> QED BY <1>4
<1> QED BY <1>3, <1>5, <1>6 DEF Part0, q

LEMMA IntPartIs ==
  ASSUME NEW n \in Int, NEW d \in Nat \ {0}, Nearest(Quot(n, d)) = Quot(n, d)
  PROVE  LET i == IntPart([int |-> FALSE, n |-> n, d |-> d])
         IN i.n = Quot(n, d) /\ i.d = 1 /\ (Size(n) <= MAXLOGOINT * d => i.int)
<1> DEFINE x == [int |-> FALSE, n |-> n, d |-> d] q == Quot(n, d) i == IntPart(x)
           out == Below(IntNode(MAXLOGOINT), x) \/ Below(x, IntNode(-MAXLOGOINT))
<1>1. q \in Int BY QuotIs DEF Part0
<1>2. i = IF out THEN FloatNode(q, 1) ELSE IntNode(q) BY FloatIs, Zenon DEF IntPart
<1>3. FloatNode(q, 1) = [int |-> FALSE, n |-> q, d |-> 1] BY <1>1, FloatNodeOne
<1>4. out <=> (MAXLOGOINT * d < n * 1 \/ n * 1 < (-MAXLOGOINT) * d) BY FloatIs, IntNodeIs DEF Below
<1>5. Size(n) <= MAXLOGOINT * d => ~out
  <2> DEFINE g == MAXLOGOINT * d
  <2>1. g \in Int /\ (-MAXLOGOINT) * d = -g /\ n * 1 = n BY Widths
  <2> HIDE DEF g, out
  <2>2. out <=> (g < n \/ n < -g) BY <1>4, <2>1 DEF g
  <2>3. Size(n) <= g => ~out BY <2>1, <2>2 DEF Size
  <2> QED BY <2>3 DEF g
<1> HIDE DEF out, i, q
<1>6. i.n = q /\ i.d = 1 /\ (~out => i.int) BY <1>2, <1>3, IntNodeIs
<1> QED BY <1>5, <1>6 DEF i, q

\* A quotient within the significant bits.
LEMMA QuotSmall ==
  ASSUME NEW n \in Int, NEW d \in Nat \ {0}, Size(n) < (TwoTo[Precision] + 1) * d
  PROVE  Nearest(Quot(n, d)) = Quot(n, d)
<1> DEFINE q == Quot(n, d) s == Size(q) p == TwoTo[Precision]
<1>1. q \in Int /\ s * d <= Size(n) BY QuotIs DEF Part0
<1>2. s \in Nat /\ p \in Nat /\ Size(n) \in Int BY <1>1, TwoToPositive, Widths DEF Size
<1> HIDE DEF q, s, p
<1>3. Size(n) < (p + 1) * d BY DEF p
<1>4. s <= p
  <2> SUFFICES ASSUME s >= p + 1 PROVE FALSE BY <1>2
  <2>1. s * d >= (p + 1) * d /\ s * d \in Int /\ (p + 1) * d \in Int BY <1>2
  <2> DEFINE g == s * d h == (p + 1) * d
  <2>2. g \in Int /\ h \in Int /\ g >= h /\ g <= Size(n) /\ Size(n) < h BY <2>1, <1>1, <1>3
  <2> HIDE DEF g, h
  <2> QED BY <2>2, <1>2
<1> QED BY <1>1, <1>4, SmallKept DEF q, s, p

LEMMA QuotKept ==
  ASSUME NEW n, NEW d, FloatValue(n, d) PROVE Nearest(Quot(n, d)) = Quot(n, d)
<1>1. CASE d = 1 BY <1>1, WholeFloat, FloatNodeOne
<1>2. CASE Size(n) < TwoTo[Precision] * d
  <2> DEFINE p == TwoTo[Precision]
  <2>1. n \in Int /\ d \in Nat \ {0} /\ p \in Nat BY ValueIs, TwoToPositive, Widths
  <2>2. (p + 1) * d = p * d + d /\ p * d \in Int /\ Size(n) \in Int BY <2>1 DEF Size
  <2>3. Size(n) < (p + 1) * d
    <3> DEFINE g == p * d
    <3>1. g \in Int /\ Size(n) < g /\ (p + 1) * d = g + d BY <2>2, <1>2
    <3> HIDE DEF g, p
    <3> QED BY <3>1, <2>1, <2>2
  <2> QED BY <2>1, <2>3, QuotSmall
<1> QED BY <1>1, <1>2, ValueIs

LEMMA QuotSigned ==
  ASSUME NEW m \in Int, NEW d \in Nat \ {0}
  PROVE  Quot(m, d) = IF m < 0 THEN -(Size(m) \div d) ELSE Size(m) \div d
<1> DEFINE b == Size(m) \div d
<1>1. Size(m) \in Int BY DEF Size
<1>2. b \in Int BY <1>1, DivIs
<1>3. Size(d) = d BY DEF Size
<1>4. Quot(m, d) = (IF (m < 0) = (d < 0) THEN 1 ELSE -1) * b BY <1>3 DEF Quot
<1> HIDE DEF b
<1>5. CASE m < 0
  <2>1. Quot(m, d) = (-1) * b BY <1>4, <1>5
  <2> QED BY <2>1, <1>2, <1>5 DEF b
<1>6. CASE ~(m < 0)
  <2>1. Quot(m, d) = 1 * b BY <1>4, <1>6
  <2> QED BY <2>1, <1>2, <1>6 DEF b
<1> QED BY <1>5, <1>6

(* ROUND in units.  The value z and a half, H, is rounded to a multiple of *)
(* the power u, and what the multiple has below a unit is dropped. *)

\* A multiple nearby is not below a multiple that the number reaches.
LEMMA Pinned ==
  ASSUME NEW u \in Nat \ {0}, NEW q \in Int, NEW c \in Int, NEW N \in Int, 2 * Size(u * q - N) <= u
  PROVE  (N >= u * c => q >= c) /\ (N <= u * c => q <= c) /\ (N >= u * c => u * q >= u * c) /\ (N <= u * c => u * q <= u * c)
<1> DEFINE a == u * q b == u * c
<1>1. a \in Int /\ b \in Int OBVIOUS
<1>2. q <= c - 1 => a <= b - u OBVIOUS
<1>3. q >= c + 1 => a >= b + u OBVIOUS
<1>4. (q >= c => a >= b) /\ (q <= c => a <= b) OBVIOUS
<1>5. 2 * Size(a - N) <= u OBVIOUS
<1> HIDE DEF a, b
<1>6. 2 * (a - N) <= u /\ 2 * (N - a) <= u BY <1>1, <1>5 DEF Size
<1>7. (N >= b => q >= c) /\ (N <= b => q <= c) BY <1>1, <1>2, <1>3, <1>6
<1>8. (N >= b => a >= b) /\ (N <= b => a <= b) BY <1>4, <1>7
<1> QED BY <1>7, <1>8 DEF a, b

\* The quotient, from bounds.
LEMMA QuotientOf ==
  ASSUME NEW x \in Int, NEW U \in Nat \ {0}, NEW k \in Int, U * k <= x, x < U * k + U
  PROVE  x \div U = k
<1> DEFINE r == x - U * k g == U * k
<1>1. g \in Int OBVIOUS
<1>2. r \in 0 .. U - 1 /\ x = U * k + r
  <2>1. r = x - g /\ g <= x /\ x < g + U OBVIOUS
  <2> HIDE DEF g, r
  <2>2. r \in 0 .. U - 1 /\ x = g + r BY <1>1, <2>1
  <2> QED BY <2>2 DEF g
<1> HIDE DEF r
<1>3. (U * k + r) \div U = k BY <1>2, ModIs
<1> QED BY <1>2, <1>3

\* What ROUND may be wrong by one for, of the numbers alone: the value just
\* below a half, and an odd integer with no bit to spare.
JustBelow(z, h, U) == z * (4 * h) = (2 * h - 1) * U
OddAndFull(z, h, U) == \E w \in Int : z = U * w /\ w % 2 = 1 /\ h * U <= z

\* z is a multiple of the power, or has all its bits just below the next.
FewBits(z, H, U, u, h) ==
  \/ \E s \in Int : z = u * s
  \/ /\ z < h * u /\ h * u <= z + H
     /\ \/ \E b \in Int : h * u = U * b
        \/ 2 * (h * u) <= H
        \/ h * u = H /\ \E g \in Nat \ {0} : u = 2 * g /\ ((\E s \in Int : z = g * s) \/ 2 * z <= H)
MayMiss(z, h, U, W) == W \in Int /\ (2 * Size(W * U - z) <= U \/ (2 * Size(W * U - z) <= 2 * U /\ JustBelow(z, h, U)))

\* The power is below a unit.
LEMMA FineHalf ==
  ASSUME NEW z \in Nat, NEW H \in Nat \ {0}, NEW U, U = 2 * H, NEW u \in Nat \ {0}, NEW v \in Nat \ {0}, H = u * v,
         NEW q \in Int, 2 * Size(u * q - (z + H)) <= u, NEW h \in Nat, h >= 4,
         FewBits(z, H, U, u, h),
         NEW W, W = (u * q) \div U
  PROVE  MayMiss(z, h, U, W)
<1> DEFINE N == z + H k == N \div U r == N % U M == u * q A == U * k
<1>1. N \in Int /\ U \in Nat \ {0} /\ M \in Int OBVIOUS
<1>2. k \in Int /\ r \in 0 .. U - 1 /\ N = U * k + r
  <2> HIDE DEF N
  <2> QED BY <1>1, DivIs
<1> HIDE DEF k, r
<1>3. A \in Int /\ N = A + r BY <1>1, <1>2
<1>4. M >= A /\ M <= A + U
  <2> DEFINE c == (2 * v) * k d == (2 * v) * (k + 1)
  <2>1. U = u * (2 * v) OBVIOUS
  <2>2. A = u * c /\ A + U = u * d /\ c \in Int /\ d \in Int
    <3>1. c \in Int /\ d \in Int BY <1>2
    <3>2. (u * (2 * v)) * k = u * ((2 * v) * k) BY <1>2
    <3>3. (u * (2 * v)) * k + u * (2 * v) = u * ((2 * v) * (k + 1)) BY <1>2
    <3> QED BY <2>1, <3>1, <3>2, <3>3, Zenon
  <2> HIDE DEF c, d, A, N
  <2>3. 2 * Size(u * q - N) <= u BY DEF N
  <2>4. N >= u * c => u * q >= u * c BY <2>2, <2>3, <1>1, Pinned
  <2>5. N <= u * d => u * q <= u * d BY <2>2, <2>3, <1>1, Pinned
  <2>6. N >= A /\ N <= A + U BY <1>1, <1>2, <1>3
  <2> QED BY <2>2, <2>4, <2>5, <2>6
<1>5. 2 * Size(M - N) <= u OBVIOUS
<1>6. CASE M < A + U
  <2>1. W = k
    <3>1. W = M \div U OBVIOUS
    <3> HIDE DEF M
    <3> QED BY <3>1, <1>1, <1>2, <1>4, <1>6, QuotientOf
  <2>2. W * U = A BY <2>1, <1>1, <1>2
  <2> DEFINE B == W * U
  <2>3. B = A /\ N = z + H BY <2>2
  <2> HIDE DEF A, B, N
  <2>4. 2 * Size(B - z) <= U BY <2>3, <1>1, <1>2, <1>3 DEF Size
  <2> QED BY <2>1, <2>4, <1>2 DEF B, MayMiss
<1>7. CASE M = A + U
  <2>1. W = k + 1
    <3>1. U * (k + 1) = A + U /\ k + 1 \in Int BY <1>1, <1>2
    <3> DEFINE l == k + 1 x == U * (k + 1)
    <3>2. U * l <= M /\ M < U * l + U /\ l \in Int
      <4>1. x = A + U /\ l \in Int BY <3>1
      <4> HIDE DEF M, A
      <4>2. x <= M /\ M < x + U BY <4>1, <1>1, <1>3, <1>7
      <4> QED BY <4>1, <4>2
    <3>4. W = M \div U OBVIOUS
    <3> HIDE DEF l, M
    <3>3. M \div U = l BY <3>2, <1>1, QuotientOf
    <3> QED BY <3>3, <3>4 DEF l
  <2>2. 2 * (U - r) <= u
    <3> HIDE DEF M, A, N
    <3> QED BY <1>1, <1>2, <1>3, <1>5, <1>7 DEF Size
  <2>3. u <= H BY SMT
  <2>4. ASSUME NEW s \in Int, z = u * s PROVE FALSE
    <3> DEFINE c == s + v
    <3>1. c \in Int /\ N = u * c BY <2>4
    <3>2. N >= u * c /\ N <= u * c
      <4> DEFINE x == u * c
      <4>1. x \in Int /\ N = x BY <3>1
      <4> HIDE DEF x, N
      <4>2. N >= x /\ N <= x BY <4>1
      <4> QED BY <4>2 DEF x
    <3>3. 2 * Size(u * q - N) <= u OBVIOUS
    <3>4. c \in Int /\ N \in Int BY <3>1
    <3> HIDE DEF c, N, M, A
    <3>5. (N >= u * c => q >= c) /\ (N <= u * c => q <= c) BY <3>3, <3>4, Pinned
    <3>6. q = c BY <3>2, <3>4, <3>5
    <3>7. M = N BY <3>1, <3>6 DEF M
    <3> QED BY <3>7, <1>1, <1>2, <1>3, <1>7
  <2> DEFINE B == h * u
  <2>5. B \in Int /\ (z < B => B >= 1) BY SMT
  <2>6. ASSUME z < B, B <= N, NEW b \in Int, B = U * b PROVE FALSE
    <3>1. k >= b
      <4> SUFFICES ASSUME k <= b - 1 PROVE FALSE BY <1>2
      <4>1. A <= U * b - U BY <1>1, <1>2
      <4> HIDE DEF A, B, N
      <4>2. U * b \in Int BY <1>1
      <4> DEFINE x == U * b
      <4> HIDE DEF x
      <4>3. A <= x - U /\ x \in Int /\ B = x /\ B <= N BY <4>1, <4>2, <2>6 DEF x
      <4> QED BY <4>3, <1>1, <1>2, <1>3
    <3>2. A >= U * b BY <3>1, <1>1, <1>2
    <3>3. A >= B BY <3>2, <2>6
    <3>4. N = z + H OBVIOUS
    <3>5. 2 * (U - r) <= u /\ u <= H BY <2>2, <2>3
    <3>6. z < B BY <2>6
    <3> HIDE DEF A, B, N
    <3> QED BY <3>3, <3>4, <3>5, <3>6, <2>5, <1>1, <1>2, <1>3
  <2>7. ASSUME z < B, B <= H PROVE k = 0 /\ r = z + H
    <3>1. N = z + H OBVIOUS
    <3>2. N \in 0 .. U - 1
      <4> HIDE DEF N, B
      <4> QED BY <2>5, <2>7, <3>1
    <3>3. U * 0 = 0 OBVIOUS
    <3> DEFINE o == 0
    <3>4. U * o <= N /\ N < U * o + U /\ o \in Int BY <3>2, <3>3
    <3> HIDE DEF N, o
    <3>5. N \div U = o BY <3>4, <1>1, QuotientOf
    <3>6. k = 0 BY <3>5 DEF k, o
    <3>7. A = 0 BY <3>6
    <3> HIDE DEF A
    <3> QED BY <3>1, <3>6, <3>7, <1>2, <1>3
  <2>8. ASSUME z < B, 2 * B <= H PROVE FALSE
    <3>1. r = z + H
      <4>1. B <= H
        <5> HIDE DEF B
        <5> QED BY <2>5, <2>8
      <4> QED BY <4>1, <2>7, <2>8
    <3> HIDE DEF B
    <3> QED BY <3>1, <2>2, <2>3, <2>5, <2>8
  <2>9. ASSUME z < B, B = H, NEW g \in Nat \ {0}, u = 2 * g, (\E s \in Int : z = g * s) \/ 2 * z <= H
        PROVE  2 * Size(W * U - z) <= 2 * U /\ JustBelow(z, h, U)
    <3>1. k = 0 /\ r = z + H
      <4> HIDE DEF B
      <4> QED BY <2>7, <2>9
    <3>2. 2 * (H - z) <= u BY <3>1, <2>2
    <3>3. CASE 2 * z <= H
      <4>1. H >= 4 * u BY <2>9
      <4> QED BY <4>1, <3>2, <3>3
    <3>4. ASSUME NEW s \in Int, z = g * s PROVE JustBelow(z, h, U)
      <4>1. H = g * (2 * h) BY <2>9
      <4>2. g * (2 * h - s) = H - z BY <4>1, <3>4
      <4>3. H - z >= 1 /\ H - z <= g BY <3>2, <2>9
      <4> DEFINE e == 2 * h - s
      <4>4. e \in Int /\ g * e >= 1 /\ g * e <= g BY <4>2, <4>3
      <4> HIDE DEF e
      <4>5. e >= 1
        <5> SUFFICES ASSUME e <= 0 PROVE FALSE BY <4>4
        <5>1. g * e <= 0 BY <4>4
        <5>2. g * e \in Int BY <4>4
        <5> QED BY <5>1, <5>2, <4>4
      <4>6. e <= 1
        <5> SUFFICES ASSUME e >= 2 PROVE FALSE BY <4>4
        <5>1. g * e >= 2 * g /\ g * e \in Int BY <4>4
        <5> QED BY <5>1, <4>4
      <4>7. s = 2 * h - 1 BY <4>4, <4>5, <4>6 DEF e
      <4>8. (g * (2 * h - 1)) * (4 * h) = (2 * h - 1) * (2 * (g * (2 * h)))
        <5>1. \A a, x \in Int : (a * (2 * x - 1)) * (4 * x) = (2 * x - 1) * (2 * (a * (2 * x))) OBVIOUS
        <5> QED BY <5>1
      <4>9. z * (4 * h) = (2 * h - 1) * U BY <4>1, <4>7, <4>8, <3>4
      <4> QED BY <4>9 DEF JustBelow
    <3>5. W * U = U BY <2>1, <3>1, <1>1
    <3>6. 2 * Size(W * U - z) <= 2 * U
      <4>1. z < H
        <5> HIDE DEF B
        <5> QED BY <2>9
      <4>2. Size(U - z) <= U BY <4>1, <1>1 DEF Size
      <4>3. Size(U - z) \in Int BY <1>1 DEF Size
      <4> QED BY <3>5, <4>2, <4>3
    <3> QED BY <3>3, <3>4, <3>6, <2>9
  <2>10. z < B /\ B <= N /\ ((\E b \in Int : B = U * b) \/ 2 * B <= H
          \/ (B = H /\ \E g \in Nat \ {0} : u = 2 * g /\ ((\E s \in Int : z = g * s) \/ 2 * z <= H)))
    BY <2>4 DEF FewBits
  <2>11. 2 * Size(W * U - z) <= 2 * U /\ JustBelow(z, h, U)
    <3> HIDE DEF B, N
    <3> QED BY <2>6, <2>8, <2>9, <2>10
  <2> QED BY <2>1, <2>11, <1>2 DEF MayMiss
<1>8. M < A + U \/ M = A + U
  <2> HIDE DEF M, A
  <2> QED BY <1>1, <1>3, <1>4
<1> QED BY <1>6, <1>7, <1>8

\* The power is the unit.
LEMMA EvenHalf ==
  ASSUME NEW z \in Nat, NEW H \in Nat \ {0}, NEW U, U = 2 * H, NEW q \in Int, 2 * Size(U * q - (z + H)) <= U,
         2 * Size(U * q - (z + H)) = U => q % 2 = 0, NEW h \in Nat, h * U <= z + H,
         (\E w \in Int : z = U * w) \/ z < h * U
  PROVE  2 * Size(q * U - z) <= U \/ (2 * Size(q * U - z) <= 2 * U /\ OddAndFull(z, h, U))
<1> DEFINE M == U * q B == h * U
<1>1. M \in Int /\ B \in Int /\ U \in Nat \ {0} /\ q * U = M BY SMT
<1>2. 2 * (M - (z + H)) <= U /\ 2 * ((z + H) - M) <= U
  <2>1. 2 * Size(M - (z + H)) <= U OBVIOUS
  <2> HIDE DEF M, B
  <2> QED BY <2>1, <1>1 DEF Size
<1>3. ASSUME NEW w \in Int, z = U * w PROVE 2 * Size(M - z) <= U \/ (2 * Size(M - z) <= 2 * U /\ OddAndFull(z, h, U))
  <2> DEFINE x == U * (q - w)
  <2>1. x = M - z /\ q - w \in Int BY <1>3
  <2>2. 0 <= x /\ x <= U
    <3> HIDE DEF x, M, B
    <3> QED BY <2>1, <1>1, <1>2
  <2>3. q - w \in {0, 1}
    <3> DEFINE e == q - w
    <3>1. e \in Int /\ 0 <= U * e /\ U * e <= U BY <2>1, <2>2
    <3> HIDE DEF e, x, M, B
    <3>2. e >= 0
      <4> SUFFICES ASSUME e <= -1 PROVE FALSE BY <3>1
      <4>1. U * e <= -U /\ U * e \in Int BY <3>1, <1>1
      <4> QED BY <4>1, <3>1, <1>1
    <3>3. e <= 1
      <4> SUFFICES ASSUME e >= 2 PROVE FALSE BY <3>1
      <4>1. U * e >= 2 * U /\ U * e \in Int BY <3>1, <1>1
      <4> QED BY <4>1, <3>1, <1>1
    <3>4. e \in {0, 1} BY <3>1, <3>2, <3>3
    <3> QED BY <3>4 DEF e
  <2>4. CASE q = w
    <3>1. M - z = 0 BY <1>3, <2>4, <1>1
    <3>2. Size(0) = 0 BY DEF Size
    <3> QED BY <3>1, <3>2, <1>1
  <2>5. CASE q = w + 1
    <3>1. M = z + U
      <4>1. U * (w + 1) = U * w + U BY <1>1
      <4> QED BY <4>1, <1>3, <2>5
    <3>2. 2 * Size(M - (z + H)) = U
      <4> HIDE DEF M, B
      <4> QED BY <3>1, <1>1 DEF Size
    <3>3. q % 2 = 0 BY <3>2
    <3>4. w % 2 = 1 BY <3>3, <2>5
    <3>5. B <= z
      <4>1. B <= z + H OBVIOUS
      <4>2. B = U * h /\ U * h \in Int /\ U * w \in Int BY <1>1
      <4> SUFFICES ASSUME h >= w + 1 PROVE FALSE
        <5>1. h <= w => U * h <= U * w BY <1>1
        <5>2. h <= w \/ h >= w + 1 OBVIOUS
        <5> HIDE DEF B, M
        <5> QED BY <5>1, <5>2, <4>2, <1>3
      <4>3. U * h >= U * (w + 1) /\ U * (w + 1) = U * w + U BY <1>1
      <4> DEFINE a == U * h b == U * w c == U * (w + 1)
      <4>4. a >= b + U /\ a \in Int /\ b \in Int /\ a <= z + H /\ z = b
        <5>1. a >= c /\ c = b + U BY <4>3
        <5> HIDE DEF c
        <5>2. a >= b + U BY <5>1
        <5> QED BY <5>2, <4>1, <4>2, <1>3
      <4> HIDE DEF a, b, B, M
      <4> QED BY <4>4
    <3>6. Size(M - z) = U BY <3>1, <1>1 DEF Size
    <3>7. OddAndFull(z, h, U) BY <1>3, <3>4, <3>5 DEF OddAndFull
    <3> HIDE DEF M, B
    <3> QED BY <3>6, <3>7, <1>1
  <2> QED BY <2>3, <2>4, <2>5
<1>4. ASSUME z < B PROVE 2 * Size(M - z) <= U
  <2>1. B <= z + H OBVIOUS
  <2>2. q = h
    <3> DEFINE x == U * (q - h)
    <3>1. x = M - B /\ q - h \in Int BY <1>1
    <3>2. -U < x /\ x < U
      <4> HIDE DEF x, M, B
      <4> QED BY <3>1, <1>1, <1>2, <1>4, <2>1
    <3> DEFINE e == q - h
    <3>3. e \in Int /\ -U < U * e /\ U * e < U BY <3>1, <3>2
    <3> HIDE DEF e, x, M, B
    <3>4. e > -1
      <4> SUFFICES ASSUME e <= -1 PROVE FALSE BY <3>3
      <4>1. U * e <= -U /\ U * e \in Int BY <3>3, <1>1
      <4> QED BY <4>1, <3>3, <1>1
    <3>5. e < 1
      <4> SUFFICES ASSUME e >= 1 PROVE FALSE BY <3>3
      <4>1. U * e >= U /\ U * e \in Int BY <3>3, <1>1
      <4> QED BY <4>1, <3>3, <1>1
    <3>6. e = 0 BY <3>3, <3>4, <3>5
    <3> QED BY <3>6 DEF e
  <2>3. M = B BY <2>2, <1>1
  <2> HIDE DEF M, B
  <2> QED BY <2>1, <2>3, <1>1, <1>4 DEF Size
<1>5. q * U - z = M - z BY <1>1
<1>6. (\E w \in Int : z = U * w) \/ z < B OBVIOUS
<1> HIDE DEF M, B
<1> QED BY <1>3, <1>4, <1>5, <1>6

\* The power is above the unit.
Jumps(z, H, u, B) == (\E s \in Int : z = u * s) \/ (z < B /\ B <= z + H)

Coarse(z, H, U, u, v, q, w, h, B) ==
  /\ z \in Nat /\ H \in Nat \ {0} /\ U = 2 * H /\ v \in Nat /\ v >= 2 /\ u = U * v
  /\ q \in Int /\ 2 * Size(u * q - (z + H)) <= u /\ w \in Int /\ z = U * w /\ h \in Nat /\ B = h * u

LEMMA CoarseHalf ==
  ASSUME NEW z, NEW H, NEW U, NEW u, NEW v, NEW q, NEW w, NEW h, NEW B,
         Coarse(z, H, U, u, v, q, w, h, B), Jumps(z, H, u, B)
  PROVE  u * q = z
<1>0. /\ z \in Nat /\ H \in Nat \ {0} /\ U = 2 * H /\ v \in Nat /\ v >= 2 /\ u = U * v
      /\ q \in Int /\ 2 * Size(u * q - (z + H)) <= u /\ w \in Int /\ z = U * w /\ h \in Nat /\ B = h * u
  BY DEF Coarse
<1> USE <1>0
<1>1. U \in Nat \ {0} /\ u \in Nat \ {0} /\ u >= 2 * U
  <2>1. U \in Nat \ {0} OBVIOUS
  <2>2. U * v >= U * 2 /\ U * v \in Nat BY <2>1
  <2> QED BY <2>1, <2>2
<1>2. ASSUME NEW s \in Int, z = u * s PROVE u * q = z
  <2> DEFINE M == u * q x == u * (q - s)
  <2>1. x = M - z /\ M \in Int /\ q - s \in Int BY <1>1, <1>2
  <2>2. 2 * (M - (z + H)) <= u /\ 2 * ((z + H) - M) <= u
    <3>1. 2 * Size(M - (z + H)) <= u OBVIOUS
    <3> HIDE DEF M, x
    <3> QED BY <3>1, <2>1 DEF Size
  <2>3. -u < x /\ x < u
    <3> HIDE DEF M, x
    <3> QED BY <2>1, <2>2, <1>1
  <2> DEFINE e == q - s
  <2>4. e \in Int /\ -u < u * e /\ u * e < u BY <2>1, <2>3
  <2> HIDE DEF e, x, M
  <2>5. e > -1
    <3> SUFFICES ASSUME e <= -1 PROVE FALSE BY <2>4
    <3>1. u * e <= -u /\ u * e \in Int BY <2>4, <1>1
    <3> QED BY <3>1, <2>4, <1>1
  <2>6. e < 1
    <3> SUFFICES ASSUME e >= 1 PROVE FALSE BY <2>4
    <3>1. u * e >= u /\ u * e \in Int BY <2>4, <1>1
    <3> QED BY <3>1, <2>4, <1>1
  <2>7. e = 0 BY <2>4, <2>5, <2>6
  <2>8. q = s BY <2>7 DEF e
  <2> QED BY <2>8, <1>2
<1>3. ASSUME z < h * u, h * u <= z + H PROVE FALSE
  <2> DEFINE c == v * h a == U * w b == U * c
  <2>1. h * u = b
    <3>1. h * (U * v) = U * (v * h) BY <1>1
    <3> QED BY <3>1
  <2>2. c \in Int /\ a \in Int /\ b \in Int
    <3>1. c \in Int OBVIOUS
    <3> HIDE DEF c
    <3> QED BY <3>1, <1>1
  <2> HIDE DEF c
  <2>3. w <= c - 1 => U * w <= U * c - U BY <1>1, <2>2
  <2>4. w >= c => U * w >= U * c BY <1>1, <2>2
  <2>5. (w <= c - 1 => a <= b - U) /\ (w >= c => a >= b) /\ a < b /\ b <= a + H
    BY <2>1, <2>3, <2>4, <1>3
  <2> HIDE DEF a, b
  <2> QED BY <2>2, <2>5
<1> QED BY <1>2, <1>3 DEF Jumps

\* N is rounded to M, q times the power u.
RoundedTo(N, M, k, u, q) ==
  /\ k \in 0 .. Span /\ u = TwoTo[k] /\ q \in Int /\ M = u * q
  /\ 2 * Size(M - N) <= u /\ (2 * Size(M - N) = u => q % 2 = 0)
  /\ k = 0 \/ TwoTo[Precision] * u <= 2 * Size(N)

LEMMA RoundedToIs ==
  ASSUME NEW N \in Int, NEW c \in Nat \ {0}, NEW M, NEW k, Rounds(N * c, c, M, k)
  PROVE  \E u, q : RoundedTo(N, M, k, u, q)
<1> DEFINE n == N * c
<1>1. n \in Int OBVIOUS
<1>2. PICK p, h, u, q : Powers(p, h, u, k) /\ Near(n, c, M, k, p, u, q) /\ M \in Int /\ k \in 0 .. Span
  BY <1>1, RoundsIs
<1>3. /\ p \in Nat /\ u \in Nat /\ u >= 1 /\ u = TwoTo[k] /\ p = TwoTo[Precision] /\ M = u * q /\ q \in Int
      /\ 2 * Size(M * c - n) <= u * c /\ (2 * Size(M * c - n) = u * c => q % 2 = 0)
      /\ (k = 0 \/ p * u * c <= 2 * Size(n))
  BY <1>2 DEF Powers, Near
<1>4. Size(c) = c /\ c \in Int BY DEF Size
<1> DEFINE e == Size(M - N) s == Size(N)
<1>5. Size(M * c - n) = e * c /\ Size(n) = s * c
  <2>1. M * c - n = (M - N) * c /\ M - N \in Int BY <1>2
  <2> DEFINE x == M - N
  <2>2. x \in Int /\ M * c - n = x * c BY <2>1
  <2> HIDE DEF x, n
  <2>3. Size(x * c) = Size(x) * Size(c) BY <2>2, <1>4, SizeOfProduct
  <2>4. Size(N * c) = Size(N) * Size(c) BY <1>4, SizeOfProduct
  <2> QED BY <2>2, <2>3, <2>4, <1>4 DEF x, n
<1>6. e \in Nat /\ s \in Nat BY <1>2 DEF Size
<1> HIDE DEF n, e, s
<1>7. 2 * e <= u /\ (2 * e = u => 2 * (e * c) = u * c)
  <2>1. 2 * (e * c) <= u * c BY <1>3, <1>5
  <2>2. 2 * e >= u + 1 => (2 * e) * c >= u * c + c BY <1>3, <1>6
  <2>3. (2 * e) * c = 2 * (e * c) BY <1>6
  <2>4. e * c \in Int /\ u * c \in Int BY <1>3, <1>6
  <2> DEFINE a == e * c b == u * c
  <2>5. a \in Int /\ b \in Int /\ 2 * a <= b /\ (2 * e >= u + 1 => 2 * a >= b + c) /\ (2 * e) * c = 2 * a
    BY <2>1, <2>2, <2>3, <2>4
  <2>6. 2 * e = u => (2 * e) * c = u * c OBVIOUS
  <2> HIDE DEF a, b
  <2>7. 2 * e <= u BY <2>5, <1>3, <1>6
  <2>8. 2 * e = u => 2 * a = b BY <2>5, <2>6 DEF b
  <2> QED BY <2>7, <2>8 DEF a, b
<1>8. k = 0 \/ p * u <= 2 * s
  <2> SUFFICES ASSUME k # 0 PROVE p * u <= 2 * s OBVIOUS
  <2> DEFINE a == p * u
  <2>1. a * c <= 2 * (s * c) /\ a \in Nat BY <1>3, <1>5
  <2> HIDE DEF a
  <2>2. a >= 2 * s + 1 => a * c >= (2 * s + 1) * c BY <2>1, <1>6
  <2>3. (2 * s + 1) * c = 2 * (s * c) + c /\ s * c \in Int /\ a * c \in Int BY <2>1, <1>6
  <2> DEFINE x == a * c y == s * c
  <2>4. x \in Int /\ y \in Int /\ x <= 2 * y /\ (a >= 2 * s + 1 => x >= 2 * y + c)
    <3>1. (2 * s + 1) * c = 2 * y + c BY <2>3
    <3> QED BY <2>1, <2>2, <2>3, <3>1
  <2> HIDE DEF x, y
  <2>5. a <= 2 * s BY <2>1, <2>4, <1>6
  <2> QED BY <2>5 DEF a
<1>9. 2 * Size(M - N) <= u /\ (2 * Size(M - N) = u => q % 2 = 0) BY <1>3, <1>5, <1>7 DEF e
<1>10. k = 0 \/ TwoTo[Precision] * u <= 2 * Size(N) BY <1>3, <1>8 DEF s
<1>11. RoundedTo(N, M, k, u, q) BY <1>2, <1>3, <1>9, <1>10 DEF RoundedTo
<1> QED BY <1>11

LEMMA RoundedOpposite ==
  ASSUME NEW N \in Int, NEW M \in Int, NEW k, NEW u \in Int, NEW q, RoundedTo(N, M, k, u, q)
  PROVE  RoundedTo(-N, -M, k, u, -q)
<1>1. q \in Int /\ M = u * q /\ 2 * Size(M - N) <= u /\ (2 * Size(M - N) = u => q % 2 = 0) BY DEF RoundedTo
<1>2. -M = u * (-q) BY <1>1
<1>3. Size((-M) - (-N)) = Size(M - N) /\ Size(-N) = Size(N) BY DEF Size
<1>4. q % 2 = 0 => (-q) % 2 = 0 BY <1>1
<1>5. -q \in Int BY <1>1
<1> QED BY <1>1, <1>2, <1>3, <1>4, <1>5 DEF RoundedTo

\* The result W for a value of z units.
HalfRight(z, W) ==
  /\ W \in Int
  /\ \/ 2 * Size(W * Unit - z) <= Unit
     \/ /\ 2 * Size(W * Unit - z) <= 2 * Unit
        /\ JustBelow(z, TwoTo[Precision - 1], Unit) \/ OddAndFull(z, TwoTo[Precision - 1], Unit)

LEMMA HalfUpFine ==
  ASSUME NEW z \in Nat, Representable(z), NEW H, H = TwoTo[FractionBits - 1],
         NEW M, NEW k, NEW u, NEW q, RoundedTo(z + H, M, k, u, q), k < FractionBits
  PROVE  HalfRight(z, M \div Unit)
<1> DEFINE h == TwoTo[Precision - 1] p == TwoTo[Precision] F == FractionBits U == Unit
<1>1. U = 2 * H /\ H \in Nat \ {0} BY UnitIs
<1>2. k \in 0 .. Span /\ u = TwoTo[k] /\ q \in Int /\ M = u * q /\ 2 * Size(M - (z + H)) <= u
      /\ (k = 0 \/ p * u <= 2 * Size(z + H))
  BY DEF RoundedTo
<1>3. p = 2 * h /\ h \in Nat /\ h >= 4 /\ u \in Nat \ {0} /\ h = TwoTo[Precision - 1] /\ p = TwoTo[Precision]
  BY <1>2, PowersAre DEF Powers
<1> DEFINE v == TwoTo[(F - 1) - k]
<1>4. H = u * v /\ v \in Nat \ {0}
  <2> DEFINE i == (F - 1) - k
  <2>1. i \in Nat /\ k \in Nat /\ k + i = F - 1 /\ k + i <= Reach /\ i \in 0 .. Reach BY <1>2, Widths
  <2> HIDE DEF i
  <2>2. TwoTo[k + i] = TwoTo[k] * TwoTo[i] BY <2>1, TwoToAdds
  <2>3. TwoTo[i] \in Nat \ {0} BY <2>1, TwoToPositive
  <2> QED BY <2>1, <2>2, <2>3, <1>2 DEF i
<1>5. Size(z) = z /\ Size(z + H) = z + H
  <2>1. z + H \in Nat BY <1>1
  <2> QED BY <2>1, <1>1 DEF Size
<1>6. (\E s \in Int : z = u * s) \/ (k # 0 /\ 2 * z <= p * u) BY <1>2, <1>5, RepresentableAt
<1>7. ASSUME k # 0, 2 * z <= p * u, ~(\E s \in Int : z = u * s) PROVE z < h * u /\ h * u <= z + H
  <2>1. p * u = 2 * (h * u) /\ h * u \in Int /\ h * u = u * h BY <1>3
  <2>2. p * u <= 2 * (z + H) BY <1>2, <1>5, <1>7
  <2> DEFINE B == h * u
  <2>3. B \in Int /\ 2 * z <= 2 * B /\ 2 * B <= 2 * (z + H) BY <2>1, <2>2, <1>7
  <2>4. z # B BY <2>1, <1>3, <1>7
  <2> HIDE DEF B
  <2>5. z < B /\ B <= z + H BY <2>3, <2>4, <1>1
  <2> QED BY <2>5 DEF B
<1>8. ASSUME k # 0
      PROVE  \/ \E b \in Int : h * u = U * b
             \/ 2 * (h * u) <= H
             \/ h * u = H /\ \E g \in Nat \ {0} : u = 2 * g /\ ((\E s \in Int : z = g * s) \/ 2 * z <= H)
  <2> DEFINE i == Precision - 1
  <2>1. i \in Nat /\ k \in Nat /\ i + k <= Reach /\ i + k = (Precision - 1) + k /\ F \in Nat /\ F <= Reach /\ k - 1 \in 0 .. Span
        /\ F - 1 \in Nat
    BY <1>2, <1>8, Widths
  <2> HIDE DEF i, F
  <2>2. TwoTo[i + k] = TwoTo[i] * TwoTo[k] BY <2>1, TwoToAdds
  <2>3. h * u = TwoTo[i + k] BY <2>2, <1>2 DEF i
  <2>4. CASE i + k >= F
    <3> DEFINE j == (i + k) - F
    <3>1. j \in Nat /\ F + j = i + k BY <2>1, <2>4
    <3> HIDE DEF j
    <3>2. TwoTo[F + j] = TwoTo[F] * TwoTo[j] BY <2>1, <3>1, TwoToAdds
    <3>3. TwoTo[j] \in Int
      <4>1. j \in 0 .. Reach BY <2>1, <3>1, Widths
      <4> QED BY <4>1, TwoToPositive
    <3>4. U = TwoTo[F] BY DEF F, Unit
    <3> QED BY <2>3, <3>1, <3>2, <3>3, <3>4
  <2>5. CASE i + k < F - 1
    <3> DEFINE j == (i + k) + 1
    <3>1. j \in 1 .. Reach /\ j - 1 = i + k /\ j \in Nat /\ j <= F - 1 /\ F - 1 <= Reach BY <2>1, <2>5, Widths
    <3> HIDE DEF j
    <3>2. TwoTo[j] = 2 * TwoTo[j - 1] BY <3>1, TwoToNext
    <3>3. TwoTo[j] <= TwoTo[F - 1] BY <3>1, <2>1, TwoToGrows
    <3>4. H = TwoTo[F - 1] BY DEF F
    <3> QED BY <2>3, <3>1, <3>2, <3>3, <3>4
  <2>6. CASE i + k = F - 1
    <3> DEFINE l == k - 1 g == TwoTo[l]
    <3>1. l \in 0 .. Span /\ l \in 0 .. Reach /\ k \in 1 .. Reach BY <2>1, <1>2, <1>8, Widths
    <3>2. u = 2 * TwoTo[k - 1] BY <1>2, <3>1, TwoToNext
    <3> HIDE DEF l
    <3>3. g \in Nat \ {0} BY <3>1, TwoToPositive
    <3>4. u = 2 * g BY <3>2 DEF l
    <3>5. (\E s \in Int : z = g * s) \/ 2 * z <= p * g BY <3>1, <1>5, RepresentableAt
    <3> HIDE DEF g
    <3>6. h * u = H BY <2>3, <2>6 DEF F
    <3>7. p * g = h * u BY <3>3, <3>4, <1>3
    <3> QED BY <3>3, <3>4, <3>5, <3>6, <3>7
  <2> QED BY <2>1, <2>4, <2>5, <2>6
<1> DEFINE W == (u * q) \div U
<1>9. MayMiss(z, h, U, W)
  <2>1. FewBits(z, H, U, u, h) BY <1>6, <1>7, <1>8, Zenon DEF FewBits
  <2>2. 2 * Size(u * q - (z + H)) <= u BY <1>2
  <2>3. W = (u * q) \div U OBVIOUS
  <2> HIDE DEF U, h, v, p, F, W
  <2> QED BY <2>1, <2>2, <2>3, <1>1, <1>2, <1>3, <1>4, FineHalf, Zenon
<1>10. M \div U = W BY <1>2
<1> HIDE DEF W
<1> QED BY <1>9, <1>10, Zenon DEF HalfRight, MayMiss

LEMMA HalfUp ==
  ASSUME NEW z \in Nat, Representable(z), z % Unit = 0 \/ z < TwoTo[Precision] * Unit, NEW H, H = TwoTo[FractionBits - 1],
         NEW M, NEW k, NEW u, NEW q, RoundedTo(z + H, M, k, u, q)
  PROVE  HalfRight(z, M \div Unit)
<1> DEFINE h == TwoTo[Precision - 1] p == TwoTo[Precision] F == FractionBits U == Unit
<1>1. U = 2 * H /\ H \in Nat \ {0} /\ U \in Nat \ {0} /\ U = TwoTo[F] BY UnitIs
<1>2. /\ k \in 0 .. Span /\ u = TwoTo[k] /\ q \in Int /\ M = u * q /\ 2 * Size(M - (z + H)) <= u
      /\ (k = 0 \/ p * u <= 2 * Size(z + H)) /\ (2 * Size(M - (z + H)) = u => q % 2 = 0)
  BY DEF RoundedTo
<1>3. p = 2 * h /\ h \in Nat /\ h >= 4 /\ u \in Nat \ {0} /\ h = TwoTo[Precision - 1] /\ p = TwoTo[Precision]
  BY <1>2, PowersAre DEF Powers
<1>4. Size(z) = z /\ Size(z + H) = z + H
  <2>1. z + H \in Nat BY <1>1
  <2> QED BY <2>1, <1>1 DEF Size
<1>5. F \in 1 .. Span BY Widths
<1>6. z % U = 0 <=> \E w \in Int : z = U * w
  <2>1. z \in Int /\ U \in Nat \ {0} BY <1>1
  <2> HIDE DEF U
  <2> QED BY <2>1, NoRemainder
<1>7. (\E w \in Int : z = U * w) \/ 2 * z <= p * U
  <2>1. F \in 0 .. Span /\ F \in Int BY <1>5
  <2> HIDE DEF F, U
  <2>2. (\E s \in Int : z = TwoTo[F] * s) \/ 2 * Size(z) <= TwoTo[Precision] * TwoTo[F] BY <2>1, RepresentableAt
  <2>3. TwoTo[Precision] \in Nat BY <1>3
  <2> QED BY <2>2, <2>3, <1>1, <1>4
<1>8. CASE k < F BY <1>8, HalfUpFine
<1>9. CASE k = F
  <2>1. u = U BY <1>1, <1>2, <1>9
  <2>2. p * u = 2 * (h * u) /\ h * u \in Int /\ h * u = u * h BY <1>3
  <2>3. 2 * (h * U) <= 2 * (z + H) BY <1>2, <1>4, <1>5, <1>9, <2>1, <2>2
  <2> DEFINE B == h * U
  <2>4. B \in Int /\ 2 * B <= 2 * (z + H) /\ ((\E w \in Int : z = U * w) \/ 2 * z <= 2 * B) BY <2>1, <2>2, <2>3, <1>7
  <2>5. z = B => \E w \in Int : z = U * w
    <3>1. B = U * h /\ h \in Int BY <2>1, <2>2, <1>3
    <3> HIDE DEF B, U, h
    <3> QED BY <3>1
  <2> HIDE DEF B
  <2>6. B <= z + H /\ ((\E w \in Int : z = U * w) \/ z < B) BY <2>4, <2>5, <1>1
  <2>7. 2 * Size(U * q - (z + H)) <= U /\ (2 * Size(U * q - (z + H)) = U => q % 2 = 0) BY <1>2, <2>1
  <2>8. 2 * Size(q * U - z) <= U \/ (2 * Size(q * U - z) <= 2 * U /\ OddAndFull(z, h, U))
    <3>1. h * U <= z + H /\ ((\E w \in Int : z = U * w) \/ z < h * U) BY <2>6 DEF B
    <3> HIDE DEF U, h
    <3> QED BY <3>1, <2>7, <1>1, <1>2, <1>3, EvenHalf
  <2>9. M \div U = q
    <3>1. M = U * q BY <2>1, <1>2
    <3> DEFINE x == U * q
    <3>2. x \in Int /\ x <= x /\ x < x + U BY <1>1, <1>2
    <3>3. U * q <= x /\ x < U * q + U BY <3>2
    <3> HIDE DEF U, x
    <3>4. x \div U = q BY <3>2, <3>3, <1>1, <1>2, QuotientOf
    <3> QED BY <3>1, <3>4 DEF x
  <2> QED BY <2>8, <2>9, <1>2 DEF HalfRight
<1>10. CASE k > F
  <2> DEFINE v == TwoTo[k - F]
  <2>1. u = U * v /\ v \in Nat /\ v >= 2
    <3> DEFINE i == k - F
    <3>1. i \in 1 .. Reach /\ i \in Nat /\ F \in Nat /\ F + i = k /\ k <= Reach /\ i - 1 \in 0 .. Reach
      BY <1>2, <1>5, <1>10, Widths
    <3> HIDE DEF i, F
    <3>2. TwoTo[F + i] = TwoTo[F] * TwoTo[i] BY <3>1, TwoToAdds
    <3>3. TwoTo[i] = 2 * TwoTo[i - 1] BY <3>1, TwoToNext
    <3>4. TwoTo[i - 1] \in Nat \ {0} BY <3>1, TwoToPositive
    <3>5. TwoTo[i] \in Nat /\ TwoTo[i] >= 2 BY <3>3, <3>4
    <3> QED BY <3>1, <3>2, <3>5, <1>1, <1>2 DEF i
  <2> HIDE DEF v
  <2>2. p * u <= 2 * (z + H) BY <1>2, <1>4, <1>5, <1>10
  <2>3. PICK w \in Int : z = U * w
    <3> SUFFICES ASSUME ~(\E w \in Int : z = U * w) PROVE FALSE OBVIOUS
    <3>1. 2 * z <= p * U BY <1>7
    <3> DEFINE P == p * U
    <3>2. u >= 2 * U
      <4> HIDE DEF U, P
      <4>1. U * v >= U * 2 /\ U * 2 = 2 * U BY <1>1, <2>1
      <4> QED BY <4>1, <2>1
    <3>3. p * u >= p * (2 * U) /\ p * (2 * U) = 2 * P /\ P \in Int /\ p * u \in Int
      <4>1. U \in Nat /\ p \in Nat /\ u \in Nat /\ u >= 2 * U BY <3>2, <1>1, <1>3
      <4> HIDE DEF U, p
      <4>2. p * u >= p * (2 * U) BY <4>1
      <4>3. p * (2 * U) = 2 * (p * U) /\ p * U \in Int /\ p * u \in Int BY <4>1
      <4> QED BY <4>2, <4>3
    <3>4. P >= 8 * U
      <4>1. p >= 8 /\ p \in Nat BY <1>3
      <4> HIDE DEF p, U
      <4> QED BY <4>1, <1>1
    <3> DEFINE y == p * u
    <3>5. y >= 2 * P /\ y \in Int /\ y <= 2 * (z + H) /\ 2 * z <= P BY <2>2, <3>1, <3>3
    <3> HIDE DEF P, y, U
    <3> QED BY <3>3, <3>4, <3>5, <1>1
  <2> DEFINE B == h * u
  <2>4. (\E s \in Int : z = u * s) \/ (z < B /\ B <= z + H)
    <3>1. (\E s \in Int : z = u * s) \/ 2 * z <= p * u BY <1>2, <1>4, RepresentableAt
    <3>2. p * u = 2 * (h * u) /\ h * u \in Int /\ h * u = u * h BY <1>3
    <3>3. B \in Int /\ 2 * B <= 2 * (z + H) /\ ((\E s \in Int : z = u * s) \/ 2 * z <= 2 * B) BY <2>2, <3>1, <3>2
    <3>4. z = B => \E s \in Int : z = u * s
      <4>1. B = u * h /\ h \in Int BY <3>2, <1>3
      <4> HIDE DEF B, h
      <4> QED BY <4>1
    <3> HIDE DEF B
    <3> QED BY <3>3, <3>4, <1>1
  <2>5. u * q = z
    <3>1. 2 * Size(u * q - (z + H)) <= u BY <1>2
    <3>2. H \in Nat \ {0} /\ U = 2 * H /\ v \in Nat /\ v >= 2 /\ u = U * v /\ q \in Int /\ w \in Int /\ z = U * w /\ h \in Nat
      BY <1>1, <1>2, <1>3, <2>1, <2>3
    <3>3. B = h * u OBVIOUS
    <3> HIDE DEF U, h, p, F, B
    <3>4. Jumps(z, H, u, B) BY <2>4, Zenon DEF Jumps
    <3>5. Coarse(z, H, U, u, v, q, w, h, B) BY <3>1, <3>2, <3>3, Zenon DEF Coarse
    <3> QED BY <3>4, <3>5, CoarseHalf, Zenon
  <2>6. M \div U = w
    <3> DEFINE x == U * w
    <3>1. x \in Int /\ x < x + U BY <1>1, <2>3
    <3>2. U * w <= x /\ x < U * w + U BY <3>1
    <3>3. M = x BY <1>2, <2>3, <2>5
    <3> HIDE DEF U, x
    <3>4. x \div U = w BY <3>1, <3>2, <1>1, <2>3, QuotientOf
    <3> QED BY <3>3, <3>4
  <2>7. w * U - z = 0 BY <2>3, <1>1
  <2>8. 2 * Size(w * U - z) <= U BY <2>7, <1>1 DEF Size
  <2> QED BY <2>6, <2>8, <2>3 DEF HalfRight
<1> QED BY <1>2, <1>5, <1>8, <1>9, <1>10

LEMMA MultipleQuot ==
  ASSUME NEW U \in Nat \ {0}, NEW w \in Int, NEW m, m = U * w PROVE Quot(m, U) = w
<1> DEFINE q == Quot(m, U) r == Rem(m, U)
<1>1. m \in Int BY SMT
<1>2. Divided(m, U, q, r) BY <1>1, QuotRem
<1> HIDE DEF q, r
<1>3. q \in Int /\ r \in Int /\ m = U * q + r /\ Size(r) < Size(U) BY <1>2 DEF Divided
<1>4. -U < r /\ r < U BY <1>3 DEF Size
<1> DEFINE e == w - q
<1>5. e \in Int /\ U * e = r BY <1>3
<1> HIDE DEF e
<1>6. e > -1
  <2> SUFFICES ASSUME e <= -1 PROVE FALSE BY <1>5
  <2>1. U * e <= -U /\ U * e \in Int BY <1>5
  <2> QED BY <2>1, <1>3, <1>4, <1>5
<1>7. e < 1
  <2> SUFFICES ASSUME e >= 1 PROVE FALSE BY <1>5
  <2>1. U * e >= U /\ U * e \in Int BY <1>5
  <2> QED BY <2>1, <1>3, <1>4, <1>5
<1>8. e = 0 BY <1>5, <1>6, <1>7
<1>9. q = w BY <1>3, <1>8 DEF e
<1> QED BY <1>9 DEF q

\* A float in units, its fraction dropped, is a float.
LEMMA UnitQuotKept ==
  ASSUME NEW k \in 0 .. Span, NEW t \in Int, Size(t) <= TwoTo[Precision], NEW m, m = TwoTo[k] * t
  PROVE  Nearest(Quot(m, Unit)) = Quot(m, Unit)
<1> DEFINE p == TwoTo[Precision] F == FractionBits s == Size(t)
<1>1. p \in Nat \ {0} /\ Unit \in Nat \ {0} /\ Unit = TwoTo[F] /\ s \in Nat /\ s <= p /\ TwoTo[k] \in Nat \ {0} /\ F \in 1 .. Span
  BY UnitIs, TwoToPositive, Widths DEF Size
<1>2. CASE k >= F
  <2> DEFINE i == k - F v == TwoTo[i] w == v * t
  <2>1. i \in 0 .. Span /\ F + i = k /\ i \in Nat /\ F \in Nat /\ F + i <= Span /\ i <= Span - 1 BY <1>1, <1>2, Widths
  <2> HIDE DEF i, F
  <2>2. TwoTo[F] * (TwoTo[i] * t) = TwoTo[F + i] * t /\ TwoTo[i] \in Nat \ {0} BY <2>1, PowerTimes
  <2>3. m = Unit * w /\ w \in Int BY <1>1, <2>1, <2>2
  <2>4. Quot(m, Unit) = w
    <3> HIDE DEF w
    <3> QED BY <1>1, <2>3, MultipleQuot
  <2>5. Representable(w) BY <2>1 DEF Representable
  <2>6. Roundable(w)
    <3> DEFINE a == Precision + i b == Precision + Span
    <3>1. a \in Nat /\ b \in 1 .. Reach /\ b - 1 \in Nat /\ a <= b - 1 /\ b - 1 <= Reach /\ Precision \in Nat /\ a <= Reach
      BY <2>1, Widths
    <3>2. TwoTo[a] = p * v BY <2>1, <3>1, TwoToAdds
    <3> HIDE DEF a, b
    <3>3. TwoTo[a] <= TwoTo[b - 1] /\ TwoTo[b] = 2 * TwoTo[b - 1] BY <3>1, TwoToGrows, TwoToNext
    <3>4. TwoTo[b - 1] \in Nat \ {0} /\ TwoTo[a] \in Nat BY <3>1, TwoToPositive
    <3>5. Size(w) = v * s
      <4>1. Size(v) = v /\ v \in Int BY <2>2 DEF Size
      <4> HIDE DEF v, s
      <4> QED BY <4>1, SizeOfProduct DEF s
    <3>6. v * s <= p * v /\ v * s \in Nat
      <4> HIDE DEF v, s, p
      <4>1. v \in Nat /\ s \in Nat /\ p \in Nat /\ s <= p BY <1>1, <2>2 DEF v
      <4>2. v * s <= v * p /\ v * p = p * v /\ v * s \in Nat BY <4>1
      <4> QED BY <4>2
    <3> HIDE DEF v, s, p, w
    <3> DEFINE x == v * s y == p * v
    <3>7. Size(w) = x /\ x <= y /\ TwoTo[a] = y /\ x \in Nat BY <3>2, <3>5, <3>6
    <3> HIDE DEF x, y
    <3>8. Size(w) < TwoTo[b] BY <3>3, <3>4, <3>7
    <3> QED BY <3>8, <2>3 DEF Roundable, b
  <2> QED BY <2>4, <2>5, <2>6, RepresentableKept
<1>3. CASE k < F
  <2>1. TwoTo[k] <= Unit
    <3>1. k \in Nat /\ F \in Nat /\ k <= F /\ F <= Reach BY <1>1, <1>3, Widths
    <3> HIDE DEF F
    <3> QED BY <1>1, <3>1, TwoToGrows
  <2> DEFINE v == TwoTo[k]
  <2>2. Size(m) = v * s /\ m \in Int
    <3>1. Size(v) = v /\ v \in Int BY <1>1 DEF Size
    <3>2. m = v * t OBVIOUS
    <3> HIDE DEF v
    <3>3. Size(v * t) = Size(v) * Size(t) BY <3>1, SizeOfProduct
    <3>4. v * t \in Int BY <3>1
    <3> QED BY <3>1, <3>2, <3>3, <3>4
  <2>3. v * s <= Unit * p /\ v * s \in Nat
    <3>1. v \in Nat /\ v <= Unit BY <1>1, <2>1
    <3> HIDE DEF v, s, p
    <3>2. v * s <= v * p /\ v * p <= Unit * p /\ v * s \in Nat /\ v * p \in Nat /\ Unit * p \in Nat BY <3>1, <1>1
    <3> DEFINE x == v * s y == v * p g == Unit * p
    <3>3. x <= y /\ y <= g /\ x \in Nat /\ y \in Nat /\ g \in Nat BY <3>2
    <3> HIDE DEF x, y, g
    <3>4. x <= g BY <3>3
    <3> QED BY <3>2, <3>4 DEF x, g
  <2>4. (p + 1) * Unit = Unit * p + Unit /\ Unit * p \in Nat
    <3> HIDE DEF p
    <3> QED BY <1>1
  <2> DEFINE x == v * s g == Unit * p y == (p + 1) * Unit
  <2>5. Size(m) = x /\ x <= g /\ y = g + Unit /\ x \in Nat /\ g \in Nat BY <2>2, <2>3, <2>4
  <2> HIDE DEF x, g, y
  <2>6. Size(m) < y BY <2>5, <1>1
  <2>7. Size(m) < (TwoTo[Precision] + 1) * Unit BY <2>6 DEF y
  <2> QED BY <2>2, <2>7, <1>1, QuotSmall
<1> QED BY <1>1, <1>2, <1>3

\* INT of a float that was computed.
LEMMA IntPartOfNode ==
  ASSUME NEW a \in Int, NEW c \in Nat \ {0}, NEW m, m = Rounded(a * Unit, c), NEW k, Rounds(a * Unit, c, m, k),
         Rem(a, c) = 0 => Nearest(Quot(a, c)) = Quot(a, c)
  PROVE  IntPart(FloatNode(a, c)).d = 1 /\ IntPart(FloatNode(a, c)).n = IF Rem(a, c) = 0 THEN Quot(a, c) ELSE Quot(m, Unit)
<1> DEFINE q == Quot(a, c) r == Rem(a, c) w == Quot(m, Unit) z == a * Unit
<1>1. Unit \in Nat \ {0} /\ q \in Int
  <2>1. Unit \in Nat \ {0} BY UnitIs
  <2>2. Part0(a, c, q) BY QuotIs
  <2> HIDE DEF q
  <2> QED BY <2>1, <2>2 DEF Part0
<1>2. z \in Int /\ Rounds(z, c, m, k)
  <2>1. z \in Int BY <1>1
  <2>2. Rounds(z, c, m, k) OBVIOUS
  <2> QED BY <2>1, <2>2
<1>3. m \in Int /\ Nearest(w) = w
  <2> HIDE DEF z
  <2>1. m \in Int /\ k \in 0 .. Span /\ \E t \in Int : m = TwoTo[k] * t /\ Size(t) <= TwoTo[Precision]
    BY <1>2, RoundsRepresentable
  <2> QED BY <2>1, UnitQuotKept
<1>4. w \in Int BY <1>1, <1>3, QuotIs DEF Part0
<1>5. \/ r = 0 /\ FloatNode(a, c) = [int |-> FALSE, n |-> Nearest(q), d |-> 1]
      \/ r # 0 /\ m % Unit = 0 /\ FloatNode(a, c) = [int |-> FALSE, n |-> m \div Unit, d |-> 1]
      \/ r # 0 /\ m % Unit # 0 /\ FloatNode(a, c) = [int |-> FALSE, n |-> m, d |-> Unit]
  <2> DEFINE s == IF c < 0 THEN -1 ELSE 1
  <2>1. s = 1 OBVIOUS
  <2> HIDE DEF s
  <2>2. s * a * Unit = a * Unit /\ s * c = c BY <2>1, <1>1
  <2>3. m = Rounded(s * a * Unit, s * c) BY <2>2, Zenon
  <2>4. s = IF c < 0 THEN -1 ELSE 1 BY DEF s
  <2> HIDE DEF q, r, w, z
  <2> QED BY <2>3, <2>4, FloatNodeIs DEF q, r
<1>6. \A x \in Int : Nearest(x) = x => IntPart([int |-> FALSE, n |-> x, d |-> 1]).n = x /\ IntPart([int |-> FALSE, n |-> x, d |-> 1]).d = 1
  <2> SUFFICES ASSUME NEW x \in Int, Nearest(x) = x
               PROVE  IntPart([int |-> FALSE, n |-> x, d |-> 1]).n = x /\ IntPart([int |-> FALSE, n |-> x, d |-> 1]).d = 1
    OBVIOUS
  <2>1. Quot(x, 1) = x BY FloatNodeOne
  <2> QED BY <2>1, IntPartIs
<1> HIDE DEF q, r, w, z
<1>7. CASE r = 0
  <2>1. Nearest(q) = q BY <1>7 DEF q, r
  <2> QED BY <2>1, <1>1, <1>5, <1>6, <1>7, Zenon DEF q, r
<1>8. CASE r # 0 /\ m % Unit = 0 /\ FloatNode(a, c) = [int |-> FALSE, n |-> m \div Unit, d |-> 1]
  <2> DEFINE b == m \div Unit
  <2>1. b \in Int /\ m = Unit * b
    <3> DEFINE e == m % Unit
    <3>1. b \in Int /\ m = Unit * b + e /\ e = 0 BY <1>1, <1>3, <1>8, DivIs
    <3> HIDE DEF b, e
    <3> QED BY <3>1, <1>1
  <2> HIDE DEF b
  <2>2. w = b BY <2>1, <1>1, MultipleQuot DEF w
  <2>3. FloatNode(a, c) = [int |-> FALSE, n |-> w, d |-> 1] BY <2>2, <1>8 DEF b
  <2> QED BY <2>3, <1>3, <1>4, <1>6, <1>8, Zenon DEF q, r, w
<1>9. CASE r # 0 /\ m % Unit # 0 /\ FloatNode(a, c) = [int |-> FALSE, n |-> m, d |-> Unit]
  <2>1. Nearest(Quot(m, Unit)) = Quot(m, Unit) BY <1>3 DEF w
  <2>2. IntPart([int |-> FALSE, n |-> m, d |-> Unit]).n = Quot(m, Unit) /\ IntPart([int |-> FALSE, n |-> m, d |-> Unit]).d = 1
    BY <2>1, <1>1, <1>3, IntPartIs
  <2> QED BY <2>2, <1>9, Zenon DEF q, r
<1> QED BY <1>5, <1>7, <1>8, <1>9

\* What the properties ask of ROUND.
RoundOk(x) ==
  Round(x).d = 1 /\ 2 * Size(Round(x).n * x.d - x.n) <= IF RoundMisses(x) THEN 2 * x.d ELSE x.d

\* The sum of ROUND: s is the sign, z the size in units, N what is rounded.
LEMMA SumOf ==
  ASSUME NEW n, NEW d, FloatValue(n, d), NEW s, s = (IF n < 0 THEN -1 ELSE 1),
         NEW z, z = (IF d = 1 THEN Size(n) * Unit ELSE Size(n)), NEW H, H = TwoTo[FractionBits - 1]
  PROVE  LET a == 2 * n + (IF n < 0 THEN -d ELSE d)
             c == 2 * d
         IN /\ a \in Int /\ c \in Nat \ {0} /\ a = 2 * n + s * d /\ n = s * Size(n)
            /\ a * Unit = (s * (z + H)) * c
            /\ Size(a) <= (16 * (TwoTo[IntBits - 1] * TwoTo[IntBits - 1])) * c
            /\ z \in Nat /\ H \in Nat \ {0} /\ Unit = 2 * H /\ Representable(z)
            /\ z % Unit = 0 \/ z < TwoTo[Precision] * Unit
<1> DEFINE U == Unit p == TwoTo[Precision] j == TwoTo[IntBits - 1] t == Size(n) g == j * j
           a == 2 * n + (IF n < 0 THEN -d ELSE d) c == 2 * d
<1>1. U = 2 * H /\ H \in Nat \ {0} /\ U \in Nat \ {0} BY UnitIs
<1>2. n \in Int /\ d \in Nat \ {0} BY ValueIs
<1>3. t \in Nat /\ (s = 1 \/ s = -1) /\ n = s * t /\ a = 2 * n + s * d
  <2>1. CASE n < 0
    <3>1. s = -1 /\ t = -n BY <2>1 DEF Size
    <3> HIDE DEF t
    <3> QED BY <3>1, <2>1, <1>2
  <2>2. CASE ~(n < 0)
    <3>1. s = 1 /\ t = n BY <2>2 DEF Size
    <3> HIDE DEF t
    <3> QED BY <3>1, <2>2, <1>2
  <2> QED BY <2>1, <2>2
<1>4. a \in Int /\ c \in Nat \ {0} /\ Size(a) <= 2 * t + d /\ Size(a) \in Nat
  <2> HIDE DEF t
  <2>1. a \in Int /\ c \in Nat \ {0} BY <1>2
  <2>2. a = s * (2 * t + d)
    <3>1. s * (2 * t + d) = 2 * (s * t) + s * d BY <1>2, <1>3
    <3> QED BY <3>1, <1>3
  <2> HIDE DEF a
  <2>3. (s = 1 => a = 2 * t + d) /\ (s = -1 => a = -(2 * t + d)) BY <2>2, <1>2, <1>3
  <2> QED BY <2>1, <2>3, <1>2, <1>3 DEF Size
<1>5. p \in Nat /\ j \in Nat /\ j >= 8 /\ 2 * p <= j BY RangeIs, TwoToPositive, Widths
<1>6. g \in Nat /\ g >= j /\ g >= 1
  <2> HIDE DEF j
  <2>1. j * j >= j /\ j * j \in Nat BY <1>5
  <2> QED BY <2>1, <1>5
<1>7. CASE d = 1 /\ Whole(n)
  <2>1. z = t * U BY <1>7
  <2>2. t <= 8 * g /\ Representable(n * U) BY <1>7 DEF Whole
  <2> DEFINE y == n * U
  <2>3. y \in Int /\ z = s * y /\ z \in Nat
    <3> HIDE DEF U, t
    <3>1. t * U = s * ((s * t) * U) /\ t * U \in Nat BY <1>1, <1>3
    <3> QED BY <3>1, <2>1, <1>1, <1>2, <1>3
  <2>4. Representable(z)
    <3>1. PICK i \in 0 .. Span, e \in Int : y = TwoTo[i] * e /\ Size(e) <= TwoTo[Precision] BY <2>2 DEF Representable
    <3>2. TwoTo[i] \in Int BY <3>1, TwoToPositive, Widths
    <3>3. s * e \in Int /\ Size(s * e) = Size(e) BY <3>1, <1>3 DEF Size
    <3> HIDE DEF y, t
    <3>4. z = TwoTo[i] * (s * e) BY <2>3, <3>1, <3>2, <1>3
    <3> QED BY <3>1, <3>3, <3>4 DEF Representable
  <2>5. z % U = 0
    <3>1. z = U * t /\ z \in Int /\ t \in Int BY <2>1, <2>3, <1>1, <1>3
    <3> HIDE DEF U, t
    <3> QED BY <3>1, <1>1, NoRemainder
  <2>6. a * U = (s * (z + H)) * c
    <3>1. a = s * (2 * t + 1) /\ c = 2
      <4> HIDE DEF t
      <4>1. a = 2 * n + s /\ c = 2 BY <1>3, <1>7
      <4> HIDE DEF a, c
      <4> QED BY <4>1, <1>3
    <3> HIDE DEF a, c, t, U
    <3>2. (s * (2 * t + 1)) * (2 * H) = (s * (t * (2 * H) + H)) * 2
      <4>1. \A i, e, f \in Int : (i * (2 * e + 1)) * (2 * f) = (i * (e * (2 * f) + f)) * 2 OBVIOUS
      <4>2. s \in Int /\ t \in Int /\ H \in Int BY <1>1, <1>3
      <4> QED BY <4>1, <4>2, Zenon
    <3>3. z = t * (2 * H) /\ U = 2 * H BY <2>1, <1>1
    <3> QED BY <3>1, <3>2, <3>3, Zenon
  <2>7. Size(a) <= (16 * g) * c
    <3>1. Size(a) <= 2 * t + 1 /\ c = 2 BY <1>4, <1>7
    <3> HIDE DEF a, c, t, g
    <3>2. Size(a) <= 32 * g BY <3>1, <2>2, <1>3, <1>4, <1>6
    <3> QED BY <3>1, <3>2, <1>6
  <2> QED BY <2>3, <2>4, <2>5, <2>6, <2>7, <1>1, <1>3, <1>4
<1>8. CASE Fraction(n, d)
  <2>1. d = U /\ Representable(n) /\ t < p * U BY <1>8 DEF Fraction
  <2>2. z = t
    <3>1. U # 1 BY <1>1
    <3> QED BY <3>1, <2>1
  <2>3. Representable(z)
    <3>1. PICK i \in 0 .. Span, e \in Int : n = TwoTo[i] * e /\ Size(e) <= TwoTo[Precision] BY <2>1 DEF Representable
    <3>2. TwoTo[i] \in Int BY <3>1, TwoToPositive, Widths
    <3>3. s * e \in Int /\ Size(s * e) = Size(e) BY <3>1, <1>3 DEF Size
    <3> HIDE DEF t
    <3>4. t = s * n BY <1>3
    <3>5. z = TwoTo[i] * (s * e) BY <2>2, <3>1, <3>2, <3>4, <1>3
    <3> QED BY <3>1, <3>3, <3>5 DEF Representable
  <2>4. a * U = (s * (z + H)) * c
    <3>1. a = s * (2 * t + U) /\ c = 2 * U
      <4> HIDE DEF t
      <4>1. a = 2 * n + s * U /\ c = 2 * U BY <1>3, <2>1
      <4> HIDE DEF a, c, U
      <4> QED BY <4>1, <1>1, <1>3
    <3> HIDE DEF a, c, t, U
    <3>2. (s * (2 * t + 2 * H)) * (2 * H) = (s * (t + H)) * (2 * (2 * H))
      <4>1. \A i, e, f \in Int : (i * (2 * e + 2 * f)) * (2 * f) = (i * (e + f)) * (2 * (2 * f)) OBVIOUS
      <4> QED BY <4>1, <1>1, <1>3
    <3> QED BY <3>1, <3>2, <2>2, <1>1
  <2>5. Size(a) <= (16 * g) * c
    <3>1. Size(a) <= 2 * t + U /\ c = 2 * U /\ t < p * U BY <1>4, <2>1
    <3> HIDE DEF a, c, t, g, U, p, j
    <3>2. (16 * g) * (2 * U) >= (4 * p) * U
      <4>1. 16 * g >= 2 * p BY <1>5, <1>6
      <4> DEFINE e == 16 * g
      <4>2. e \in Nat /\ e >= 2 * p BY <4>1, <1>6
      <4> HIDE DEF e
      <4>3. e * (2 * U) >= (2 * p) * (2 * U) /\ (2 * p) * (2 * U) = (4 * p) * U BY <4>2, <1>1, <1>5
      <4> QED BY <4>3 DEF e
    <3>3. (4 * p) * U = 4 * (p * U) /\ p * U \in Nat BY <1>1, <1>5
    <3>4. p >= 1 => p * U >= U BY <1>1, <1>5
    <3>5. p = 0 => p * U = 0 BY <1>1
    <3> DEFINE x == p * U y == (16 * g) * (2 * U)
    <3>6. y >= 4 * x /\ x \in Nat /\ t < x /\ y \in Int /\ (p >= 1 => x >= U) /\ (p = 0 => x = 0)
      <4>1. y \in Int BY <1>1, <1>6
      <4> QED BY <4>1, <3>1, <3>2, <3>3, <3>4, <3>5
    <3> HIDE DEF x, y
    <3>7. Size(a) <= y BY <3>1, <3>6, <1>1, <1>3, <1>4, <1>5
    <3> QED BY <3>1, <3>7 DEF y
  <2>6. z < p * U BY <2>1, <2>2
  <2> QED BY <2>2, <2>3, <2>4, <2>5, <2>6, <1>1, <1>3, <1>4
<1> QED BY <1>7, <1>8 DEF FloatValue

\* When the sum is half of an odd number of units, what comes out is exact.
LEMMA RoundExact ==
  ASSUME NEW n \in Int, NEW d \in Nat \ {0}, NEW s, s = 1 \/ s = -1, NEW a \in Int, a = 2 * n + s * d,
         NEW q \in Int, a = (2 * d) * q
  PROVE  2 * Size(q * d - n) <= d
<1> DEFINE g == q * d
<1>1. g \in Int /\ (2 * d) * q = 2 * g BY SMT
<1>2. s * d = d \/ s * d = -d BY SMT
<1> HIDE DEF g
<1>3. 2 * Size(g - n) <= d BY <1>1, <1>2 DEF Size
<1> QED BY <1>3 DEF g

LEMMA ExactKept ==
  ASSUME NEW n, NEW d, FloatValue(n, d), NEW s, s = 1 \/ s = -1, NEW a \in Int, a = 2 * n + s * d, Rem(a, 2 * d) = 0
  PROVE  Nearest(Quot(a, 2 * d)) = Quot(a, 2 * d) /\ Quot(a, 2 * d) \in Int /\ a = (2 * d) * Quot(a, 2 * d)
<1> DEFINE c == 2 * d q == Quot(a, c) r == Rem(a, c) U == Unit p == TwoTo[Precision] t == Size(n)
<1>1. n \in Int /\ d \in Nat \ {0} BY ValueIs
<1>2. c \in Int /\ c # 0 BY <1>1
<1>3. Divided(a, c, q, r)
  <2> HIDE DEF c
  <2> QED BY <1>2, QuotRem
<1>4. r = 0 OBVIOUS
<1>5. q \in Int /\ a = c * q
  <2> HIDE DEF c, q, r
  <2>1. q \in Int /\ a = c * q + r BY <1>3 DEF Divided
  <2> QED BY <2>1, <1>2, <1>4
<1>6. ~(d = 1 /\ Whole(n))
  <2> SUFFICES ASSUME d = 1 PROVE FALSE OBVIOUS
  <2>1. c = 2 OBVIOUS
  <2> HIDE DEF c, q
  <2>2. 2 * n + s * 1 = 2 * q BY <2>1, <1>5
  <2> QED BY <2>2, <1>1, <1>5
<1>7. d = U /\ t < p * U BY <1>6 DEF FloatValue, Fraction
<1>8. Size(a) <= 2 * t + d /\ Size(a) \in Nat /\ t \in Nat
  <2>1. s * d = d \/ s * d = -d BY <1>1
  <2> QED BY <2>1, <1>1 DEF Size
<1>9. p \in Nat /\ U \in Nat \ {0} BY UnitIs, TwoToPositive, Widths
<1>10. Size(a) < (p + 1) * c
  <2> HIDE DEF t, p, U, q, r
  <2>1. (p + 1) * (2 * U) = 2 * (p * U) + 2 * U /\ p * U \in Nat BY <1>9
  <2>2. (p + 1) * c = (p + 1) * (2 * U) BY <1>7
  <2> DEFINE x == p * U y == (p + 1) * c
  <2>3. y = 2 * x + 2 * U /\ x \in Nat /\ t < x BY <2>1, <2>2, <1>7
  <2> HIDE DEF x, y
  <2>4. Size(a) < y BY <2>3, <1>7, <1>8, <1>9
  <2> QED BY <2>4 DEF y
<1>11. Nearest(q) = q
  <2>1. c \in Nat \ {0} BY <1>1
  <2>2. Size(a) < (TwoTo[Precision] + 1) * c BY <1>10
  <2> HIDE DEF c
  <2> QED BY <2>1, <2>2, QuotSmall
<1> QED BY <1>5, <1>11

\* From units back to the number.
LEMMA BackFromUnits ==
  ASSUME NEW n, NEW d, FloatValue(n, d), NEW s, s = 1 \/ s = -1, n = s * Size(n),
         NEW z, z = (IF d = 1 THEN Size(n) * Unit ELSE Size(n)), NEW W, HalfRight(z, W),
         NEW x, x = [int |-> FALSE, n |-> n, d |-> d]
  PROVE  2 * Size((s * W) * d - n) <= IF RoundMisses(x) THEN 2 * d ELSE d
<1> DEFINE U == Unit p == TwoTo[Precision] h == TwoTo[Precision - 1] t == Size(n)
<1>1. U \in Nat \ {0} /\ U # 1 BY UnitIs
<1>2. n \in Int /\ d \in Nat \ {0} /\ t \in Nat /\ n = s * t BY ValueIs DEF Size
<1>3. /\ W \in Int
      /\ \/ 2 * Size(W * U - z) <= U
         \/ 2 * Size(W * U - z) <= 2 * U /\ (JustBelow(z, h, U) \/ OddAndFull(z, h, U))
  BY DEF HalfRight
<1>4. p = 2 * h /\ h \in Nat /\ h >= 4
  <2>1. 0 \in 0 .. Span BY Widths
  <2> QED BY <2>1, PowersAre DEF Powers
<1>5. Size((s * W) * d - n) = Size(W * d - t) /\ W * d - t \in Int
  <2> HIDE DEF t
  <2>1. (s * W) * d - n = s * (W * d - t) BY <1>2, <1>3
  <2> DEFINE e == W * d - t
  <2>2. e \in Int /\ (s * W) * d - n = s * e BY <2>1, <1>2, <1>3
  <2> HIDE DEF e
  <2>3. s * e = e \/ s * e = -e BY <2>2
  <2>4. Size(s * e) = Size(e) BY <2>2, <2>3 DEF Size
  <2> QED BY <2>2, <2>4 DEF e
<1>6. ~x.int /\ x.n = n /\ x.d = d OBVIOUS
<1> HIDE DEF t, U, p, h
<1>7. RoundMisses(x) <=> IF d = 1 THEN n % 2 = 1 /\ h <= t ELSE t * TwoTo[Precision + 1] = (p - 1) * d
  BY <1>6 DEF RoundMisses, t, p, h
<1>8. CASE d = 1
  <2>1. z = t * U BY <1>8 DEF t, U
  <2> DEFINE e == W - t f == Size(e)
  <2>2. W * U - z = e * U /\ e \in Int BY <2>1, <1>1, <1>2, <1>3
  <2>3. Size(W * U - z) = f * U /\ f \in Nat
    <3>1. Size(U) = U /\ U \in Int BY <1>1 DEF Size
    <3> HIDE DEF e
    <3> QED BY <3>1, <2>2, SizeOfProduct DEF Size
  <2>4. Size(W * d - t) = f
    <3>1. W * d - t = e BY <1>2, <1>3, <1>8
    <3> QED BY <3>1
  <2> HIDE DEF e, f
  <2>5. CASE 2 * Size(W * U - z) <= U
    <3>1. 2 * (f * U) <= U BY <2>3, <2>5
    <3>2. f >= 1 => f * U >= U BY <2>3, <1>1
    <3>3. f * U \in Nat BY <2>3, <1>1
    <3> DEFINE y == f * U
    <3>4. 2 * y <= U /\ y \in Nat /\ (f >= 1 => y >= U) BY <3>1, <3>2, <3>3
    <3> HIDE DEF y
    <3>5. f = 0 BY <3>4, <2>3, <1>1
    <3> QED BY <3>5, <2>4, <1>5, <1>8
  <2>6. CASE 2 * Size(W * U - z) <= 2 * U /\ (JustBelow(z, h, U) \/ OddAndFull(z, h, U))
    <3>1. f <= 1
      <4>1. 2 * (f * U) <= 2 * U BY <2>3, <2>6
      <4>2. f >= 2 => f * U >= 2 * U BY <2>3, <1>1
      <4>3. f * U \in Nat BY <2>3, <1>1
      <4> DEFINE y == f * U
      <4>4. 2 * y <= 2 * U /\ y \in Nat /\ (f >= 2 => y >= 2 * U) BY <4>1, <4>2, <4>3
      <4> HIDE DEF y
      <4> QED BY <4>4, <2>3, <1>1
    <3>2. ~JustBelow(z, h, U)
      <4> SUFFICES ASSUME JustBelow(z, h, U) PROVE FALSE OBVIOUS
      <4>1. (t * U) * (4 * h) = (2 * h - 1) * U BY <2>1 DEF JustBelow
      <4>2. (t * U) * (4 * h) = U * (t * (4 * h)) /\ (2 * h - 1) * U = U * (2 * h - 1)
        <5>1. \A a, b, c \in Int : (a * b) * (4 * c) = b * (a * (4 * c)) /\ (2 * c - 1) * b = b * (2 * c - 1) OBVIOUS
        <5> QED BY <5>1, <1>1, <1>2, <1>4
      <4> DEFINE a == t * (4 * h) b == 2 * h - 1
      <4>3. U * a = U * b /\ a \in Nat /\ b \in Int BY <4>1, <4>2, <1>2, <1>4
      <4>4. t >= 1 => a >= 4 * h BY <1>2, <1>4
      <4>5. t = 0 => a = 0 BY <1>4
      <4>6. b = 2 * h - 1 OBVIOUS
      <4> HIDE DEF a, b
      <4>7. a = b
        <5>1. U * (a - b) = 0 BY <4>3, <1>1
        <5> DEFINE i == a - b
        <5>2. i \in Int /\ U * i = 0 BY <4>3, <5>1
        <5> HIDE DEF i
        <5>3. i = 0 BY <5>2, <1>1
        <5> QED BY <5>3, <4>3 DEF i
      <4> QED BY <4>4, <4>5, <4>6, <4>7, <1>2, <1>4
    <3>3. PICK w \in Int : z = U * w /\ w % 2 = 1 /\ h * U <= z BY <3>2, <2>6 DEF OddAndFull
    <3>4. w = t
      <4>1. U * (w - t) = 0 BY <3>3, <2>1, <1>1, <1>2
      <4> DEFINE i == w - t
      <4>2. i \in Int /\ U * i = 0 BY <1>2, <4>1
      <4> HIDE DEF i
      <4>3. i = 0 BY <4>2, <1>1
      <4> QED BY <4>3, <1>2 DEF i
    <3>5. h <= t
      <4> SUFFICES ASSUME h >= t + 1 PROVE FALSE BY <1>2, <1>4
      <4>1. h * U >= t * U + U /\ h * U \in Int /\ t * U \in Int BY <1>1, <1>2, <1>4
      <4>2. h * U <= t * U BY <3>3, <2>1
      <4> DEFINE i == h * U l == t * U
      <4>3. i >= l + U /\ i <= l /\ i \in Int /\ l \in Int BY <4>1, <4>2
      <4> HIDE DEF i, l
      <4> QED BY <4>3, <1>1
    <3>6. n % 2 = 1
      <4>1. t % 2 = 1 BY <3>3, <3>4
      <4>2. n = t \/ n = -t BY <1>2
      <4> QED BY <4>1, <4>2, <1>2
    <3>7. RoundMisses(x) BY <3>5, <3>6, <1>7, <1>8
    <3>8. 2 * Size(W * d - t) <= 2 * d BY <3>1, <2>3, <2>4, <1>8
    <3> QED BY <3>7, <3>8, <1>5
  <2> QED BY <2>5, <2>6, <1>3
<1>9. CASE d # 1
  <2>1. d = U /\ n % U # 0 /\ z = t BY <1>9 DEF FloatValue, Fraction, U, t
  <2>2. CASE 2 * Size(W * U - z) <= U
    <3>1. 2 * Size(W * d - t) <= d BY <2>1, <2>2
    <3>2. Size(W * d - t) \in Nat BY <1>5 DEF Size
    <3> QED BY <3>1, <3>2, <1>2, <1>5
  <2>3. CASE 2 * Size(W * U - z) <= 2 * U /\ (JustBelow(z, h, U) \/ OddAndFull(z, h, U))
    <3>1. ~OddAndFull(z, h, U)
      <4> SUFFICES ASSUME OddAndFull(z, h, U) PROVE FALSE OBVIOUS
      <4>1. PICK w \in Int : z = U * w BY DEF OddAndFull
      <4>2. n = U * (s * w) /\ s * w \in Int
        <5>1. s * (U * w) = U * (s * w) /\ s * w \in Int BY <1>1
        <5> QED BY <5>1, <4>1, <2>1, <1>2
      <4> DEFINE b == s * w
      <4>3. n = U * b /\ b \in Int BY <4>2
      <4> HIDE DEF b
      <4>4. n % U = 0 BY <4>3, <1>1, <1>2, NoRemainder
      <4> QED BY <4>4, <2>1
    <3>2. t * (4 * h) = (2 * h - 1) * U BY <3>1, <2>1, <2>3 DEF JustBelow
    <3>3. TwoTo[Precision + 1] = 4 * h
      <4> DEFINE i == Precision + 1
      <4>1. i \in 1 .. Reach /\ i - 1 = Precision BY Widths
      <4> HIDE DEF i
      <4>2. TwoTo[i] = 2 * TwoTo[i - 1] BY <4>1, TwoToNext
      <4> QED BY <4>1, <4>2, <1>4 DEF i, p
    <3>4. RoundMisses(x) BY <3>2, <3>3, <2>1, <1>4, <1>7, <1>9
    <3>5. 2 * Size(W * d - t) <= 2 * d BY <2>1, <2>3
    <3> QED BY <3>4, <3>5, <1>5
  <2> QED BY <2>2, <2>3, <1>3
<1> QED BY <1>8, <1>9

LEMMA RoundIs ==
  ASSUME NEW n, NEW d, FloatValue(n, d), NEW x, x = [int |-> FALSE, n |-> n, d |-> d] PROVE RoundOk(x)
<1> DEFINE s == IF n < 0 THEN -1 ELSE 1 t == Size(n) z == IF d = 1 THEN t * Unit ELSE t H == TwoTo[FractionBits - 1]
           a == 2 * n + (IF n < 0 THEN -d ELSE d) c == 2 * d N == s * (z + H) m == Rounded(a * Unit, c)
           y == Round(x)
<1>1. n \in Int /\ d \in Nat \ {0} BY ValueIs
<1>2. ~x.int /\ x.n = n /\ x.d = d OBVIOUS
<1>3. y = IntPart(FloatNode(a, c)) BY <1>2 DEF Round
<1>4. (s = 1 \/ s = -1) /\ s \in Int /\ Unit \in Nat \ {0} BY UnitIs
<1>5. /\ a \in Int /\ c \in Nat \ {0} /\ a = 2 * n + s * d /\ n = s * t
      /\ a * Unit = N * c /\ Size(a) <= (16 * (TwoTo[IntBits - 1] * TwoTo[IntBits - 1])) * c
      /\ z \in Nat /\ H \in Nat \ {0} /\ Unit = 2 * H /\ Representable(z)
      /\ (z % Unit = 0 \/ z < TwoTo[Precision] * Unit)
  <2>1. s = (IF n < 0 THEN -1 ELSE 1) /\ z = (IF d = 1 THEN Size(n) * Unit ELSE Size(n)) /\ H = TwoTo[FractionBits - 1]
    OBVIOUS
  <2> HIDE DEF s, z, H
  <2> QED BY <2>1, SumOf
<1>6. H = TwoTo[FractionBits - 1] /\ z = (IF d = 1 THEN Size(n) * Unit ELSE Size(n)) /\ m = Rounded(a * Unit, c)
      /\ N = s * (z + H)
  OBVIOUS
<1> HIDE DEF s, t, z, H, a, c, m, y, N
<1>7. N \in Int BY <1>4, <1>5, <1>6
<1>8. PICK k : Rounds(a * Unit, c, m, k) BY <1>5, <1>6, FractionRounds
<1>9. m \in Int BY <1>8 DEF Rounds
<1>10. Rem(a, c) = 0 => Nearest(Quot(a, c)) = Quot(a, c) /\ Quot(a, c) \in Int /\ a = c * Quot(a, c)
  <2> SUFFICES ASSUME Rem(a, c) = 0 PROVE Nearest(Quot(a, c)) = Quot(a, c) /\ Quot(a, c) \in Int /\ a = c * Quot(a, c)
    OBVIOUS
  <2>1. Rem(a, 2 * d) = 0 BY DEF c
  <2>2. a \in Int /\ a = 2 * n + s * d BY <1>5
  <2>3. /\ Nearest(Quot(a, 2 * d)) = Quot(a, 2 * d) /\ Quot(a, 2 * d) \in Int /\ a = (2 * d) * Quot(a, 2 * d)
    BY <2>1, <2>2, <1>4, ExactKept
  <2> QED BY <2>3, Zenon DEF c
<1>11. y.d = 1 /\ y.n = IF Rem(a, c) = 0 THEN Quot(a, c) ELSE Quot(m, Unit)
  BY <1>3, <1>5, <1>6, <1>8, <1>10, IntPartOfNode
<1>12. CASE Rem(a, c) = 0
  <2> DEFINE q == Quot(a, c)
  <2>1. q \in Int /\ a = (2 * d) * q /\ y.n = q BY <1>10, <1>11, <1>12 DEF c
  <2> HIDE DEF q
  <2>2. 2 * Size(q * d - n) <= d BY <2>1, <1>1, <1>4, <1>5, RoundExact
  <2>3. 2 * Size(q * d - n) <= IF RoundMisses(x) THEN 2 * d ELSE d
    <3>1. Size(q * d - n) \in Int BY <2>1, <1>1 DEF Size
    <3> QED BY <2>2, <3>1, <1>1
  <2> QED BY <2>1, <2>3, <1>2, <1>11, Zenon DEF RoundOk, y
<1>13. CASE Rem(a, c) # 0
  <2>1. PICK u, q : RoundedTo(N, m, k, u, q) BY <1>5, <1>7, <1>8, RoundedToIs
  <2>2. u \in Nat \ {0} BY <2>1, TwoToPositive, Widths DEF RoundedTo
  <2> DEFINE M == s * m W == M \div Unit
  <2>3. M \in Int /\ s * M = m BY <1>4, <1>9
  <2>4. \E e : RoundedTo(z + H, M, k, u, e)
    <3>1. CASE s = 1
      <4>1. N = z + H /\ M = m BY <3>1, <1>5, <1>6, <1>9
      <4> QED BY <2>1, <4>1
    <3>2. CASE s = -1
      <4>1. -N = z + H /\ M = -m BY <3>2, <1>5, <1>6, <1>9
      <4>2. RoundedTo(-N, -m, k, u, -q) BY <2>1, <2>2, <1>7, <1>9, RoundedOpposite
      <4> HIDE DEF M, W
      <4> QED BY <4>1, <4>2
    <3> QED BY <3>1, <3>2, <1>4
  <2> HIDE DEF M
  <2>5. PICK e : RoundedTo(z + H, M, k, u, e) BY <2>4
  <2>6. HalfRight(z, W) BY <2>5, <1>5, <1>6, HalfUp
  <2>7. M >= 0
    <3>1. e \in Int /\ M = u * e /\ 2 * Size(M - (z + H)) <= u BY <2>5 DEF RoundedTo
    <3> DEFINE b == z + H o == 0
    <3>2. b \in Int /\ b >= 0 /\ 2 * Size(u * e - b) <= u /\ u * o = 0 /\ o \in Int BY <3>1, <1>5, <2>2
    <3>3. b >= u * o BY <3>2
    <3> HIDE DEF b, o
    <3>4. u * e >= u * o BY <3>1, <3>2, <3>3, <2>2, Pinned
    <3> QED BY <3>1, <3>2, <3>4
  <2>8. Quot(m, Unit) = s * W
    <3>1. Quot(m, Unit) = IF m < 0 THEN -(Size(m) \div Unit) ELSE Size(m) \div Unit BY <1>4, <1>9, QuotSigned
    <3>2. Size(m) = M
      <4>1. s = 1 => m = M BY <2>3
      <4>2. s = -1 => m = -M BY <2>3
      <4> QED BY <4>1, <4>2, <2>3, <2>7, <1>4 DEF Size
    <3>3. W \in Int BY <2>6 DEF HalfRight
    <3>4. m < 0 => s = -1
      <4>1. s = 1 => m = M BY <2>3
      <4>2. M >= 0 => ~(M < 0) BY <2>3
      <4> HIDE DEF W
      <4> QED BY <4>1, <4>2, <2>7, <1>4, Zenon
    <3>5. s = -1 /\ ~(m < 0) => W = 0
      <4> SUFFICES ASSUME s = -1, ~(m < 0) PROVE W = 0 OBVIOUS
      <4>1. M = 0
        <5>1. m = -M BY <2>3
        <5> QED BY <5>1, <2>3, <2>7, <1>9
      <4> QED BY <4>1, <1>4
    <3>6. Quot(m, Unit) = IF m < 0 THEN -W ELSE W BY <3>1, <3>2
    <3> HIDE DEF W
    <3> QED BY <3>3, <3>4, <3>5, <3>6, <1>4
  <2> HIDE DEF W
  <2>9. 2 * Size((s * W) * d - n) <= IF RoundMisses(x) THEN 2 * d ELSE d
    <3>1. n = s * Size(n) BY <1>5 DEF t
    <3> QED BY <3>1, <2>6, <1>4, <1>6, BackFromUnits
  <2>10. y.n = s * W BY <2>8, <1>11, <1>13
  <2> QED BY <2>9, <2>10, <1>2, <1>11, Zenon DEF RoundOk, y
<1> QED BY <1>12, <1>13

\* What the properties ask of the conversions.
Converts(x) ==
  /\ LET i == IntPart(x) IN /\ i.d = 1 /\ Size(i.n) * x.d <= Size(x.n) /\ Size(x.n) < (Size(i.n) + 1) * x.d
                            /\ ~x.int /\ Size(x.n) <= MAXLOGOINT * x.d => i.int
  /\ RoundOk(x)
  /\ IntegerArg(x) # Bad => IntegerArg(x).int /\ IntegerArg(x).n * x.d = x.n

LEMMA IntConverts ==
  ASSUME NEW n \in Ints PROVE Converts(IntNode(n))
<1> DEFINE x == IntNode(n)
<1>1. x.int /\ x.n = n /\ x.d = 1 BY IntNodeIs
<1>2. IntPart(x) = x /\ Round(x) = x /\ IntegerArg(x) = x BY <1>1 DEF IntPart, Round, IntegerArg
<1>3. n \in Int /\ Size(n) \in Nat BY IntRange
<1> HIDE DEF x
<1>4. Size(n) * 1 <= Size(n) /\ Size(n) < (Size(n) + 1) * 1 /\ 2 * Size(n * 1 - n) <= 1 /\ n * 1 = n
  <2>1. Size(0) = 0 /\ n * 1 - n = 0 BY <1>3 DEF Size
  <2> QED BY <2>1, <1>3
<1>5. RoundOk(x)
  <2>1. ~RoundMisses(x) BY <1>1 DEF RoundMisses
  <2> QED BY <2>1, <1>1, <1>2, <1>4, Zenon DEF RoundOk
<1>6. Converts(x) BY <1>1, <1>2, <1>4, <1>5, Zenon DEF Converts
<1> QED BY <1>6 DEF x

LEMMA FloatConverts ==
  ASSUME NEW n, NEW d, FloatValue(n, d) PROVE Converts([int |-> FALSE, n |-> n, d |-> d])
<1> DEFINE x == [int |-> FALSE, n |-> n, d |-> d] q == Quot(n, d) i == IntPart(x)
<1>1. n \in Int /\ d \in Nat \ {0} BY ValueIs
<1>2. i.n = q /\ i.d = 1 /\ (Size(n) <= MAXLOGOINT * d => i.int) BY <1>1, QuotKept, IntPartIs
<1>3. Size(q) * d <= Size(n) /\ Size(n) < (Size(q) + 1) * d BY <1>1, QuotIs DEF Part0
<1>4. ~x.int /\ x.n = n /\ x.d = d BY FloatIs
<1>5. RoundOk(x) BY RoundIs
<1> HIDE DEF x, q, i
<1>6. IntegerArg(x) # Bad => IntegerArg(x).int /\ IntegerArg(x).n * d = n
  <2> SUFFICES ASSUME IntegerArg(x) # Bad PROVE IntegerArg(x).int /\ IntegerArg(x).n * d = n OBVIOUS
  <2>1. d = 1 /\ IntegerArg(x) = IntNode(n) BY <1>4, Zenon DEF IntegerArg
  <2>2. n * 1 = n BY <1>1
  <2> QED BY <2>1, <2>2, IntNodeIs
<1>7. Converts(x) BY <1>2, <1>3, <1>4, <1>5, <1>6, Zenon DEF Converts, i
<1> QED BY <1>7 DEF x

LEMMA ConversionsAreRight == ConversionsKeepValue
<1>1. ASSUME NEW x \in SomeNumbers PROVE Converts(x) BY NumberIs, IntConverts, FloatConverts, Zenon
<1> QED BY <1>1, Zenon DEF ConversionsKeepValue, Converts, RoundOk
----
(* Arithmetic is right at any width of the integers, at any precision of *)
(* the floats that is smaller by two bits or more, and for any floats that *)
(* have that precision (math.c:168-590), however each operation rounds: *)
(* sums, differences and products are exact or near, quotients too and *)
(* they fit the remainders, comparisons keep the order and conversions the *)
(* value, but for the floats that ROUND misses. *)
THEOREM NumbersStayRight == DataSpec => []NumbersAreRight
<1>1. NumbersAreRight
  BY SumsAreRight, DivisionIsRight, OrderIsRight, ConversionsAreRight DEF NumbersAreRight, Once
<1> QED BY <1>1, PTL
=============================================================================
