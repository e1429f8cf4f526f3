---------------------------- MODULE EvaluatorProofs ----------------------------
(***************************************************************************)
(* The registers' types and the match of the two stacks, for every program *)
(* of the language below: any procedures and macros, instructions of any   *)
(* length, in lists nested to any depth.                                   *)
(*                                                                         *)
(* The argument.  The stacks are what pushing one frame for each           *)
(* continuation to come makes of empty ones, and each frame is sound: a    *)
(* continuation finds in its frame what it puts back into the registers.   *)
(* Good is the least set of stacks closed under such pushes, so that a     *)
(* stack can be popped without an induction.  For the frames to be sound,  *)
(* the registers have to fit the label: inputs that are being evaluated    *)
(* fit their procedure; and a list that a macro returns, which is marked   *)
(* by the stopping flag alone, comes to five continuations and no other.   *)
(***************************************************************************)
EXTENDS Evaluator, SequenceTheorems, WellFoundedInduction, TLAPS

CONSTANTS
    Exp, Val,  \* expressions, and the words and lists there are
    Proc       \* the names of procedures

-----------------------------------------------------------------------------
(* The language. *)

IsWord(e) == IsConst(e) /\ e.v.t = "word"
IsList(e) == IsConst(e) /\ e.v.t = "list"

\* The inputs that an operation is given.  The lists and names that RUN,
\* RUNRESULT, REPEAT, CATCH, APPLY and THROW take are written in the program.
Fits(op, args) ==
    \/ op \in Proc
    \/ op \in {"print", "output", ".maybeoutput"} /\ Len(args) = 1
    \/ op = "stop" /\ args = <<>>
    \/ op = "throw" /\ Len(args) \in {1, 2} /\ IsWord(args[1])
    \/ op \in {"run", "runresult", "repeat"} /\ Len(args) = 1 /\ IsList(args[1])
    \/ op = "catch" /\ Len(args) = 2 /\ IsWord(args[1]) /\ IsList(args[2])
    \/ op = "apply" /\ Len(args) = 1 /\ (IsList(args[1]) \/ (IsWord(args[1]) /\ args[1].v.w \in Proc))

\* Words and lists of expressions; literals and operations with their inputs; and
\* what RUNRESULT makes of a value.
Language ==
    /\ \A v \in Val : (v.t = "word" /\ v = Word(v.w)) \/ (v.t = "list" /\ v = ListOf(v.l) /\ v.l \in Seq(Exp))
    /\ \A e \in Exp : (IsConst(e) /\ e.v \in Val) \/ (~IsConst(e) /\ e.args \in Seq(Exp) /\ Fits(e.op, e.args))
    /\ ListOf(<<>>) \in Val
    /\ \A v \in Val : Const(v) \in Exp /\ ListOf(<<Const(v)>>) \in Val
    /\ Proc \cap (Primitive \cup {"const", "none"}) = {} /\ Macro \subseteq Proc
    /\ \A p \in Program : p.line \in Seq(Exp) /\ p.body \in [Proc -> Seq(Exp)]

-----------------------------------------------------------------------------
(* Registers. *)

Result == Val \cup {Unbound}
Ufun == Proc \cup {"none"}
Fun == Primitive \cup Ufun
Tag == {v.w : v \in {x \in Val : x.t = "word"}} \cup {"none", "error"}
Getter == {NotWanted, MayCome, WantedByMacro} \cup {Wanted(f) : f \in Ufun}
StatusSet == SUBSET {"VALUE_OK", "NO_VALUE_OK", "OUTPUT_OK", "STOP_OK", "OUTPUT_TAIL", "STOP_TAIL"}
Regs == [argl : Seq(Val), unev : Seq(Exp), fun : Fun, ufun : Ufun, last_ufun : Ufun,
         current_unode : Nat, didnt_get_output : Getter, status : StatusSet,
         tailcall : {-1, 0, 1}, repcount : 0 .. Times]
Signal == [flag : {"RUN", "STOP", "OUTPUT", "THROWING", "MACRO_RETURN"}, tag : Tag,
           out : Result, unode : Nat]

\* The inputs so far and those to come, of one call.
Inputs(x) ==
    \E args \in Seq(Exp) :
        /\ Fits(x.fun, args)
        /\ Len(x.argl) + Len(x.unev) = Len(args)
        /\ \A i \in 1 .. Len(x.unev) : x.unev[i] = args[Len(x.argl) + i]
        /\ \A i \in 1 .. Len(x.argl) : IsConst(args[i]) => x.argl[i] = args[i].v

\* v is the next one.
InputNext(x, v) ==
    /\ x.unev # <<>> /\ Inputs(x) /\ v \in Val
    /\ IsConst(Head(x.unev)) => v = Head(x.unev).v

\* Where a list marked MACRO_RETURN may come: two continuations look for the mark,
\* after_lambda passes it on, and the two of OUTPUT and .MAYBEOUTPUT where a STOP is
\* wanted take the list for the value (eval.c:957, eval.c:1035).
Taker == {"accumulate_arg", "eval_sequence_continue", "op_want_stop", "after_maybeoutput", "after_lambda"}
MacroGoesTo(f, tailcall, label) == IsMacro(f) /\ tailcall <= 0 => label \in Taker

\* Where a primitive that is a macro goes on, and with what.
Place == {"runresult_continuation", "repeat_continuation", "catch_continuation", "begin_apply"}
Fitting(label, args) ==
    /\ args \in Seq(Val) /\ label \in Place
    /\ label \in {"runresult_continuation", "repeat_continuation"} => Len(args) = 1 /\ args[1].t = "list"
    /\ label = "catch_continuation" => Len(args) = 2 /\ args[1].t = "word" /\ args[2].t = "list"
    /\ label = "begin_apply" => Len(args) = 1 /\ (args[1].t = "list" \/ (args[1].t = "word" /\ args[1].w \in Proc))

-----------------------------------------------------------------------------
(* Frames and stacks. *)

Plain == {"end_line", "after_const_arg", "after_constant", "op_want_stop", "after_maybeoutput"}
Cont == Plain \cup {"all_done", "accumulate_arg", "fall_off_want_output", "eval_sequence_continue",
                    "macro_return", "runresult_followup", "repeat_followup", "catch_followup",
                    "after_lambda"}

StatusCell == [status : StatusSet, tailcall : {-1, 0, 1}]
MacroCell == [unode : Nat, dgo : Getter]
CatchCell == [dgo : Getter, unode : Nat, tag : Tag]
StackKind == {"regs", "current_unode", "didnt_get_output", "macro", "repeat", "catch", "var"}
StackValue == Regs \cup Nat \cup Getter \cup MacroCell \cup CatchCell \cup Seq(Exp) \cup {"var_stack"}
StackCell == [k : StackKind, v : StackValue]
NumKind == {"cont", "status", "repcount"}
NumValue == Nat \cup StatusCell \cup Cont \cup {"none"}
NumCell == [k : NumKind, v : NumValue]

\* What a continuation leaves on the stacks, above the continuation below; u is
\* the number of procedure calls so far.
Frame(u, label, below, cells, nums) ==
    \/ /\ label = "all_done" /\ below = "none" /\ nums = <<>>
       /\ \E x \in Regs : x.current_unode <= u /\ cells = <<Cell("regs", x)>>
    \/ /\ below \in Cont \ {"after_const_arg"}
       /\ \/ label \in Plain /\ cells = <<>> /\ nums = <<>>
          \/ /\ label = "eval_sequence_continue" /\ nums = <<>>
             /\ \E x \in Regs : x.current_unode <= u /\ cells = <<Cell("regs", x)>>
          \/ /\ label = "accumulate_arg" /\ nums = <<>>
             /\ \E x \in Regs, n \in 0 .. u :
                    /\ cells = <<Cell("regs", x), Cell("current_unode", n)>>
                    /\ x.current_unode <= u /\ Inputs(x) /\ x.unev # <<>> /\ ~IsConst(Head(x.unev))
                    /\ MacroGoesTo(x.fun, x.tailcall, below)
          \/ /\ label = "fall_off_want_output" /\ nums = <<>>
             /\ \E d \in Getter : cells = <<Cell("didnt_get_output", d)>>
          \/ /\ label = "macro_return"
             /\ \E m \in MacroCell : m.unode <= u /\ cells = <<Cell("macro", m)>>
             /\ \E s \in StatusCell : nums = <<Cell("status", s)>> /\ (s.tailcall <= 0 => below \in Taker)
          \/ /\ label = "runresult_followup" /\ nums = <<>>
             /\ \E n \in 0 .. u : cells = <<Cell("current_unode", n)>>
          \/ /\ label = "repeat_followup"
             /\ \E l \in Seq(Exp) : cells = <<Cell("repeat", l)>>
             /\ \E a \in 0 .. Times, b \in 1 .. Times, s \in StatusCell :
                    nums = <<Cell("repcount", a), Cell("repcount", b), Cell("status", s)>>
          \/ /\ label = "catch_followup"
             /\ \E c \in CatchCell : c.unode <= u /\ cells = <<Cell("catch", c)>>
             /\ \E s \in StatusCell : nums = <<Cell("status", s)>>
          \/ /\ label = "after_lambda" /\ nums = <<>> /\ below \in Taker
             /\ cells = <<Cell("var", "var_stack")>>

\* A pair of stacks with the continuation register.
Config == Seq(StackCell) \X Seq(NumCell) \X (Cont \cup {"none"})
Empty == <<<<>>, <<>>, "none">>
Push(c, label, cells, nums) == <<c[1] \o cells, c[2] \o nums \o <<Cell("cont", c[3])>>, label>>
Closed(u, X) ==
    /\ Empty \in X
    /\ \A c \in X, label \in Cont, cells \in Seq(StackCell), nums \in Seq(NumCell) :
           Frame(u, label, c[3], cells, nums) => Push(c, label, cells, nums) \in X
Good(u, stk, nms, label) == \A X \in SUBSET Config : Closed(u, X) => <<stk, nms, label>> \in X

LEMMA CellType ==
  ASSUME NEW K, NEW T, NEW k \in K, NEW v \in T
  PROVE  Cell(k, v) \in [k : K, v : T]
  BY DEF Cell

LEMMA SeqTypes ==
  ASSUME NEW S
  PROVE  /\ <<>> \in Seq(S)
         /\ \A a \in S : <<a>> \in Seq(S)
         /\ \A a, b \in S : <<a, b>> \in Seq(S)
         /\ \A a, b, c \in S : <<a, b, c>> \in Seq(S)
  OBVIOUS

LEMMA FrameType ==
  ASSUME NEW u \in Nat, NEW label, NEW below, NEW cells, NEW nums, Frame(u, label, below, cells, nums)
  PROVE  /\ label \in Cont /\ below \in Cont \cup {"none"}
         /\ cells \in Seq(StackCell) /\ nums \in Seq(NumCell)
<1>1. label \in Cont /\ below \in Cont \cup {"none"}
  BY DEF Frame, Cont
<1>2. \A k \in StackKind, v \in StackValue : Cell(k, v) \in StackCell
  BY CellType DEF StackCell
<1>3. \A k \in NumKind, v \in NumValue : Cell(k, v) \in NumCell
  BY CellType DEF NumCell
<1>4. cells \in Seq(StackCell)
  <2>1. \/ cells = <<>>
        \/ \E k \in StackKind, v \in StackValue : cells = <<Cell(k, v)>>
        \/ \E v, w \in StackValue : cells = <<Cell("regs", v), Cell("current_unode", w)>>
    <3>1. /\ \A x \in Regs : x \in StackValue
          /\ \A n \in 0 .. u : n \in StackValue
          /\ \A d \in Getter : d \in StackValue
          /\ \A m \in MacroCell : m \in StackValue
          /\ \A l \in Seq(Exp) : l \in StackValue
          /\ \A c \in CatchCell : c \in StackValue
          /\ "var_stack" \in StackValue
      BY DEF StackValue
    <3>2. {"regs", "current_unode", "didnt_get_output", "macro", "repeat", "catch", "var"} \subseteq StackKind
      BY DEF StackKind
    <3>3. \/ cells = <<>>
          \/ \E x \in Regs : cells = <<Cell("regs", x)>>
          \/ \E x \in Regs, n \in 0 .. u : cells = <<Cell("regs", x), Cell("current_unode", n)>>
          \/ \E d \in Getter : cells = <<Cell("didnt_get_output", d)>>
          \/ \E m \in MacroCell : cells = <<Cell("macro", m)>>
          \/ \E n \in 0 .. u : cells = <<Cell("current_unode", n)>>
          \/ \E l \in Seq(Exp) : cells = <<Cell("repeat", l)>>
          \/ \E c \in CatchCell : cells = <<Cell("catch", c)>>
          \/ cells = <<Cell("var", "var_stack")>>
      BY DEF Frame
    <3> QED
      BY <3>1, <3>2, <3>3, Zenon
  <2>2. {"regs", "current_unode"} \subseteq StackKind
    BY DEF StackKind
  <2> QED
    BY <1>2, <2>1, <2>2, SeqTypes, Zenon
<1>5. nums \in Seq(NumCell)
  <2>1. \/ nums = <<>>
        \/ \E s \in NumValue : nums = <<Cell("status", s)>>
        \/ \E a, b, s \in NumValue :
               nums = <<Cell("repcount", a), Cell("repcount", b), Cell("status", s)>>
    <3>1. /\ \A n \in 0 .. Times : n \in NumValue
          /\ \A n \in 1 .. Times : n \in NumValue
          /\ \A s \in StatusCell : s \in NumValue
      BY TimesAssumption DEF NumValue
    <3>2. \/ nums = <<>>
          \/ \E s \in StatusCell : nums = <<Cell("status", s)>>
          \/ \E a \in 0 .. Times, b \in 1 .. Times, s \in StatusCell :
                 nums = <<Cell("repcount", a), Cell("repcount", b), Cell("status", s)>>
      BY DEF Frame
    <3> QED
      BY <3>1, <3>2, Zenon
  <2>2. {"status", "repcount"} \subseteq NumKind
    BY DEF NumKind
  <2> QED
    BY <1>3, <2>1, <2>2, SeqTypes, Zenon
<1> QED
  BY <1>1, <1>4, <1>5

LEMMA ContCell ==
  ASSUME NEW label \in Cont \cup {"none"}
  PROVE  Cell("cont", label) \in NumCell
  BY CellType DEF NumCell, NumKind, NumValue

LEMMA ConfigForm ==
  ASSUME NEW c \in Config
  PROVE  /\ c[1] \in Seq(StackCell) /\ c[2] \in Seq(NumCell) /\ c[3] \in Cont \cup {"none"}
         /\ c = <<c[1], c[2], c[3]>>
  BY DEF Config

LEMMA PushType ==
  ASSUME NEW u \in Nat, NEW c \in Config, NEW label, NEW cells, NEW nums,
         Frame(u, label, c[3], cells, nums)
  PROVE  Push(c, label, cells, nums) \in Config
<1>1. label \in Cont /\ cells \in Seq(StackCell) /\ nums \in Seq(NumCell)
  BY FrameType
<1>2. c[1] \in Seq(StackCell) /\ c[2] \in Seq(NumCell) /\ Cell("cont", c[3]) \in NumCell
  BY ConfigForm, ContCell
<1>3. c[1] \o cells \in Seq(StackCell) /\ c[2] \o nums \o <<Cell("cont", c[3])>> \in Seq(NumCell)
  BY <1>1, <1>2
<1> QED
  BY <1>1, <1>3 DEF Push, Config

LEMMA EmptyType == Empty \in Config
  BY SeqTypes DEF Empty, Config

LEMMA GoodType ==
  ASSUME NEW u \in Nat, NEW stk, NEW nms, NEW label, Good(u, stk, nms, label)
  PROVE  stk \in Seq(StackCell) /\ nms \in Seq(NumCell) /\ label \in Cont \cup {"none"}
<1>1. Closed(u, Config)
  BY EmptyType, PushType DEF Closed
<1>2. <<stk, nms, label>> \in Config
  BY <1>1 DEF Good
<1> QED
  BY <1>2 DEF Config

LEMMA GoodEmpty == \A u : Good(u, <<>>, <<>>, "none")
  BY DEF Good, Closed, Empty

LEMMA GoodPush ==
  ASSUME NEW u \in Nat, NEW stk, NEW nms, NEW below, Good(u, stk, nms, below),
         NEW label, NEW cells, NEW nums, Frame(u, label, below, cells, nums)
  PROVE  Good(u, stk \o cells, nms \o nums \o <<Cell("cont", below)>>, label)
<1> SUFFICES ASSUME NEW X \in SUBSET Config, Closed(u, X)
             PROVE  <<stk \o cells, nms \o nums \o <<Cell("cont", below)>>, label>> \in X
  BY DEF Good
<1>1. <<stk, nms, below>> \in X
  BY DEF Good
<1>2. label \in Cont /\ cells \in Seq(StackCell) /\ nums \in Seq(NumCell)
  BY FrameType
<1>3. Push(<<stk, nms, below>>, label, cells, nums) \in X
  BY <1>1, <1>2 DEF Closed
<1> QED
  BY <1>3 DEF Push

\* What is good was pushed on something good.
Pushed(u, stk, nms, label) ==
    \E stk0, nms0, below, cells, nums :
        /\ Good(u, stk0, nms0, below)
        /\ Frame(u, label, below, cells, nums)
        /\ stk = stk0 \o cells
        /\ nms = nms0 \o nums \o <<Cell("cont", below)>>

LEMMA GoodPop ==
  ASSUME NEW u \in Nat, NEW stk, NEW nms, NEW label, Good(u, stk, nms, label), label # "none"
  PROVE  Pushed(u, stk, nms, label)
<1> DEFINE G(c) == Good(u, c[1], c[2], c[3])
           IsPush(c) == \E d \in Config, l \in Cont, cells \in Seq(StackCell), nums \in Seq(NumCell) :
                            G(d) /\ Frame(u, l, d[3], cells, nums) /\ c = Push(d, l, cells, nums)
           X == {c \in Config : G(c) /\ (c = Empty \/ IsPush(c))}
<1>1. Empty \in X
  BY EmptyType, GoodEmpty DEF Empty
<1>2. ASSUME NEW c \in X, NEW l \in Cont, NEW cells \in Seq(StackCell), NEW nums \in Seq(NumCell),
             Frame(u, l, c[3], cells, nums)
      PROVE  Push(c, l, cells, nums) \in X
  <2>1. c \in Config /\ G(c)
    OBVIOUS
  <2>2. Push(c, l, cells, nums) \in Config
    BY <1>2, <2>1, PushType
  <2>3. G(Push(c, l, cells, nums))
    BY <1>2, <2>1, GoodPush DEF Push
  <2>4. IsPush(Push(c, l, cells, nums))
    BY <1>2, <2>1
  <2> QED
    BY <2>2, <2>3, <2>4
<1>3. Closed(u, X)
  <2> HIDE DEF X
  <2> QED
    BY <1>1, <1>2 DEF Closed
<1>4. <<stk, nms, label>> \in X
  BY <1>3 DEF Good
<1>5. IsPush(<<stk, nms, label>>)
  BY <1>4 DEF Empty
<1>6. PICK d \in Config, l \in Cont, cells \in Seq(StackCell), nums \in Seq(NumCell) :
          G(d) /\ Frame(u, l, d[3], cells, nums) /\ <<stk, nms, label>> = Push(d, l, cells, nums)
  BY <1>5
<1>7. stk = d[1] \o cells /\ nms = d[2] \o nums \o <<Cell("cont", d[3])>> /\ label = l
  BY <1>6 DEF Push
<1> QED
  BY <1>6, <1>7 DEF Pushed

\* A procedure call spoils nothing.
LEMMA GoodLater ==
  ASSUME NEW u \in Nat, NEW stk, NEW nms, NEW label, Good(u, stk, nms, label)
  PROVE  Good(u + 1, stk, nms, label)
<1>1. ASSUME NEW l, NEW below, NEW cells, NEW nums, Frame(u, l, below, cells, nums)
      PROVE  Frame(u + 1, l, below, cells, nums)
  BY <1>1 DEF Frame, Regs, MacroCell, CatchCell
<1>2. ASSUME NEW X \in SUBSET Config, Closed(u + 1, X) PROVE Closed(u, X)
  BY <1>1, <1>2 DEF Closed
<1> QED
  BY <1>2 DEF Good

-----------------------------------------------------------------------------
(* Good stacks match. *)

LEMMA Least ==
  ASSUME NEW T \in SUBSET Nat, T # {}
  PROVE  \E n \in T : \A m \in T : n <= m
<1> DEFINE R == OpToRel(<, Nat)
<1>1. IsWellFoundedOn(R, Nat)
  BY NatLessThanWellFounded
<1> HIDE DEF R
<1>2. PICK n \in T : \A m \in T : ~(<<m, n>> \in R)
  BY <1>1, WFMin
<1>3. \A m \in T : ~(m < n)
  BY <1>2 DEF OpToRel, R
<1> QED
  BY <1>3

\* The function that Expected defines by recursion, up to n.
Nothing == [regs |-> <<>>, nums |-> <<>>]
Then(s, c) == IF c.k = "cont" THEN With(s, c.v) ELSE s
UpTo(nms, n, f) == f = [i \in 0 .. n |-> IF i = 0 THEN Nothing ELSE Then(f[i - 1], nms[i])]

LEMMA UpToIs ==
  ASSUME NEW nms, NEW n \in Nat, NEW f, UpTo(nms, n, f)
  PROVE  f[0] = Nothing /\ \A i \in 1 .. n : f[i] = Then(f[i - 1], nms[i])
<1>1. \A i \in 0 .. n : f[i] = IF i = 0 THEN Nothing ELSE Then(f[i - 1], nms[i])
  BY Zenon DEF UpTo
<1> QED
  BY <1>1

LEMMA UpToExists == ASSUME NEW nms, NEW n \in Nat PROVE \E f : UpTo(nms, n, f)
<1> DEFINE T == {m \in Nat : ~ \E f : UpTo(nms, m, f)}
<1> SUFFICES T = {}
  OBVIOUS
<1> SUFFICES ASSUME T # {} PROVE FALSE
  OBVIOUS
<1>1. PICK m \in T : \A k \in T : m <= k
  BY Least
<1>2. m # 0
  <2>1. UpTo(nms, 0, [i \in 0 .. 0 |-> Nothing])
    BY DEF UpTo
  <2> QED
    BY <2>1
<1>3. m - 1 \in Nat /\ m - 1 \notin T
  BY <1>1, <1>2
<1>4. PICK f : UpTo(nms, m - 1, f)
  BY <1>3
<1> DEFINE g == [i \in 0 .. m |-> IF i = m THEN Then(f[m - 1], nms[m]) ELSE f[i]]
<1>5. \A i \in 0 .. m : g[i] = IF i = 0 THEN Nothing ELSE Then(g[i - 1], nms[i])
  <2>1. f[0] = Nothing /\ \A i \in 1 .. m - 1 : f[i] = Then(f[i - 1], nms[i])
    BY <1>3, <1>4, UpToIs
  <2>2. ASSUME NEW i \in 0 .. m PROVE g[i] = IF i = 0 THEN Nothing ELSE Then(g[i - 1], nms[i])
    <3>1. CASE i = m
      <4>1. g[i] = Then(f[m - 1], nms[m]) /\ g[m - 1] = f[m - 1]
        BY <1>3, <3>1
      <4> HIDE DEF g
      <4> QED
        BY <1>2, <3>1, <4>1
    <3>2. CASE i # m /\ i # 0
      <4>1. i \in 1 .. m - 1 /\ g[i] = f[i] /\ g[i - 1] = f[i - 1]
        BY <3>2
      <4> HIDE DEF g
      <4> QED
        BY <2>1, <3>2, <4>1
    <3>3. CASE i = 0
      <4>1. g[i] = f[0]
        BY <1>2, <3>3
      <4> HIDE DEF g
      <4> QED
        BY <2>1, <3>3, <4>1
    <3> QED
      BY <3>1, <3>2, <3>3
  <2> QED
    BY <2>2
<1>6. UpTo(nms, m, g)
  <2>1. g = [i \in 0 .. m |-> g[i]]
    OBVIOUS
  <2> HIDE DEF g
  <2>2. [i \in 0 .. m |-> g[i]] = [i \in 0 .. m |-> IF i = 0 THEN Nothing ELSE Then(g[i - 1], nms[i])]
    BY <1>5, Zenon
  <2> QED
    BY <2>1, <2>2, Zenon DEF UpTo
<1> QED
  BY <1>1, <1>6

LEMMA UpToAgree ==
  ASSUME NEW a, NEW b, NEW n \in Nat, NEW m \in Nat, n <= m, \A i \in 1 .. n : a[i] = b[i],
         NEW f, NEW g, UpTo(a, n, f), UpTo(b, m, g)
  PROVE  f[n] = g[n]
<1> DEFINE T == {i \in 0 .. n : f[i] # g[i]}
<1> SUFFICES T = {}
  OBVIOUS
<1> SUFFICES ASSUME T # {} PROVE FALSE
  OBVIOUS
<1>1. PICK i \in T : \A k \in T : i <= k
  <2>1. T \in SUBSET Nat
    OBVIOUS
  <2> HIDE DEF T
  <2> QED
    BY <2>1, Least
<1>2. /\ f[0] = Nothing /\ \A j \in 1 .. n : f[j] = Then(f[j - 1], a[j])
      /\ g[0] = Nothing /\ \A j \in 1 .. m : g[j] = Then(g[j - 1], b[j])
  BY UpToIs
<1>3. i \in 1 .. n /\ i \in 1 .. m
  BY <1>2
<1>4. f[i - 1] = g[i - 1]
  BY <1>1, <1>3
<1> QED
  BY <1>2, <1>3, <1>4

LEMMA ExpectedIs ==
  ASSUME NEW nms, Len(nms) \in Nat
  PROVE  \E f : UpTo(nms, Len(nms), f) /\ Expected(nms) = f[Len(nms)]
<1> DEFINE f == CHOOSE f : UpTo(nms, Len(nms), f)
<1>1. UpTo(nms, Len(nms), f)
  BY UpToExists
<1>2. Expected(nms) = f[Len(nms)]
  BY Zenon DEF Expected, UpTo, Then, Nothing
<1> QED
  BY <1>1, <1>2

LEMMA ExpectedEmpty == Expected(<<>>) = Nothing
<1>1. PICK f : UpTo(<<>>, 0, f) /\ Expected(<<>>) = f[0]
  BY ExpectedIs
<1> QED
  BY <1>1, UpToIs

LEMMA ExpectedAppend ==
  ASSUME NEW nms \in Seq(NumCell), NEW c \in NumCell
  PROVE  Expected(nms \o <<c>>) = Then(Expected(nms), c)
<1> DEFINE n == Len(nms)
           s == nms \o <<c>>
<1>1. n \in Nat /\ Len(s) = n + 1 /\ s[n + 1] = c /\ \A i \in 1 .. n : nms[i] = s[i]
  OBVIOUS
<1> HIDE DEF n, s
<1>2. PICK f : UpTo(nms, n, f) /\ Expected(nms) = f[n]
  BY <1>1, ExpectedIs DEF n
<1>3. PICK g : UpTo(s, n + 1, g) /\ Expected(s) = g[n + 1]
  BY <1>1, ExpectedIs
<1>4. f[n] = g[n]
  BY <1>1, <1>2, <1>3, UpToAgree
<1>5. g[n + 1] = Then(g[n], c)
  <2>1. \A i \in 1 .. n + 1 : g[i] = Then(g[i - 1], s[i])
    BY <1>1, <1>3, UpToIs
  <2> QED
    BY <1>1, <2>1
<1> QED
  BY <1>2, <1>3, <1>4, <1>5 DEF s

LEMMA KindsOf ==
  /\ Kinds(<<>>) = <<>>
  /\ \A k, v : Kinds(<<Cell(k, v)>>) = <<k>>
  /\ \A k, v, l, w : Kinds(<<Cell(k, v), Cell(l, w)>>) = <<k, l>>
  /\ \A k, v, l, w, m, x : Kinds(<<Cell(k, v), Cell(l, w), Cell(m, x)>>) = <<k, l, m>>
<1>1. Kinds(<<>>) = <<>>
  BY DEF Kinds
<1>2. \A k, v : Kinds(<<Cell(k, v)>>) = <<k>>
  BY DEF Kinds, Cell
<1>3. \A k, v, l, w : Kinds(<<Cell(k, v), Cell(l, w)>>) = <<k, l>>
  BY DEF Kinds, Cell
<1>4. \A k, v, l, w, m, x : Kinds(<<Cell(k, v), Cell(l, w), Cell(m, x)>>) = <<k, l, m>>
  BY DEF Kinds, Cell
<1> QED
  BY <1>1, <1>2, <1>3, <1>4

Kinded(S, K) == \A c \in S : c.k \in K

LEMMA KindsType ==
  ASSUME NEW K, NEW S, Kinded(S, K), NEW q \in Seq(S)
  PROVE  Kinds(q) \in Seq(K) /\ Len(Kinds(q)) = Len(q) /\ \A i \in 1 .. Len(q) : Kinds(q)[i] = q[i].k
<1>1. DOMAIN q = 1 .. Len(q) /\ Len(q) \in Nat
  BY LenProperties
<1>2. \A i \in 1 .. Len(q) : q[i].k \in K
  <2>1. \A i \in 1 .. Len(q) : q[i] \in S
    BY ElementOfSeq
  <2> QED
    BY <2>1 DEF Kinded
<1>3. Kinds(q) = [i \in 1 .. Len(q) |-> q[i].k]
  BY <1>1 DEF Kinds
<1> HIDE DEF Kinds
<1>4. Kinds(q) \in [1 .. Len(q) -> K] /\ DOMAIN Kinds(q) = 1 .. Len(q)
  BY <1>2, <1>3
<1>5. Kinds(q) \in Seq(K)
  BY <1>1, <1>4, SeqDef
<1>6. Len(Kinds(q)) = Len(q)
  BY <1>1, <1>4, <1>5
<1>7. \A i \in 1 .. Len(q) : Kinds(q)[i] = q[i].k
  BY <1>3
<1> QED
  BY <1>5, <1>6, <1>7

LEMMA KindsConcat ==
  ASSUME NEW K, NEW S, Kinded(S, K), NEW s \in Seq(S), NEW t \in Seq(S)
  PROVE  Kinds(s \o t) = Kinds(s) \o Kinds(t)
<1>1. /\ Kinds(s) \in Seq(K) /\ Len(Kinds(s)) = Len(s)
      /\ \A i \in 1 .. Len(s) : Kinds(s)[i] = s[i].k
  BY KindsType
<1>2. /\ Kinds(t) \in Seq(K) /\ Len(Kinds(t)) = Len(t)
      /\ \A i \in 1 .. Len(t) : Kinds(t)[i] = t[i].k
  BY KindsType
<1>3. /\ s \o t \in Seq(S) /\ Len(s \o t) = Len(s) + Len(t)
      /\ \A i \in 1 .. Len(s) + Len(t) : (s \o t)[i] = IF i <= Len(s) THEN s[i] ELSE t[i - Len(s)]
  BY ConcatProperties
<1>4. /\ Kinds(s \o t) \in Seq(K) /\ Len(Kinds(s \o t)) = Len(s \o t)
      /\ \A i \in 1 .. Len(s \o t) : Kinds(s \o t)[i] = (s \o t)[i].k
  BY <1>3, KindsType
<1> DEFINE p == Kinds(s)
           q == Kinds(t)
           all == Kinds(s \o t)
           n == Len(s)
           m == Len(t)
<1>5. n \in Nat /\ m \in Nat
  BY LenProperties
<1>6. /\ p \o q \in Seq(K) /\ Len(p \o q) = n + m
      /\ \A i \in 1 .. n + m : (p \o q)[i] = IF i <= n THEN p[i] ELSE q[i - n]
  <2> HIDE DEF p, q
  <2>1. p \in Seq(K) /\ q \in Seq(K) /\ Len(p) = n /\ Len(q) = m
    BY <1>1, <1>2 DEF p, q
  <2>2. /\ p \o q \in Seq(K) /\ Len(p \o q) = Len(p) + Len(q)
        /\ \A i \in 1 .. Len(p) + Len(q) : (p \o q)[i] = IF i <= Len(p) THEN p[i] ELSE q[i - Len(p)]
    BY <2>1, ConcatProperties
  <2> HIDE DEF n, m
  <2> QED
    BY <2>1, <2>2
<1>7. \A i \in 1 .. n + m : all[i] = (p \o q)[i]
  <2> HIDE DEF p, q, all, n, m
  <2> SUFFICES ASSUME NEW i \in 1 .. n + m PROVE all[i] = (p \o q)[i]
    OBVIOUS
  <2>1. all[i] = (s \o t)[i].k
    BY <1>3, <1>4 DEF all, n, m
  <2>2. CASE i <= n
    <3>1. i \in 1 .. n
      BY <1>5, <2>2
    <3>2. p[i] = s[i].k
      BY <1>1, <3>1 DEF p, n
    <3>3. (s \o t)[i] = s[i]
      BY <1>3, <2>2 DEF n, m
    <3>4. (p \o q)[i] = p[i]
      BY <1>6, <2>2
    <3> QED
      BY <2>1, <3>2, <3>3, <3>4
  <2>3. CASE ~(i <= n)
    <3>1. i - n \in 1 .. m
      BY <1>5, <2>3
    <3>2. q[i - n] = t[i - n].k
      BY <1>2, <3>1 DEF q, m
    <3>3. (s \o t)[i] = t[i - n]
      BY <1>3, <2>3 DEF n, m
    <3>4. (p \o q)[i] = q[i - n]
      BY <1>6, <2>3
    <3> QED
      BY <2>1, <3>2, <3>3, <3>4
  <2> QED
    BY <2>2, <2>3
<1>8. all \in Seq(K) /\ Len(all) = n + m
  BY <1>3, <1>4
<1> HIDE DEF p, q, all, n, m
<1>9. all = p \o q
  BY <1>6, <1>7, <1>8, SeqEqual
<1> QED
  BY <1>9 DEF p, q, all

LEMMA FrameKinds ==
  ASSUME NEW u, NEW label, NEW below, NEW cells, NEW nums, Frame(u, label, below, cells, nums)
  PROVE  /\ Kinds(cells) = Saved(label) /\ Kinds(nums) = SavedNums(label)
         /\ label # "none"
         /\ \/ nums = <<>>
            \/ \E s : nums = <<Cell("status", s)>>
            \/ \E a, b, s : nums = <<Cell("repcount", a), Cell("repcount", b), Cell("status", s)>>
<1>1. \/ label \in Plain /\ cells = <<>> /\ nums = <<>>
      \/ label \in {"all_done", "eval_sequence_continue"} /\ nums = <<>> /\ \E x : cells = <<Cell("regs", x)>>
      \/ label = "accumulate_arg" /\ nums = <<>> /\ \E x, n : cells = <<Cell("regs", x), Cell("current_unode", n)>>
      \/ label = "fall_off_want_output" /\ nums = <<>> /\ \E d : cells = <<Cell("didnt_get_output", d)>>
      \/ label = "macro_return" /\ (\E m : cells = <<Cell("macro", m)>>) /\ \E s : nums = <<Cell("status", s)>>
      \/ label = "runresult_followup" /\ nums = <<>> /\ \E n : cells = <<Cell("current_unode", n)>>
      \/ /\ label = "repeat_followup" /\ \E l : cells = <<Cell("repeat", l)>>
         /\ \E a, b, s : nums = <<Cell("repcount", a), Cell("repcount", b), Cell("status", s)>>
      \/ label = "catch_followup" /\ (\E c : cells = <<Cell("catch", c)>>) /\ \E s : nums = <<Cell("status", s)>>
      \/ label = "after_lambda" /\ nums = <<>> /\ cells = <<Cell("var", "var_stack")>>
  BY DEF Frame
<1>2. /\ \A l \in Plain : Saved(l) = <<>> /\ SavedNums(l) = <<>>
      /\ \A l \in {"all_done", "eval_sequence_continue"} : Saved(l) = <<"regs">> /\ SavedNums(l) = <<>>
      /\ Saved("accumulate_arg") = <<"regs", "current_unode">> /\ SavedNums("accumulate_arg") = <<>>
      /\ Saved("fall_off_want_output") = <<"didnt_get_output">> /\ SavedNums("fall_off_want_output") = <<>>
      /\ Saved("macro_return") = <<"macro">> /\ SavedNums("macro_return") = <<"status">>
      /\ Saved("runresult_followup") = <<"current_unode">> /\ SavedNums("runresult_followup") = <<>>
      /\ Saved("repeat_followup") = <<"repeat">> /\ SavedNums("repeat_followup") = <<"repcount", "repcount", "status">>
      /\ Saved("catch_followup") = <<"catch">> /\ SavedNums("catch_followup") = <<"status">>
      /\ Saved("after_lambda") = <<"var">> /\ SavedNums("after_lambda") = <<>>
  BY DEF Saved, SavedNums, Plain
<1>3. "none" \notin Plain
  BY DEF Plain
<1>4. Kinds(cells) = Saved(label)
  <2>1. /\ \A k, v : Kinds(<<Cell(k, v)>>) = <<k>>
        /\ \A v, w : Kinds(<<Cell("regs", v), Cell("current_unode", w)>>) = <<"regs", "current_unode">>
    BY KindsOf
  <2> QED
    BY <1>1, <1>2, <2>1, KindsOf
<1>5. Kinds(nums) = SavedNums(label)
  <2>1. /\ \A s : Kinds(<<Cell("status", s)>>) = <<"status">>
        /\ \A a, b, s : Kinds(<<Cell("repcount", a), Cell("repcount", b), Cell("status", s)>>)
                           = <<"repcount", "repcount", "status">>
    BY KindsOf
  <2> QED
    BY <1>1, <1>2, <2>1, KindsOf
<1>6. label # "none"
  BY <1>1, <1>3
<1> QED
  BY <1>1, <1>4, <1>5, <1>6

Matches(stk, nms, label) ==
    Kinds(stk) = With(Expected(nms), label).regs /\ Kinds(nms) = With(Expected(nms), label).nums

LEMMA Pair ==
  ASSUME NEW S, NEW q \in S, NEW z \in S
  PROVE  <<q>> \o <<z>> = <<q, z>>
<1> DEFINE t == <<q>> \o <<z>>
           a == <<q, z>>
<1>1. <<q>> \in Seq(S) /\ <<z>> \in Seq(S) /\ <<q, z>> \in Seq(S)
  BY SeqTypes
<1>2. t \in Seq(S) /\ Len(t) = 2 /\ t[1] = q /\ t[2] = z
  BY <1>1
<1>3. a \in Seq(S) /\ Len(a) = 2 /\ a[1] = q /\ a[2] = z
  BY <1>1
<1> HIDE DEF t, a
<1>4. \A i \in 1 .. 2 : t[i] = a[i]
  BY <1>2, <1>3
<1>5. t = a
  BY <1>2, <1>3, <1>4, SeqEqual
<1> QED
  BY <1>5 DEF t, a

LEMMA Triple ==
  ASSUME NEW S, NEW p \in S, NEW q \in S, NEW z \in S
  PROVE  <<p, q, z>> = <<p>> \o (<<q>> \o <<z>>)
<1>1. <<p>> \in Seq(S) /\ <<q>> \in Seq(S) /\ <<z>> \in Seq(S) /\ <<p, q, z>> \in Seq(S)
  BY SeqTypes
<1> DEFINE t == <<q>> \o <<z>>
<1>2. t \in Seq(S) /\ Len(t) = 2 /\ t[1] = q /\ t[2] = z
  BY <1>1
<1> HIDE DEF t
<1> DEFINE h == <<p>>
           a == <<p, q, z>>
<1>3. h \in Seq(S) /\ Len(h) = 1 /\ h[1] = p
  BY <1>1
<1>4. a \in Seq(S) /\ Len(a) = 3 /\ a[1] = p /\ a[2] = q /\ a[3] = z
  BY <1>1
<1> HIDE DEF h, a
<1>5. /\ h \o t \in Seq(S) /\ Len(h \o t) = Len(h) + Len(t)
      /\ \A i \in 1 .. Len(h) + Len(t) : (h \o t)[i] = IF i <= Len(h) THEN h[i] ELSE t[i - Len(h)]
  BY <1>2, <1>3, ConcatProperties
<1>6. Len(h \o t) = 3 /\ (h \o t)[1] = p /\ (h \o t)[2] = q /\ (h \o t)[3] = z
  BY <1>2, <1>3, <1>5
<1>7. \A i \in 1 .. 3 : a[i] = (h \o t)[i]
  BY <1>4, <1>6
<1>8. a = h \o t
  BY <1>4, <1>5, <1>6, <1>7, SeqEqual
<1> QED
  BY <1>8 DEF a, h, t

\* Only continuations count.
LEMMA ExpectedNums ==
  ASSUME NEW u \in Nat, NEW nms \in Seq(NumCell), NEW label, NEW below, NEW cells, NEW nums,
         Frame(u, label, below, cells, nums)
  PROVE  Expected(nms \o nums) = Expected(nms)
<1>1. nums \in Seq(NumCell)
  BY FrameType
<1>2. Expected(nms \o nums) = Expected(nms)
  <2>0. \A n \in Seq(NumCell) : \A k, v :
            k # "cont" /\ Cell(k, v) \in NumCell => Expected(n \o <<Cell(k, v)>>) = Expected(n)
    BY ExpectedAppend DEF Then, Cell
  <2>1. CASE nums = <<>>
    BY <2>1
  <2>2. CASE \E s : nums = <<Cell("status", s)>>
    BY <1>1, <2>0, <2>2
  <2>3. CASE \E a, b, s : nums = <<Cell("repcount", a), Cell("repcount", b), Cell("status", s)>>
    <3>1. PICK a, b, s : nums = <<Cell("repcount", a), Cell("repcount", b), Cell("status", s)>>
      BY <2>3
    <3> DEFINE p == Cell("repcount", a)
               q == Cell("repcount", b)
               z == Cell("status", s)
    <3>2. p \in NumCell /\ q \in NumCell /\ z \in NumCell
      <4> HIDE DEF p, q, z
      <4>1. nums[1] = p /\ nums[2] = q /\ nums[3] = z /\ Len(nums) = 3
        BY <3>1 DEF p, q, z
      <4> QED
        BY <1>1, <4>1
    <3>3. /\ nms \o nums = ((nms \o <<p>>) \o <<q>>) \o <<z>>
          /\ nms \o <<p>> \in Seq(NumCell) /\ (nms \o <<p>>) \o <<q>> \in Seq(NumCell)
      <4> HIDE DEF p, q, z
      <4>1. nums = <<p, q, z>> /\ <<p>> \in Seq(NumCell) /\ <<q>> \in Seq(NumCell) /\ <<z>> \in Seq(NumCell)
        BY <3>1, <3>2 DEF p, q, z
      <4>2. nms \o <<p>> \in Seq(NumCell) /\ <<q>> \o <<z>> \in Seq(NumCell)
        BY <4>1
      <4>3. nums = <<p>> \o (<<q>> \o <<z>>)
        BY <3>2, <4>1, Triple
      <4>4. nms \o (<<p>> \o (<<q>> \o <<z>>)) = (nms \o <<p>>) \o (<<q>> \o <<z>>)
        BY <4>1, <4>2, ConcatAssociative
      <4>5. (nms \o <<p>>) \o (<<q>> \o <<z>>) = ((nms \o <<p>>) \o <<q>>) \o <<z>>
        BY <4>1, <4>2, ConcatAssociative
      <4> QED
        BY <4>1, <4>2, <4>3, <4>4, <4>5
    <3> HIDE DEF p, q, z
    <3>4. Expected(nms \o <<p>>) = Expected(nms)
      BY <2>0, <3>2 DEF p
    <3>5. Expected((nms \o <<p>>) \o <<q>>) = Expected(nms \o <<p>>)
      BY <2>0, <3>2, <3>3 DEF q
    <3>6. Expected(((nms \o <<p>>) \o <<q>>) \o <<z>>) = Expected((nms \o <<p>>) \o <<q>>)
      BY <2>0, <3>2, <3>3 DEF z
    <3> QED
      BY <3>3, <3>4, <3>5, <3>6
  <2> QED
    BY <2>1, <2>2, <2>3, FrameKinds
<1> QED
  BY <1>2

LEMMA ExpectedPush ==
  ASSUME NEW u \in Nat, NEW nms \in Seq(NumCell), NEW label, NEW below \in Cont \cup {"none"}, NEW cells, NEW nums,
         Frame(u, label, below, cells, nums)
  PROVE  Expected(nms \o nums \o <<Cell("cont", below)>>) = With(Expected(nms), below)
<1>1. nums \in Seq(NumCell)
  BY FrameType
<1>2. Expected(nms \o nums) = Expected(nms)
  BY ExpectedNums
<1>3. Cell("cont", below) \in NumCell /\ nms \o nums \in Seq(NumCell)
  BY <1>1, ContCell
<1>4. Expected((nms \o nums) \o <<Cell("cont", below)>>) = Then(Expected(nms \o nums), Cell("cont", below))
  BY <1>3, ExpectedAppend
<1> QED
  BY <1>2, <1>4 DEF Then, Cell

LEMMA GoodMatches ==
  ASSUME NEW u \in Nat, NEW stk, NEW nms, NEW label, Good(u, stk, nms, label)
  PROVE  Matches(stk, nms, label)
<1> DEFINE X == {c \in Config : Matches(c[1], c[2], c[3])}
<1>1. Empty \in X
  BY EmptyType, KindsOf, ExpectedEmpty DEF Empty, Matches, With, Nothing
<1>2. ASSUME NEW c \in X, NEW l \in Cont, NEW cells \in Seq(StackCell), NEW nums \in Seq(NumCell),
             Frame(u, l, c[3], cells, nums)
      PROVE  Push(c, l, cells, nums) \in X
  <2> DEFINE below == c[3]
             held == With(Expected(c[2]), below)
             nms2 == c[2] \o nums \o <<Cell("cont", below)>>
  <2>1. c \in Config /\ Kinds(c[1]) = held.regs /\ Kinds(c[2]) = held.nums
    BY DEF Matches
  <2>2. c[1] \in Seq(StackCell) /\ c[2] \in Seq(NumCell) /\ below \in Cont \cup {"none"}
    BY <2>1, ConfigForm
  <2>3. Expected(nms2) = held
    BY <1>2, <2>2, ExpectedPush
  <2>4. Kinds(cells) = Saved(l) /\ Kinds(nums) = SavedNums(l) /\ l # "none"
    BY <1>2, FrameKinds
  <2>5. Kinds(c[1] \o cells) = held.regs \o Saved(l)
    <3>1. Kinded(StackCell, StackKind)
      BY DEF StackCell, Kinded
    <3>2. Kinds(c[1] \o cells) = Kinds(c[1]) \o Kinds(cells)
      BY <2>2, <3>1, KindsConcat
    <3> QED
      BY <2>1, <2>4, <3>2
  <2>6. Kinds(nms2) = Append(held.nums \o SavedNums(l), "cont")
    <3>1. Kinded(NumCell, NumKind)
      BY DEF NumCell, Kinded
    <3>2. <<Cell("cont", below)>> \in Seq(NumCell) /\ c[2] \o nums \in Seq(NumCell)
      BY <2>2, ContCell
    <3>3. Kinds((c[2] \o nums) \o <<Cell("cont", below)>>) = Kinds(c[2] \o nums) \o Kinds(<<Cell("cont", below)>>)
      <4> DEFINE mid == c[2] \o nums
                 top == <<Cell("cont", below)>>
      <4>1. mid \in Seq(NumCell) /\ top \in Seq(NumCell)
        BY <3>2
      <4> HIDE DEF mid, top
      <4>2. Kinds(mid \o top) = Kinds(mid) \o Kinds(top)
        BY <3>1, <4>1, KindsConcat
      <4> QED
        BY <4>2 DEF mid, top
    <3>4. Kinds(c[2] \o nums) = Kinds(c[2]) \o Kinds(nums)
      BY <2>2, <3>1, KindsConcat
    <3>5. Kinds(c[2] \o nums) \in Seq(NumKind) /\ "cont" \in NumKind
      BY <3>1, <3>2, KindsType DEF NumKind
    <3>6. Kinds(<<Cell("cont", below)>>) = <<"cont">>
      BY KindsOf
    <3>7. Kinds(c[2] \o nums) \o <<"cont">> = Append(Kinds(c[2] \o nums), "cont")
      BY <3>5, AppendIsConcat
    <3> QED
      BY <2>1, <2>4, <3>3, <3>4, <3>6, <3>7
  <2>7. Matches(c[1] \o cells, nms2, l)
    <3> HIDE DEF held, nms2
    <3> QED
      BY <2>3, <2>4, <2>5, <2>6 DEF Matches, With
  <2>8. Push(c, l, cells, nums) \in Config
    BY <1>2, <2>1, PushType
  <2> QED
    BY <2>7, <2>8 DEF Push
<1>3. Closed(u, X)
  <2> HIDE DEF X
  <2> QED
    BY <1>1, <1>2 DEF Closed
<1>4. <<stk, nms, label>> \in X
  BY <1>3 DEF Good
<1> QED
  BY <1>4

-----------------------------------------------------------------------------
(* The inductive invariant. *)

Values == Result \cup {ListOf(args) : args \in Seq(Val)}
              \cup {ContOf(label, args) : label \in Place, args \in Seq(Val)}

\* The registers' types.
Typed ==
    /\ prog \in Program
    /\ pc \in Labels
    /\ expresn \in Exp \cup {Const(Unbound)}
    /\ val \in Values
    /\ list \in Seq(Exp)
    /\ r \in Regs
    /\ sig \in Signal
    /\ unodes \in Nat
    /\ r.current_unode <= unodes
    /\ sig.unode <= unodes

\* The stacks: a continuation's own frame is on top when it has been fetched.
Framed(u, label, below, stk, nms) ==
    \E stk0, nms0, cells, nums :
        /\ Good(u, stk0, nms0, below)
        /\ Frame(u, label, below, cells, nums)
        /\ stk = stk0 \o cells /\ nms = nms0 \o nums
Counting(u, below, stk, nms) ==
    \E nms0 : \E n \in 0 .. Times :
        Good(u, stk, nms0, below) /\ nms = nms0 \o <<Cell("repcount", n)>>
InRepeat == {"repeat_again", "repeat_done"}
Stacked ==
    /\ pc \in Cont => Framed(unodes, pc, cont, stack, numstack)
    /\ pc \in InRepeat => Counting(unodes, cont, stack, numstack) /\ cont # "none"
    /\ pc = "done" => stack = <<>> /\ numstack = <<>> /\ cont = "none"
    /\ pc \notin Cont \cup InRepeat \cup {"done"} =>
           Good(unodes, stack, numstack, cont) /\ cont # "none"

\* Where val is what an expression came to.
Settling == (Cont \ {"macro_return"}) \cup {"begin_line", "fetch_cont", "repeat_done"}
ToMacroReturn == pc = "macro_return" \/ (pc = "fetch_cont" /\ cont = "macro_return")
GoesOn == \E label, args : val = ContOf(label, args) /\ Fitting(label, args)
Valued ==
    /\ pc \in Settling /\ ~ToMacroReturn => val \in Result
    /\ ToMacroReturn => val \in Result \/ (sig.flag = "RUN" /\ GoesOn)
    /\ pc \in {"begin_seq", "eval_sequence"} /\ sig.flag # "RUN" => val \in Result
    /\ pc \in Place => \E args : val = ListOf(args) /\ Fitting(pc, args)

\* Where the stopping flag says what.
Running == {"eval_dispatch", "eval_arg_loop", "arg_from_macro", "non_tail_eval", "apply_dispatch",
            "primitive_apply", "lambda_apply"} \cup Place
Flagged ==
    /\ pc \in Running => sig.flag = "RUN"
    /\ pc \in {"after_const_arg", "eval_args_done"} => sig.flag \in {"RUN", "THROWING"}
    /\ pc = "fetch_cont" /\ cont = "after_const_arg" => sig.flag = "RUN"
    /\ sig.flag = "MACRO_RETURN" =>
           /\ val \in Val /\ val.t = "list"
           /\ pc \in Taker \/ (pc = "fetch_cont" /\ cont \in Taker)

\* Where inputs are being evaluated, and by whom a macro's list is taken.
Calling == {"eval_arg_loop", "after_const_arg", "arg_from_macro", "eval_args_done", "apply_dispatch"}
Inputting ==
    /\ pc \in {"eval_dispatch", "arg_from_macro", "non_tail_eval"} => expresn \in Exp
    /\ pc = "eval_dispatch" => MacroGoesTo(expresn.op, r.tailcall, cont)
    /\ pc = "begin_apply" /\ r.tailcall <= 0 => cont \in Taker
    /\ pc \in Calling => MacroGoesTo(r.fun, r.tailcall, cont)
    /\ pc = "eval_arg_loop" => Inputs(r)
    /\ pc = "arg_from_macro" => 
           Inputs(r) /\ r.unev # <<>> /\ (IsConst(Head(r.unev)) => expresn = Head(r.unev))
    /\ cont = "after_const_arg" =>
           /\ \/ pc = "eval_dispatch" /\ IsConst(expresn) /\ InputNext(r, expresn.v)
              \/ pc = "fetch_cont" /\ InputNext(r, val)
           /\ MacroGoesTo(r.fun, r.tailcall, Last(numstack).v)
    /\ pc = "after_const_arg" /\ sig.flag = "RUN" => InputNext(r, val)
    /\ pc = "eval_args_done" /\ sig.flag = "RUN" => Inputs(r) /\ r.unev = <<>>
    /\ pc = "apply_dispatch" /\ r.fun \notin Proc => Inputs(r) /\ r.unev = <<>>
    /\ pc = "primitive_apply" => r.fun \in Primitive /\ Inputs(r) /\ r.unev = <<>>
    /\ pc = "primitive_apply" /\ r.fun \in PrimMacro => cont = "macro_return"
    /\ pc = "lambda_apply" => r.fun \in Proc
    /\ pc = "eval_sequence" /\ sig.flag = "RUN" => r.unev # <<>>

Inv == Typed /\ Stacked /\ Valued /\ Flagged /\ Inputting

-----------------------------------------------------------------------------
(* Pushes and pops. *)

LEMMA ConcatLast ==
  ASSUME NEW S, NEW s \in Seq(S), NEW a \in S
  PROVE  /\ s \o <<a>> = Append(s, a) /\ Append(s, a) \in Seq(S) /\ Append(s, a) # <<>>
         /\ Last(Append(s, a)) = a /\ Front(Append(s, a)) = s
<1>1. s \o <<a>> = Append(s, a)
  BY AppendIsConcat
<1>2. /\ Append(s, a) \in Seq(S) /\ Append(s, a) # <<>> /\ Len(Append(s, a)) = Len(s) + 1
      /\ \A i \in 1 .. Len(s) : Append(s, a)[i] = s[i]
      /\ Append(s, a)[Len(s) + 1] = a
  BY AppendProperties
<1> DEFINE t == Append(s, a)
           f == SubSeq(t, 1, Len(t) - 1)
<1>3. Len(s) \in Nat
  BY LenProperties
<1>4. t \in Seq(S) /\ Len(t) = Len(s) + 1 /\ (\A i \in 1 .. Len(s) : t[i] = s[i]) /\ t[Len(s) + 1] = a
  BY <1>2
<1> HIDE DEF t
<1>5. f \in Seq(S) /\ Len(f) = Len(s) /\ \A i \in 1 .. Len(s) : f[i] = s[i]
  <2>1. \A i \in 1 .. Len(t) - 1 : t[i] \in S
    BY <1>3, <1>4, ElementOfSeq
  <2>2. 1 \in Int /\ Len(t) - 1 \in Int
    BY <1>3, <1>4
  <2>3. /\ f \in Seq(S) /\ Len(f) = IF 1 <= Len(t) - 1 THEN Len(t) - 1 - 1 + 1 ELSE 0
        /\ \A i \in 1 .. Len(t) - 1 - 1 + 1 : f[i] = t[1 + i - 1]
    BY <2>1, <2>2, SubSeqProperties
  <2> HIDE DEF f
  <2> QED
    BY <1>3, <1>4, <2>3
<1> HIDE DEF f
<1>6. f = s
  BY <1>5, SeqEqual
<1> QED
  BY <1>1, <1>2, <1>3, <1>4, <1>6 DEF Last, Front, t, f

LEMMA PlainFrame ==
  ASSUME NEW u, NEW label \in Plain, NEW below \in Cont \ {"after_const_arg"}
  PROVE  Frame(u, label, below, <<>>, <<>>)
  BY DEF Frame

LEMMA PlainFramed ==
  ASSUME NEW u \in Nat, NEW label \in Plain, NEW below \in Cont \ {"after_const_arg"}, NEW stk, NEW nms,
         Good(u, stk, nms, below)
  PROVE  Framed(u, label, below, stk, nms)
<1>1. stk \in Seq(StackCell) /\ nms \in Seq(NumCell)
  BY GoodType
<1>2. stk = stk \o <<>> /\ nms = nms \o <<>>
  BY <1>1, ConcatEmptySeq
<1>3. Frame(u, label, below, <<>>, <<>>)
  BY PlainFrame
<1> QED
  BY <1>2, <1>3 DEF Framed

LEMMA PlainUnframed ==
  ASSUME NEW u \in Nat, NEW label \in Plain, NEW below, NEW stk, NEW nms, Framed(u, label, below, stk, nms)
  PROVE  Good(u, stk, nms, below) /\ below \in Cont \ {"after_const_arg"}
<1>1. PICK stk0, nms0, cells, nums :
          Good(u, stk0, nms0, below) /\ Frame(u, label, below, cells, nums) /\ stk = stk0 \o cells /\ nms = nms0 \o nums
  BY DEF Framed
<1>2. cells = <<>> /\ nums = <<>> /\ below \in Cont \ {"after_const_arg"}
  BY <1>1 DEF Frame, Plain
<1>3. stk0 \in Seq(StackCell) /\ nms0 \in Seq(NumCell)
  BY <1>1, GoodType
<1> QED
  BY <1>1, <1>2, <1>3, ConcatEmptySeq

\* NewCont, and NewCont with one more cell on stack.
LEMMA PushPlain ==
  ASSUME NEW u \in Nat, NEW label \in Plain, NEW below \in Cont \ {"after_const_arg"}, NEW stk, NEW nms,
         Good(u, stk, nms, below)
  PROVE  Good(u, stk, Append(nms, [k |-> "cont", v |-> below]), label)
<1>1. Good(u, stk \o <<>>, nms \o <<>> \o <<Cell("cont", below)>>, label)
  BY PlainFrame, GoodPush
<1>2. stk \in Seq(StackCell) /\ nms \in Seq(NumCell) /\ Cell("cont", below) \in NumCell
  BY GoodType, ContCell
<1>3. stk \o <<>> = stk /\ nms \o <<>> = nms /\ nms \o <<Cell("cont", below)>> = Append(nms, Cell("cont", below))
  BY <1>2, ConcatEmptySeq, ConcatLast
<1> QED
  BY <1>1, <1>3 DEF Cell

LEMMA PushCells ==
  ASSUME NEW u \in Nat, NEW label, NEW below, NEW cells, NEW stk, NEW nms,
         Good(u, stk, nms, below), Frame(u, label, below, cells, <<>>)
  PROVE  Good(u, stk \o cells, Append(nms, [k |-> "cont", v |-> below]), label)
<1>1. Good(u, stk \o cells, nms \o <<>> \o <<Cell("cont", below)>>, label)
  BY GoodPush
<1>2. nms \in Seq(NumCell) /\ Cell("cont", below) \in NumCell
  BY GoodType, ContCell
<1>3. nms \o <<>> = nms /\ nms \o <<Cell("cont", below)>> = Append(nms, Cell("cont", below))
  BY <1>2, ConcatEmptySeq, ConcatLast
<1> QED
  BY <1>1, <1>3 DEF Cell

LEMMA PushCell ==
  ASSUME NEW u \in Nat, NEW label, NEW below, NEW c, NEW stk, NEW nms,
         Good(u, stk, nms, below), Frame(u, label, below, <<c>>, <<>>)
  PROVE  Good(u, Append(stk, c), Append(nms, [k |-> "cont", v |-> below]), label)
<1>1. Good(u, stk \o <<c>>, Append(nms, [k |-> "cont", v |-> below]), label)
  BY PushCells
<1>2. stk \in Seq(StackCell) /\ <<c>> \in Seq(StackCell)
  BY GoodType, FrameType
<1>3. stk \o <<c>> = Append(stk, c)
  BY <1>2, ConcatLast
<1> QED
  BY <1>1, <1>3

\* What was pushed comes off again.
LEMMA OneCell ==
  ASSUME NEW u \in Nat, NEW label, NEW below, NEW stk, NEW nms, NEW c, NEW nums,
         Good(u, stk, nms, below), Frame(u, label, below, <<c>>, nums)
  PROVE  Last(stk \o <<c>>) = c /\ Front(stk \o <<c>>) = stk
<1>1. stk \in Seq(StackCell) /\ <<c>> \in Seq(StackCell)
  BY GoodType, FrameType
<1>2. c \in StackCell
  BY <1>1
<1> QED
  BY <1>1, <1>2, ConcatLast

LEMMA OneNum ==
  ASSUME NEW u \in Nat, NEW label, NEW below, NEW stk, NEW nms, NEW cells, NEW n,
         Good(u, stk, nms, below), Frame(u, label, below, cells, <<n>>)
  PROVE  Last(nms \o <<n>>) = n /\ Front(nms \o <<n>>) = nms
<1>1. nms \in Seq(NumCell) /\ <<n>> \in Seq(NumCell)
  BY GoodType, FrameType
<1>2. n \in NumCell
  BY <1>1
<1> QED
  BY <1>1, <1>2, ConcatLast

LEMMA PopLine ==
  ASSUME NEW u \in Nat, NEW below, NEW stk, NEW nms, Framed(u, "all_done", below, stk, nms)
  PROVE  /\ Good(u, Front(stk), nms, below) /\ below = "none"
         /\ Last(stk).v \in Regs /\ Last(stk).v.current_unode <= u
<1>1. PICK stk0, nms0, cells, nums :
          /\ Good(u, stk0, nms0, below) /\ Frame(u, "all_done", below, cells, nums)
          /\ stk = stk0 \o cells /\ nms = nms0 \o nums
  BY DEF Framed
<1>2. nums = <<>> /\ below = "none"
  BY <1>1 DEF Frame, Plain
<1>3. PICK x \in Regs : x.current_unode <= u /\ cells = <<Cell("regs", x)>>
  BY <1>1 DEF Frame, Plain
<1>4. Last(stk) = Cell("regs", x) /\ Front(stk) = stk0
  BY <1>1, <1>2, <1>3, OneCell
<1>5. nms = nms0
  BY <1>1, <1>2, GoodType, ConcatEmptySeq
<1>6. Last(stk).v = x
  BY <1>4 DEF Cell
<1> QED
  BY <1>1, <1>2, <1>3, <1>4, <1>5, <1>6

LEMMA PopRegs ==
  ASSUME NEW u \in Nat, NEW below, NEW stk, NEW nms, Framed(u, "eval_sequence_continue", below, stk, nms)
  PROVE  /\ Good(u, Front(stk), nms, below) /\ below \in Cont \ {"after_const_arg"}
         /\ Last(stk).v \in Regs /\ Last(stk).v.current_unode <= u
<1>1. PICK stk0, nms0, cells, nums :
          /\ Good(u, stk0, nms0, below) /\ Frame(u, "eval_sequence_continue", below, cells, nums)
          /\ stk = stk0 \o cells /\ nms = nms0 \o nums
  BY DEF Framed
<1>2. nums = <<>> /\ below \in Cont \ {"after_const_arg"}
  BY <1>1 DEF Frame, Plain
<1>3. PICK x \in Regs : x.current_unode <= u /\ cells = <<Cell("regs", x)>>
  BY <1>1 DEF Frame, Plain
<1>4. Last(stk) = Cell("regs", x) /\ Front(stk) = stk0
  BY <1>1, <1>2, <1>3, OneCell
<1>5. nms = nms0
  BY <1>1, <1>2, GoodType, ConcatEmptySeq
<1>6. Last(stk).v = x
  BY <1>4 DEF Cell
<1> QED
  BY <1>1, <1>2, <1>3, <1>4, <1>5, <1>6

LEMMA PopGetter ==
  ASSUME NEW u \in Nat, NEW below, NEW stk, NEW nms, Framed(u, "fall_off_want_output", below, stk, nms)
  PROVE  /\ Good(u, Front(stk), nms, below) /\ below \in Cont \ {"after_const_arg"}
         /\ Last(stk).v \in Getter
<1>1. PICK stk0, nms0, cells, nums :
          /\ Good(u, stk0, nms0, below) /\ Frame(u, "fall_off_want_output", below, cells, nums)
          /\ stk = stk0 \o cells /\ nms = nms0 \o nums
  BY DEF Framed
<1>2. nums = <<>> /\ below \in Cont \ {"after_const_arg"}
  BY <1>1 DEF Frame, Plain
<1>3. PICK x \in Getter : cells = <<Cell("didnt_get_output", x)>>
  BY <1>1 DEF Frame, Plain
<1>4. Last(stk) = Cell("didnt_get_output", x) /\ Front(stk) = stk0
  BY <1>1, <1>2, <1>3, OneCell
<1>5. nms = nms0
  BY <1>1, <1>2, GoodType, ConcatEmptySeq
<1>6. Last(stk).v = x
  BY <1>4 DEF Cell
<1> QED
  BY <1>1, <1>2, <1>3, <1>4, <1>5, <1>6

LEMMA PopUnode ==
  ASSUME NEW u \in Nat, NEW below, NEW stk, NEW nms, Framed(u, "runresult_followup", below, stk, nms)
  PROVE  /\ Good(u, Front(stk), nms, below) /\ below \in Cont \ {"after_const_arg"}
         /\ Last(stk).v \in 0 .. u
<1>1. PICK stk0, nms0, cells, nums :
          /\ Good(u, stk0, nms0, below) /\ Frame(u, "runresult_followup", below, cells, nums)
          /\ stk = stk0 \o cells /\ nms = nms0 \o nums
  BY DEF Framed
<1>2. nums = <<>> /\ below \in Cont \ {"after_const_arg"}
  BY <1>1 DEF Frame, Plain
<1>3. PICK x \in 0 .. u : cells = <<Cell("current_unode", x)>>
  BY <1>1 DEF Frame, Plain
<1>4. Last(stk) = Cell("current_unode", x) /\ Front(stk) = stk0
  BY <1>1, <1>2, <1>3, OneCell
<1>5. nms = nms0
  BY <1>1, <1>2, GoodType, ConcatEmptySeq
<1>6. Last(stk).v = x
  BY <1>4 DEF Cell
<1> QED
  BY <1>1, <1>2, <1>3, <1>4, <1>5, <1>6

LEMMA PopLambda ==
  ASSUME NEW u \in Nat, NEW below, NEW stk, NEW nms, Framed(u, "after_lambda", below, stk, nms)
  PROVE  Good(u, Front(stk), nms, below) /\ below \in Taker /\ below \in Cont \ {"after_const_arg"}
<1>1. PICK stk0, nms0, cells, nums :
          /\ Good(u, stk0, nms0, below) /\ Frame(u, "after_lambda", below, cells, nums)
          /\ stk = stk0 \o cells /\ nms = nms0 \o nums
  BY DEF Framed
<1>2. nums = <<>> /\ cells = <<Cell("var", "var_stack")>> /\ below \in Taker /\ below \in Cont \ {"after_const_arg"}
  BY <1>1 DEF Frame, Plain
<1>3. Front(stk) = stk0
  BY <1>1, <1>2, OneCell
<1>4. nms = nms0
  BY <1>1, <1>2, GoodType, ConcatEmptySeq
<1> QED
  BY <1>1, <1>2, <1>3, <1>4

LEMMA PopMacro ==
  ASSUME NEW u \in Nat, NEW below, NEW stk, NEW nms, Framed(u, "macro_return", below, stk, nms)
  PROVE  /\ Good(u, Front(stk), Front(nms), below) /\ below \in Cont \ {"after_const_arg"}
         /\ Last(stk).v \in MacroCell /\ Last(stk).v.unode <= u
         /\ Last(nms).v \in StatusCell
         /\ Last(nms).v.tailcall <= 0 => below \in Taker
<1>1. PICK stk0, nms0, cells, nums :
          /\ Good(u, stk0, nms0, below) /\ Frame(u, "macro_return", below, cells, nums)
          /\ stk = stk0 \o cells /\ nms = nms0 \o nums
  BY DEF Framed
<1>2. below \in Cont \ {"after_const_arg"}
  BY <1>1 DEF Frame, Plain
<1>3. PICK x \in MacroCell : x.unode <= u /\ cells = <<Cell("macro", x)>>
  BY <1>1 DEF Frame, Plain
<1>4. PICK s \in StatusCell : nums = <<Cell("status", s)>> /\ (s.tailcall <= 0 => below \in Taker)
  BY <1>1 DEF Frame, Plain
<1>5. Last(stk) = Cell("macro", x) /\ Front(stk) = stk0
  BY <1>1, <1>3, OneCell
<1>6. Last(nms) = Cell("status", s) /\ Front(nms) = nms0
  BY <1>1, <1>4, OneNum
<1>7. Last(stk).v = x /\ Last(nms).v = s
  BY <1>5, <1>6 DEF Cell
<1> QED
  BY <1>1, <1>2, <1>3, <1>4, <1>5, <1>6, <1>7

LEMMA PopCatch ==
  ASSUME NEW u \in Nat, NEW below, NEW stk, NEW nms, Framed(u, "catch_followup", below, stk, nms)
  PROVE  /\ Good(u, Front(stk), Front(nms), below) /\ below \in Cont \ {"after_const_arg"}
         /\ Last(stk).v \in CatchCell /\ Last(stk).v.unode <= u
         /\ Last(nms).v \in StatusCell
<1>1. PICK stk0, nms0, cells, nums :
          /\ Good(u, stk0, nms0, below) /\ Frame(u, "catch_followup", below, cells, nums)
          /\ stk = stk0 \o cells /\ nms = nms0 \o nums
  BY DEF Framed
<1>2. below \in Cont \ {"after_const_arg"}
  BY <1>1 DEF Frame, Plain
<1>3. PICK x \in CatchCell : x.unode <= u /\ cells = <<Cell("catch", x)>>
  BY <1>1 DEF Frame, Plain
<1>4. PICK s \in StatusCell : nums = <<Cell("status", s)>>
  BY <1>1 DEF Frame, Plain
<1>5. Last(stk) = Cell("catch", x) /\ Front(stk) = stk0
  BY <1>1, <1>3, OneCell
<1>6. Last(nms) = Cell("status", s) /\ Front(nms) = nms0
  BY <1>1, <1>4, OneNum
<1>7. Last(stk).v = x /\ Last(nms).v = s
  BY <1>5, <1>6 DEF Cell
<1> QED
  BY <1>1, <1>2, <1>3, <1>4, <1>5, <1>6, <1>7

LEMMA LastTwo ==
  ASSUME NEW S, NEW s \in Seq(S), NEW a, NEW b, <<a, b>> \in Seq(S)
  PROVE  LET t == s \o <<a, b>>
         IN  Last(t) = b /\ t[Len(t) - 1] = a /\ Pop(t, 2) = s
<1> DEFINE c == <<a, b>>
           t == s \o c
           f == SubSeq(t, 1, Len(t) - 2)
<1>1. c \in Seq(S) /\ Len(c) = 2 /\ c[1] = a /\ c[2] = b
  OBVIOUS
<1> HIDE DEF c
<1>2. Len(s) \in Nat
  BY LenProperties
<1>3. /\ t \in Seq(S) /\ Len(t) = Len(s) + Len(c)
      /\ \A i \in 1 .. Len(s) + Len(c) : t[i] = IF i <= Len(s) THEN s[i] ELSE c[i - Len(s)]
  BY <1>1, ConcatProperties
<1> HIDE DEF t
<1>4. Len(t) = Len(s) + 2 /\ t[Len(t)] = b /\ t[Len(t) - 1] = a /\ \A i \in 1 .. Len(s) : t[i] = s[i]
  BY <1>1, <1>2, <1>3
<1>5. f \in Seq(S) /\ Len(f) = Len(s) /\ \A i \in 1 .. Len(s) : f[i] = s[i]
  <2>1. \A i \in 1 .. Len(t) - 2 : t[i] \in S
    BY <1>2, <1>3, <1>4, ElementOfSeq
  <2>2. 1 \in Int /\ Len(t) - 2 \in Int
    BY <1>2, <1>4
  <2>3. /\ f \in Seq(S) /\ Len(f) = IF 1 <= Len(t) - 2 THEN Len(t) - 2 - 1 + 1 ELSE 0
        /\ \A i \in 1 .. Len(t) - 2 - 1 + 1 : f[i] = t[1 + i - 1]
    BY <2>1, <2>2, SubSeqProperties
  <2> HIDE DEF f
  <2> QED
    BY <1>2, <1>4, <2>3
<1> HIDE DEF f
<1>6. f = s
  BY <1>5, SeqEqual
<1> QED
  BY <1>4, <1>6 DEF Last, Pop, t, f, c

LEMMA PopArg ==
  ASSUME NEW u \in Nat, NEW below, NEW stk, NEW nms, Framed(u, "accumulate_arg", below, stk, nms)
  PROVE  /\ Good(u, Pop(stk, 2), nms, below) /\ below \in Cont \ {"after_const_arg"}
         /\ Last(stk).v \in 0 .. u
         /\ LET x == stk[Len(stk) - 1].v
            IN  /\ x \in Regs /\ x.current_unode <= u /\ Inputs(x) /\ x.unev # <<>> /\ ~IsConst(Head(x.unev))
                /\ MacroGoesTo(x.fun, x.tailcall, below)
<1>1. PICK stk0, nms0, cells, nums :
          /\ Good(u, stk0, nms0, below) /\ Frame(u, "accumulate_arg", below, cells, nums)
          /\ stk = stk0 \o cells /\ nms = nms0 \o nums
  BY DEF Framed
<1>2. nums = <<>> /\ below \in Cont \ {"after_const_arg"}
  BY <1>1 DEF Frame, Plain
<1>3. PICK x \in Regs, n \in 0 .. u :
          /\ cells = <<Cell("regs", x), Cell("current_unode", n)>>
          /\ x.current_unode <= u /\ Inputs(x) /\ x.unev # <<>> /\ ~IsConst(Head(x.unev))
          /\ MacroGoesTo(x.fun, x.tailcall, below)
  BY <1>1 DEF Frame, Plain
<1> DEFINE a == Cell("regs", x)
           b == Cell("current_unode", n)
<1>4. stk0 \in Seq(StackCell) /\ cells \in Seq(StackCell)
  BY <1>1, GoodType, FrameType
<1>5. Last(stk) = b /\ stk[Len(stk) - 1] = a /\ Pop(stk, 2) = stk0
  <2> HIDE DEF a, b
  <2>1. cells = <<a, b>>
    BY <1>3 DEF a, b
  <2> QED
    BY <1>1, <1>4, <2>1, LastTwo
<1>6. nms = nms0
  BY <1>1, <1>2, GoodType, ConcatEmptySeq
<1>7. Last(stk).v = n /\ stk[Len(stk) - 1].v = x
  BY <1>5 DEF Cell
<1> QED
  BY <1>1, <1>2, <1>3, <1>5, <1>6, <1>7

LEMMA ThreeIn ==
  ASSUME NEW S, NEW a, NEW b, NEW c, <<a, b, c>> \in Seq(S)
  PROVE  a \in S /\ b \in S /\ c \in S
<1>1. Len(<<a, b, c>>) = 3 /\ <<a, b, c>>[1] = a /\ <<a, b, c>>[2] = b /\ <<a, b, c>>[3] = c
  OBVIOUS
<1> QED
  BY <1>1, ElementOfSeq

LEMMA PopRepeat ==
  ASSUME NEW u \in Nat, NEW below, NEW stk, NEW nms, Framed(u, "repeat_followup", below, stk, nms)
  PROVE  /\ Counting(u, below, Front(stk), Pop(nms, 2)) /\ below \in Cont \ {"after_const_arg"}
         /\ Last(stk).v \in Seq(Exp) /\ nms[Len(nms) - 1].v \in 1 .. Times /\ Last(nms).v \in StatusCell
<1>1. PICK stk0, nms0, cells, nums :
          /\ Good(u, stk0, nms0, below) /\ Frame(u, "repeat_followup", below, cells, nums)
          /\ stk = stk0 \o cells /\ nms = nms0 \o nums
  BY DEF Framed
<1>2. below \in Cont \ {"after_const_arg"}
  BY <1>1 DEF Frame, Plain
<1>3. PICK l \in Seq(Exp) : cells = <<Cell("repeat", l)>>
  BY <1>1 DEF Frame, Plain
<1>4. PICK n \in 0 .. Times, m \in 1 .. Times, s \in StatusCell :
          nums = <<Cell("repcount", n), Cell("repcount", m), Cell("status", s)>>
  BY <1>1 DEF Frame, Plain
<1>5. Last(stk) = Cell("repeat", l) /\ Front(stk) = stk0
  BY <1>1, <1>3, OneCell
<1> DEFINE a == Cell("repcount", n)
           b == Cell("repcount", m)
           c == Cell("status", s)
           d == nms0 \o <<a>>
<1>6. nms0 \in Seq(NumCell) /\ nums \in Seq(NumCell)
  BY <1>1, GoodType, FrameType
<1>7. Last(nms) = c /\ nms[Len(nms) - 1] = b /\ Pop(nms, 2) = d
  <2> HIDE DEF a, b, c
  <2>1. nums = <<a, b, c>>
    BY <1>4 DEF a, b, c
  <2>2. a \in NumCell /\ b \in NumCell /\ c \in NumCell
    BY <1>6, <2>1, ThreeIn
  <2>3. <<a>> \in Seq(NumCell) /\ <<b>> \in Seq(NumCell) /\ <<c>> \in Seq(NumCell) /\ <<b, c>> \in Seq(NumCell)
    BY <2>2, SeqTypes
  <2>4. nums = <<a>> \o <<b, c>>
    <3>1. <<a, b, c>> = <<a>> \o (<<b>> \o <<c>>)
      BY <2>2, Triple
    <3>2. <<b>> \o <<c>> = <<b, c>>
      BY <2>2, Pair
    <3> QED
      BY <2>1, <3>1, <3>2
  <2>5. nms = d \o <<b, c>> /\ d \in Seq(NumCell)
    <3>1. (nms0 \o <<a>>) \o <<b, c>> = nms0 \o (<<a>> \o <<b, c>>)
      BY <1>6, <2>3, ConcatAssociative
    <3>2. nms0 \o <<a>> \in Seq(NumCell)
      BY <1>6, <2>3, ConcatProperties
    <3> QED
      BY <1>1, <2>4, <3>1, <3>2
  <2> HIDE DEF d
  <2> QED
    BY <2>3, <2>5, LastTwo
<1>8. Last(nms).v = s /\ nms[Len(nms) - 1].v = m /\ Last(stk).v = l
  BY <1>5, <1>7 DEF Cell
<1>9. Counting(u, below, Front(stk), Pop(nms, 2))
  <2>1. Good(u, Front(stk), nms0, below)
    BY <1>1, <1>5
  <2>2. Pop(nms, 2) = nms0 \o <<Cell("repcount", n)>>
    BY <1>7
  <2> QED
    BY <2>1, <2>2 DEF Counting
<1> QED
  BY <1>2, <1>8, <1>9

-----------------------------------------------------------------------------
(* Steps. *)

Free == Labels \ (Cont \cup InRepeat \cup {"done"})

LEMMA FreeLabels ==
  /\ {"fetch_cont", "begin_line", "begin_seq", "eval_dispatch", "eval_arg_loop", "arg_from_macro",
      "eval_args_done", "apply_dispatch", "primitive_apply", "lambda_apply", "eval_sequence",
      "non_tail_eval", "runresult_continuation", "repeat_continuation", "catch_continuation",
      "begin_apply", "no one to blame"} \subseteq Free
  /\ Cont \cap Free = {} /\ InRepeat \cap Free = {} /\ "done" \notin Free
  /\ Cont \cap InRepeat = {} /\ "done" \notin Cont \cup InRepeat
<1>1. Cont \cap Free = {} /\ InRepeat \cap Free = {} /\ "done" \notin Free
  BY DEF Free
<1>2. Cont \cap InRepeat = {} /\ "done" \notin Cont \cup InRepeat
  BY DEF Cont, Plain, InRepeat
<1>3. {"fetch_cont", "begin_line", "begin_seq", "eval_dispatch", "eval_arg_loop", "arg_from_macro",
       "eval_args_done", "apply_dispatch", "primitive_apply", "lambda_apply", "eval_sequence"} \subseteq Free
  BY SMTT(30) DEF Free, Labels, Cont, Plain, InRepeat
<1>4. {"non_tail_eval", "runresult_continuation", "repeat_continuation", "catch_continuation",
       "begin_apply", "no one to blame"} \subseteq Free
  BY SMTT(30) DEF Free, Labels, Cont, Plain, InRepeat
<1> QED
  BY <1>1, <1>2, <1>3, <1>4

LEMMA StackedHere ==
  ASSUME Typed, Stacked, pc \in Free
  PROVE  Good(unodes, stack, numstack, cont) /\ cont \in Cont /\ unodes \in Nat
<1>1. Good(unodes, stack, numstack, cont) /\ cont # "none" /\ unodes \in Nat
  BY DEF Typed, Stacked, Free
<1> QED
  BY <1>1, GoodType

LEMMA StackedThere ==
  ASSUME Good(unodes, stack, numstack, cont)', cont' \in Cont, pc' \in Free
  PROVE  Stacked'
  BY DEF Stacked, Free, Cont, Plain

LEMMA StacksStay ==
  ASSUME Typed, Stacked, pc \in Free, UNCHANGED <<stacks, unodes>>, pc' \in Free
  PROVE  Stacked'
<1>1. Good(unodes, stack, numstack, cont)' /\ cont' \in Cont
  BY StackedHere DEF stacks
<1> QED
  BY <1>1, StackedThere

LEMMA FromPlain ==
  ASSUME Typed, Stacked, pc \in Plain
  PROVE  Good(unodes, stack, numstack, cont) /\ cont \in Cont \ {"after_const_arg"} /\ unodes \in Nat
<1>1. Framed(unodes, pc, cont, stack, numstack) /\ unodes \in Nat
  BY DEF Typed, Stacked, Cont
<1> QED
  BY <1>1, PlainUnframed

LEMMA PlainStacksStay ==
  ASSUME Typed, Stacked, pc \in Plain, UNCHANGED <<stacks, unodes>>, pc' \in Free
  PROVE  Stacked'
<1>1. Good(unodes, stack, numstack, cont)' /\ cont' \in Cont
  BY FromPlain DEF stacks
<1> QED
  BY <1>1, StackedThere

LEMMA Errors ==
  ASSUME Typed
  PROVE  /\ Error \in Signal /\ Error.flag = "THROWING" /\ Error.unode = sig.unode
         /\ Error.unode <= unodes
  BY DEF Typed, Signal, Error, Thrown, Tag, Result

LEMMA BeginLineStep ==
  ASSUME Inv, BeginLine
  PROVE  Inv'
<1>1. pc \in Free /\ pc' \in Free /\ pc' = "begin_seq"
  BY FreeLabels DEF BeginLine
<1>2. Typed'
  <2>1. r' \in Regs /\ r'.current_unode = r.current_unode
    BY DEF Inv, Typed, BeginLine, Regs, StatusSet
  <2> QED
    BY <1>1, <2>1 DEF Inv, Typed, BeginLine, Labels
<1>3. Stacked'
  <2>1. Good(unodes, stack, numstack, cont) /\ cont \in Cont \ {"after_const_arg"} /\ unodes \in Nat
    BY <1>1, StackedHere DEF Inv, Inputting, BeginLine
  <2>2. Good(unodes, stack, Append(numstack, [k |-> "cont", v |-> cont]), "end_line")
    BY <2>1, PushPlain DEF Plain
  <2>3. Good(unodes, stack, numstack, cont)' /\ cont' \in Cont
    BY <2>2 DEF BeginLine, NewCont, Cont, Plain
  <2> QED
    BY <1>1, <2>3, StackedThere
<1>4. Valued'
  BY <1>1 DEF Inv, Valued, BeginLine, Settling, ToMacroReturn, Cont, Plain, Place
<1>5. Flagged'
  BY <1>1 DEF Inv, Flagged, BeginLine, Running, Taker, Place
<1>6. Inputting'
  BY <1>1 DEF Inv, Inputting, BeginLine, NewCont, Calling
<1> QED
  BY <1>2, <1>3, <1>4, <1>5, <1>6 DEF Inv

LEMMA BeginSeqStep ==
  ASSUME Inv, BeginSeq
  PROVE  Inv'
<1>1. pc \in Free /\ pc' \in Free /\ pc' \in {"fetch_cont", "eval_sequence"}
  BY FreeLabels DEF BeginSeq
<1>2. Typed'
  <2>1. r' \in Regs /\ r'.current_unode = r.current_unode
    BY DEF Inv, Typed, BeginSeq, Regs
  <2>2. val' \in Values
    BY DEF Inv, Typed, BeginSeq, Values, Result
  <2> QED
    BY <1>1, <2>1, <2>2 DEF Inv, Typed, BeginSeq, Labels, stacks
<1>3. Stacked'
  BY <1>1, StacksStay DEF Inv, BeginSeq
<1>4. Valued'
  BY <1>1 DEF Inv, Valued, BeginSeq, Settling, ToMacroReturn, Cont, Plain, Place, Result
<1>5. Flagged'
  BY <1>1 DEF Inv, Flagged, Inputting, BeginSeq, Running, Taker, Place, stacks
<1>6. Inputting'
  BY <1>1 DEF Inv, Inputting, BeginSeq, Calling, stacks, Typed, Regs
<1> QED
  BY <1>2, <1>3, <1>4, <1>5, <1>6 DEF Inv

LEMMA EndLineStep ==
  ASSUME Inv, EndLine
  PROVE  Inv'
<1>1. pc \in Plain /\ pc' \in Free /\ pc' = "fetch_cont"
  BY FreeLabels DEF EndLine, Plain
<1>2. Typed'
  BY <1>1, Errors DEF Inv, Typed, EndLine, Labels, stacks
<1>3. Stacked'
  BY <1>1, PlainStacksStay DEF Inv, EndLine
<1>4. Valued'
  BY <1>1 DEF Inv, Valued, EndLine, Settling, ToMacroReturn, Cont, Plain, Place
<1>5. Flagged'
  BY <1>1, Errors DEF Inv, Flagged, Inputting, EndLine, Running, Taker, Place, stacks
<1>6. Inputting'
  BY <1>1 DEF Inv, Inputting, EndLine, Calling, stacks
<1> QED
  BY <1>2, <1>3, <1>4, <1>5, <1>6 DEF Inv

LEMMA FetchContStep ==
  ASSUME Inv, FetchCont
  PROVE  Inv'
<1>1. pc \in Free /\ pc = "fetch_cont"
  BY FreeLabels DEF FetchCont
<1>2. Good(unodes, stack, numstack, cont) /\ cont \in Cont /\ unodes \in Nat
  BY <1>1, StackedHere DEF Inv
<1>3. cont # "none"
  BY <1>2 DEF Cont, Plain
<1>4. PICK stk0, nms0, below, cells, nums :
          /\ Good(unodes, stk0, nms0, below)
          /\ Frame(unodes, cont, below, cells, nums)
          /\ stack = stk0 \o cells
          /\ numstack = nms0 \o nums \o <<Cell("cont", below)>>
  <2>1. Pushed(unodes, stack, numstack, cont)
    BY <1>2, <1>3, GoodPop
  <2> QED
    BY <2>1 DEF Pushed
<1>5. below \in (Cont \ {"after_const_arg"}) \cup {"none"}
  BY <1>4 DEF Frame
<1>6. Last(numstack) = Cell("cont", below) /\ Front(numstack) = nms0 \o nums
  <2>1. nms0 \in Seq(NumCell) /\ nums \in Seq(NumCell) /\ Cell("cont", below) \in NumCell
    BY <1>2, <1>4, <1>5, GoodType, FrameType, ContCell
  <2>2. nms0 \o nums \in Seq(NumCell)
    BY <2>1, ConcatProperties
  <2> DEFINE a == nms0 \o nums
             b == Cell("cont", below)
  <2>3. a \in Seq(NumCell) /\ b \in NumCell
    BY <2>1, <2>2
  <2> HIDE DEF a, b
  <2>4. Last(a \o <<b>>) = b /\ Front(a \o <<b>>) = a
    BY <2>3, ConcatLast
  <2> QED
    BY <1>4, <2>4 DEF a, b
<1>7. cont' = below /\ numstack' = nms0 \o nums /\ pc' = cont
  BY <1>6 DEF FetchCont, Cell
<1>8. Typed'
  BY <1>2, <1>7 DEF Inv, Typed, FetchCont, Labels, Cont, Plain
<1>9. Stacked'
  <2>1. Framed(unodes, pc, cont, stack, numstack)'
    BY <1>4, <1>7 DEF Framed, FetchCont
  <2> QED
    BY <1>2, <1>7, <2>1, FreeLabels DEF Stacked
<1>10. Valued'
  BY <1>1, <1>2, <1>7 DEF Inv, Valued, FetchCont, Settling, ToMacroReturn, GoesOn, Cont, Plain, Place
<1>11. Flagged'
  BY <1>1, <1>2, <1>7 DEF Inv, Flagged, FetchCont, Running, Taker, Place, Cont, Plain
<1>12. Inputting'
  <2>1. cont' # "after_const_arg"
    BY <1>5, <1>7
  <2>2. pc' \notin (Calling \ {"after_const_arg"}) \cup {"eval_dispatch", "non_tail_eval", "begin_apply", "primitive_apply",
             "lambda_apply", "eval_sequence"}
    BY <1>2, <1>7 DEF Calling, Cont, Plain
  <2>3. cont = "after_const_arg" => InputNext(r, val) /\ MacroGoesTo(r.fun, r.tailcall, cont')
    BY <1>1 DEF Inv, Inputting, FetchCont
  <2> QED
    BY <1>7, <2>1, <2>2, <2>3 DEF Inputting, FetchCont, Calling
<1> QED
  BY <1>8, <1>9, <1>10, <1>11, <1>12 DEF Inv

\* What is left when the line is done.
LEMMA NothingLeft ==
  ASSUME NEW u \in Nat, NEW stk, NEW nms, Good(u, stk, nms, "none")
  PROVE  stk = <<>> /\ nms = <<>>
<1> DEFINE X == {c \in Config : c[3] = "none" => c = Empty}
<1>1. Closed(u, X)
  <2>1. Empty \in X
    BY EmptyType
  <2>2. ASSUME NEW c \in X, NEW l \in Cont, NEW cells \in Seq(StackCell), NEW nums \in Seq(NumCell),
               Frame(u, l, c[3], cells, nums)
        PROVE  Push(c, l, cells, nums) \in X
    <3>1. Push(c, l, cells, nums) \in Config
      BY <2>2, PushType
    <3>2. Push(c, l, cells, nums)[3] = l /\ l # "none"
      BY DEF Push, Cont, Plain
    <3> QED
      BY <3>1, <3>2
  <2> HIDE DEF X
  <2> QED
    BY <2>1, <2>2 DEF Closed
<1>2. <<stk, nms, "none">> \in X
  BY <1>1 DEF Good
<1>3. <<stk, nms, "none">> = Empty
  BY <1>2
<1> QED
  BY <1>3 DEF Empty

LEMMA AllDoneStep ==
  ASSUME Inv, AllDone
  PROVE  Inv'
<1>1. pc = "all_done" /\ pc' = "done" /\ pc \in Cont /\ unodes \in Nat
  BY DEF AllDone, Cont, Inv, Typed
<1>2. Framed(unodes, "all_done", cont, stack, numstack)
  BY <1>1 DEF Inv, Stacked
<1>3. /\ Good(unodes, Front(stack), numstack, cont) /\ cont = "none"
      /\ Last(stack).v \in Regs /\ Last(stack).v.current_unode <= unodes
  BY <1>1, <1>2, PopLine
<1>4. Front(stack) = <<>> /\ numstack = <<>>
  BY <1>1, <1>3, NothingLeft
<1>5. Typed'
  BY <1>1, <1>3 DEF Inv, Typed, AllDone, Labels
<1>6. Stacked'
  BY <1>1, <1>3, <1>4 DEF AllDone, Stacked, Cont, Plain, InRepeat
<1>7. Valued'
  BY <1>1 DEF Inv, Valued, AllDone, Settling, ToMacroReturn, Cont, Plain, Place
<1>8. Flagged'
  BY <1>1 DEF Inv, Flagged, AllDone, Running, Taker, Place
<1>9. Inputting'
  BY <1>1, <1>3 DEF Inv, Inputting, AllDone, Calling
<1> QED
  BY <1>5, <1>6, <1>7, <1>8, <1>9 DEF Inv

LEMMA Words ==
  ASSUME Language
  PROVE  /\ \A e \in Exp : IsConst(e) => e.v \in Val
         /\ \A e \in Exp : ~IsConst(e) => e.args \in Seq(Exp) /\ Fits(e.op, e.args)
         /\ \A f \in Proc : f \notin Primitive /\ f # "const" /\ f # "none" /\ f \notin PrimMacro
         /\ Macro \subseteq Proc
  BY DEF Language, Primitive, TailForm, PrimMacro

LEMMA Ops ==
  ASSUME Language, NEW e \in Exp, ~IsConst(e)
  PROVE  e.op \in Fun /\ e.args \in Seq(Exp) /\ Fits(e.op, e.args)
<1>1. e.args \in Seq(Exp) /\ Fits(e.op, e.args)
  BY Words
<1> QED
  BY <1>1 DEF Fits, Fun, Ufun, Primitive, TailForm, PrimMacro

LEMMA EvalDispatchStep ==
  ASSUME Language, Inv, EvalDispatch
  PROVE  Inv'
<1>1. pc \in Free /\ pc' \in Free /\ pc = "eval_dispatch" /\ pc' \in {"fetch_cont", "non_tail_eval", "eval_arg_loop"}
  BY FreeLabels DEF EvalDispatch
<1>2. expresn \in Exp /\ sig.flag = "RUN"
  BY <1>1 DEF Inv, Inputting, Flagged, Running
<1>3. /\ expresn' = expresn /\ sig' = sig /\ cont' = cont /\ unodes' = unodes
      /\ prog' = prog /\ list' = list /\ numstack' = numstack
  BY DEF EvalDispatch, stacks
<1>4. Stacked'
  BY <1>1, StacksStay DEF Inv, EvalDispatch
<1>5. CASE IsConst(expresn)
  <2>1. val' = expresn.v /\ val' \in Val /\ r' = r /\ pc' = "fetch_cont"
    BY <1>2, <1>5, Words DEF EvalDispatch
  <2>2. Typed'
    BY <1>1, <1>3, <2>1 DEF Inv, Typed, Labels, Values, Result
  <2>3. Valued'
    BY <1>1, <1>3, <2>1 DEF Valued, ToMacroReturn, Result, Place
  <2>4. Flagged'
    BY <1>1, <1>2, <1>3, <2>1 DEF Flagged, Running, Place
  <2>5. Inputting'
    BY <1>1, <1>2, <1>3, <2>1 DEF Inv, Inputting, Calling
  <2> QED
    BY <1>4, <2>2, <2>3, <2>4, <2>5 DEF Inv
<1>6. CASE ~IsConst(expresn)
  <2>0. val' = val /\ cont # "after_const_arg"
    BY <1>1, <1>6 DEF Inv, Inputting, EvalDispatch
  <2>1. expresn.op \in Fun /\ expresn.args \in Seq(Exp) /\ Fits(expresn.op, expresn.args)
    BY <1>2, <1>6, Ops
  <2>2. CASE r.tailcall = 1 /\ expresn.op \in Macro
    <3>1. r' = [r EXCEPT !.unev = <<>>] /\ pc' = "non_tail_eval"
      BY <1>6, <2>2 DEF EvalDispatch
    <3>2. r' \in Regs /\ r'.current_unode = r.current_unode
      BY <3>1, SeqTypes DEF Inv, Typed, Regs
    <3>3. Typed'
      BY <1>1, <1>3, <2>0, <3>1, <3>2 DEF Inv, Typed, Labels
    <3>4. Valued'
      BY <3>1 DEF Valued, ToMacroReturn, Settling, Cont, Plain, Place
    <3>5. Flagged'
      BY <1>2, <1>3, <3>1 DEF Flagged, Running, Place
    <3>6. Inputting'
      BY <1>2, <1>3, <2>0, <3>1 DEF Inputting, Calling
    <3> QED
      BY <1>4, <3>3, <3>4, <3>5, <3>6 DEF Inv
  <2>3. CASE ~(r.tailcall = 1 /\ expresn.op \in Macro)
    <3>1. r' = [r EXCEPT !.fun = expresn.op, !.argl = <<>>, !.unev = expresn.args] /\ pc' = "eval_arg_loop"
      BY <1>6, <2>3 DEF EvalDispatch
    <3>2. r' \in Regs /\ r'.current_unode = r.current_unode
      BY <2>1, <3>1, SeqTypes DEF Inv, Typed, Regs
    <3>3. r'.argl = <<>> /\ r'.fun = expresn.op /\ r'.unev = expresn.args /\ r'.tailcall = r.tailcall
      BY <3>1 DEF Inv, Typed, Regs
    <3>4. Typed'
      BY <1>1, <1>3, <2>0, <3>1, <3>2 DEF Inv, Typed, Labels
    <3>5. Valued'
      BY <3>1 DEF Valued, ToMacroReturn, Settling, Cont, Plain, Place
    <3>6. Flagged'
      BY <1>2, <1>3, <3>1 DEF Flagged, Running, Place
    <3>7. Inputs(r')
      BY <2>1, <3>3 DEF Inputs
    <3>8. MacroGoesTo(r'.fun, r'.tailcall, cont')
      BY <1>1, <1>3, <3>3 DEF Inv, Inputting
    <3>9. Inputting'
      BY <1>3, <2>0, <3>1, <3>7, <3>8 DEF Inputting
    <3> QED
      BY <1>4, <3>4, <3>5, <3>6, <3>9 DEF Inv
  <2> QED
    BY <2>2, <2>3
<1> QED
  BY <1>5, <1>6

LEMMA Results ==
  /\ \A v \in Result : v \in Values
  /\ Unbound \in Result /\ \A v \in Val : v \in Result
  BY DEF Values, Result

LEMMA EvalArgLoopStep ==
  ASSUME Language, Inv, EvalArgLoop
  PROVE  Inv'
<1>1. pc \in Free /\ pc' \in Free /\ pc = "eval_arg_loop" /\ pc' \in {"eval_args_done", "arg_from_macro"}
  BY FreeLabels DEF EvalArgLoop
<1>2. /\ sig.flag = "RUN" /\ cont # "after_const_arg" /\ Inputs(r) /\ MacroGoesTo(r.fun, r.tailcall, cont)
      /\ r \in Regs /\ r.unev \in Seq(Exp)
  BY <1>1 DEF Inv, Inputting, Flagged, Running, Calling, Typed, Regs
<1>3. UNCHANGED <<prog, val, list, r, stack, cont, numstack, sig, unodes, log>>
  BY DEF EvalArgLoop, stacks
<1>4. pc' = "arg_from_macro" => r.unev # <<>> /\ expresn' = Head(r.unev) /\ expresn' \in Exp
  BY <1>2, HeadTailProperties DEF EvalArgLoop
<1>5. pc' = "eval_args_done" => r.unev = <<>> /\ expresn' = expresn
  BY DEF EvalArgLoop
<1>6. Typed'
  BY <1>1, <1>3, <1>4, <1>5 DEF Inv, Typed, Labels
<1>7. Stacked'
  BY <1>1, <1>3, StacksStay DEF Inv, stacks
<1>8. Valued'
  BY <1>1 DEF Valued, ToMacroReturn, Settling, Cont, Plain, Place
<1>9. Flagged'
  BY <1>1, <1>2, <1>3 DEF Flagged, Running, Place
<1>10. Inputting'
  BY <1>1, <1>2, <1>3, <1>4, <1>5 DEF Inputting, Calling
<1> QED
  BY <1>6, <1>7, <1>8, <1>9, <1>10 DEF Inv

LEMMA ArgFromMacroStep ==
  ASSUME Language, Inv, ArgFromMacro
  PROVE  Inv'
<1>1. pc \in Free /\ pc' \in Free /\ pc = "arg_from_macro" /\ pc' = "eval_dispatch"
  BY FreeLabels DEF ArgFromMacro
<1>2. /\ sig.flag = "RUN" /\ cont # "after_const_arg" /\ Inputs(r) /\ MacroGoesTo(r.fun, r.tailcall, cont)
      /\ r.unev # <<>> /\ (IsConst(Head(r.unev)) => expresn = Head(r.unev))
      /\ expresn \in Exp /\ r \in Regs /\ r.current_unode \in 0 .. unodes
  BY <1>1 DEF Inv, Inputting, Flagged, Running, Calling, Typed, Regs
<1>3. Good(unodes, stack, numstack, cont) /\ cont \in Cont \ {"after_const_arg"} /\ unodes \in Nat
  BY <1>1, <1>2, StackedHere DEF Inv
<1>4. UNCHANGED <<prog, expresn, val, list, sig, unodes, log>>
  BY DEF ArgFromMacro
<1>5. Valued'
  BY <1>1 DEF Valued, ToMacroReturn, Settling, Cont, Plain, Place
<1>6. Flagged'
  BY <1>1, <1>2, <1>4 DEF Flagged, Running, Place
<1>7. CASE IsConst(expresn)
  <2>1. UNCHANGED <<stack, r>> /\ cont' = "after_const_arg" /\ numstack' = Append(numstack, Cell("cont", cont))
    BY <1>7 DEF ArgFromMacro, NewCont, Cell
  <2>2. Good(unodes, stack, numstack, cont)' /\ cont' \in Cont
    BY <1>3, <1>4, <2>1, PushPlain DEF Plain, Cont, Cell
  <2>3. Stacked'
    BY <1>1, <2>2, StackedThere
  <2>4. Typed'
    BY <1>1, <1>4, <2>1 DEF Inv, Typed, Labels
  <2>5. InputNext(r, expresn.v)
    BY <1>2, <1>7, Words DEF InputNext
  <2>6. Last(numstack').v = cont
    <3>1. numstack \in Seq(NumCell) /\ Cell("cont", cont) \in NumCell
      BY <1>3, GoodType, ContCell
    <3> QED
      BY <2>1, <3>1, ConcatLast DEF Cell
  <2>7. MacroGoesTo(expresn'.op, r'.tailcall, cont')
    BY <1>4, <1>7, Words DEF MacroGoesTo, IsMacro, IsConst, PrimMacro
  <2>8. Inputting'
    BY <1>1, <1>2, <1>4, <1>7, <2>1, <2>5, <2>6, <2>7 DEF Inputting, Calling
  <2> QED
    BY <1>5, <1>6, <2>3, <2>4, <2>8 DEF Inv
<1>8. CASE ~IsConst(expresn)
  <2>1. /\ stack' = stack \o <<Cell("regs", r), Cell("current_unode", r.current_unode)>>
        /\ cont' = "accumulate_arg" /\ numstack' = Append(numstack, [k |-> "cont", v |-> cont])
        /\ r' = [r EXCEPT !.tailcall = -1, !.didnt_get_output = Wanted(r.ufun), !.status = {"VALUE_OK"}]
    BY <1>8 DEF ArgFromMacro, NewCont
  <2>2. Frame(unodes, "accumulate_arg", cont, <<Cell("regs", r), Cell("current_unode", r.current_unode)>>, <<>>)
    <3>1. r.current_unode <= unodes /\ ~IsConst(Head(r.unev))
      BY <1>2, <1>3, <1>8
    <3> QED
      BY <1>2, <1>3, <3>1 DEF Frame
  <2>3. Good(unodes, stack, numstack, cont)' /\ cont' \in Cont
    <3>1. Good(unodes, stack \o <<Cell("regs", r), Cell("current_unode", r.current_unode)>>,
               Append(numstack, [k |-> "cont", v |-> cont]), "accumulate_arg")
      BY <1>3, <2>2, PushCells
    <3> QED
      BY <1>4, <2>1, <3>1 DEF Cont
  <2>4. Stacked'
    BY <1>1, <2>3, StackedThere
  <2>5. r' \in Regs /\ r'.current_unode = r.current_unode
    <3>1. r.ufun \in Ufun
      BY <1>2 DEF Regs
    <3>2. Wanted(r.ufun) \in Getter /\ {"VALUE_OK"} \in StatusSet
      BY <3>1 DEF Getter, StatusSet
    <3> QED
      BY <1>2, <2>1, <3>2 DEF Regs
  <2>6. Typed'
    BY <1>1, <1>4, <2>1, <2>5 DEF Inv, Typed, Labels
  <2>7. MacroGoesTo(expresn'.op, r'.tailcall, cont')
    BY <2>1 DEF MacroGoesTo, Taker
  <2>8. Inputting'
    BY <1>1, <1>2, <1>4, <2>1, <2>7 DEF Inputting, Calling
  <2> QED
    BY <1>5, <1>6, <2>4, <2>6, <2>8 DEF Inv
<1> QED
  BY <1>7, <1>8

\* The next input is there.
LEMMA InputTaken ==
  ASSUME NEW x \in Regs, NEW v, InputNext(x, v),
         NEW y, y = [x EXCEPT !.argl = Append(@, v), !.unev = Tail(@)]
  PROVE  /\ y \in Regs /\ Inputs(y)
         /\ y.fun = x.fun /\ y.tailcall = x.tailcall /\ y.current_unode = x.current_unode
<1>1. /\ x.argl \in Seq(Val) /\ x.unev \in Seq(Exp) /\ x.unev # <<>> /\ v \in Val
      /\ IsConst(Head(x.unev)) => v = Head(x.unev).v
  BY DEF InputNext, Regs
<1>2. y.argl = Append(x.argl, v) /\ y.unev = Tail(x.unev) /\ y.fun = x.fun /\ y.tailcall = x.tailcall
      /\ y.current_unode = x.current_unode
  BY DEF Regs
<1>3. PICK args \in Seq(Exp) :
          /\ Fits(x.fun, args)
          /\ Len(x.argl) + Len(x.unev) = Len(args)
          /\ \A i \in 1 .. Len(x.unev) : x.unev[i] = args[Len(x.argl) + i]
          /\ \A i \in 1 .. Len(x.argl) : IsConst(args[i]) => x.argl[i] = args[i].v
  BY DEF InputNext, Inputs
<1> DEFINE a == x.argl
           b == x.unev
           c == Append(a, v)
           d == Tail(b)
<1>4. /\ c \in Seq(Val) /\ Len(c) = Len(a) + 1 /\ (\A i \in 1 .. Len(a) : c[i] = a[i]) /\ c[Len(a) + 1] = v
      /\ Len(a) \in Nat
  BY <1>1, AppendProperties, LenProperties
<1>5. /\ d \in Seq(Exp) /\ Len(d) = Len(b) - 1 /\ (\A i \in 1 .. Len(d) : d[i] = b[i + 1]) /\ Head(b) = b[1]
      /\ Len(b) \in Nat /\ Len(b) > 0
  BY <1>1, HeadTailProperties, EmptySeq
<1>6. y \in Regs
  <2> HIDE DEF c, d
  <2>1. y = [x EXCEPT !.argl = c, !.unev = d]
    BY DEF c, d
  <2> QED
    BY <1>4, <1>5, <2>1 DEF Regs
<1>7. /\ Len(a) + Len(b) = Len(args) /\ (\A i \in 1 .. Len(b) : b[i] = args[Len(a) + i])
      /\ \A i \in 1 .. Len(a) : IsConst(args[i]) => a[i] = args[i].v
  BY <1>3
<1>8. IsConst(b[1]) => v = b[1].v
  BY <1>1, <1>5
<1> HIDE DEF a, b, c, d
<1>9. Len(c) + Len(d) = Len(args)
  BY <1>4, <1>5, <1>7
<1>10. \A i \in 1 .. Len(d) : d[i] = args[Len(c) + i]
  <2> SUFFICES ASSUME NEW i \in 1 .. Len(d) PROVE d[i] = args[Len(c) + i]
    OBVIOUS
  <2>1. Len(b) \in Nat /\ Len(d) = Len(b) - 1 /\ Len(a) \in Nat /\ Len(c) = Len(a) + 1
    BY <1>4, <1>5
  <2>2. i \in Nat /\ i + 1 \in 1 .. Len(b)
    BY <2>1
  <2>3. Len(c) + i = Len(a) + (i + 1)
    BY <2>1, <2>2
  <2> QED
    BY <1>5, <1>7, <2>2, <2>3
<1>11. \A i \in 1 .. Len(c) : IsConst(args[i]) => c[i] = args[i].v
  <2> SUFFICES ASSUME NEW i \in 1 .. Len(c), IsConst(args[i]) PROVE c[i] = args[i].v
    OBVIOUS
  <2>1. CASE i <= Len(a)
    <3>1. i \in 1 .. Len(a)
      BY <1>4, <2>1
    <3> QED
      BY <1>4, <1>7, <3>1
  <2>2. CASE i = Len(a) + 1
    <3>1. 1 \in 1 .. Len(b) /\ args[i] = b[1]
      BY <1>4, <1>5, <1>7, <2>2
    <3> QED
      BY <1>4, <1>8, <2>2, <3>1
  <2> QED
    BY <1>4, <2>1, <2>2
<1>12. Inputs(y)
  <2>1. y.argl = c /\ y.unev = d
    BY <1>2 DEF a, b, c, d
  <2>2. Fits(y.fun, args)
    BY <1>2, <1>3
  <2>3. Len(y.argl) + Len(y.unev) = Len(args)
    BY <1>9, <2>1
  <2>4. \A i \in 1 .. Len(y.unev) : y.unev[i] = args[Len(y.argl) + i]
    BY Zenon, <1>10, <2>1
  <2>5. \A i \in 1 .. Len(y.argl) : IsConst(args[i]) => y.argl[i] = args[i].v
    BY Zenon, <1>11, <2>1
  <2> QED
    BY Zenon, <2>2, <2>3, <2>4, <2>5 DEF Inputs
<1> QED
  BY <1>2, <1>6, <1>12

LEMMA AfterConstArgStep ==
  ASSUME Language, Inv, AfterConstArg
  PROVE  Inv'
<1>1. pc \in Plain /\ pc' \in Free /\ pc = "after_const_arg" /\ pc' \in {"eval_args_done", "eval_arg_loop"}
  BY FreeLabels DEF AfterConstArg, Plain
<1>2. /\ sig.flag \in {"RUN", "THROWING"} /\ MacroGoesTo(r.fun, r.tailcall, cont)
      /\ sig.flag = "RUN" => InputNext(r, val)
      /\ r \in Regs
  BY <1>1 DEF Inv, Inputting, Flagged, Calling, Typed
<1>3. UNCHANGED <<prog, expresn, val, list, stack, cont, numstack, sig, unodes, log>>
  BY DEF AfterConstArg, stacks
<1>4. cont \in Cont \ {"after_const_arg"}
  BY <1>1, FromPlain DEF Inv
<1>5. r' \in Regs /\ r'.fun = r.fun /\ r'.tailcall = r.tailcall /\ r'.current_unode = r.current_unode
      /\ (pc' = "eval_arg_loop" => sig.flag = "RUN" /\ Inputs(r'))
      /\ (pc' = "eval_args_done" => sig.flag # "RUN")
  <2>1. CASE NotThrowing
    <3>1. sig.flag = "RUN" /\ r' = [r EXCEPT !.argl = Append(@, val), !.unev = Tail(@)] /\ pc' = "eval_arg_loop"
      BY <1>2, <2>1 DEF AfterConstArg, NotThrowing
    <3> QED
      BY <1>2, <3>1, InputTaken
  <2>2. CASE ~NotThrowing
    BY <1>2, <2>2 DEF AfterConstArg, NotThrowing
  <2> QED
    BY <2>1, <2>2
<1>6. Typed'
  BY <1>1, <1>3, <1>5 DEF Inv, Typed, Labels
<1>7. Stacked'
  BY <1>1, <1>3, PlainStacksStay DEF Inv, stacks
<1>8. Valued'
  BY <1>1 DEF Valued, ToMacroReturn, Settling, Cont, Plain, Place
<1>9. Flagged'
  BY <1>1, <1>2, <1>3, <1>5 DEF Flagged, Running, Place
<1>10. Inputting'
  BY <1>1, <1>2, <1>3, <1>4, <1>5 DEF Inputting, Calling
<1> QED
  BY <1>6, <1>7, <1>8, <1>9, <1>10 DEF Inv

LEMMA Settle ==
  ASSUME Typed, val \in Result, NEW STATE u
  PROVE  /\ Settled(u) \in Signal /\ Settled(u).unode = sig.unode /\ Settled(u).tag = sig.tag
         /\ ReceivedVal(u) \in Result
         /\ Settled(u).flag \in {sig.flag, "RUN"}
         /\ sig.flag \notin {"OUTPUT", "STOP"} => Settled(u).flag = sig.flag /\ ReceivedVal(u) = val
<1>1. sig \in Signal /\ sig.out \in Result /\ Unbound \in Result
  BY DEF Typed, Signal, Result
<1>2. ReceivedVal(u) \in Result
  BY <1>1 DEF ReceivedVal
<1>3. CASE Received(u)
  <2>1. Settled(u) = [sig EXCEPT !.flag = "RUN", !.out = ReceivedVal(u)]
    BY <1>3 DEF Settled
  <2> QED
    BY <1>1, <1>2, <1>3, <2>1 DEF Signal, Received
<1>4. CASE ~Received(u)
  <2>1. ReceivedVal(u) = val /\ Settled(u) \in {sig, [sig EXCEPT !.out = Unbound]}
    BY <1>4 DEF Settled, ReceivedVal
  <2> QED
    BY <1>1, <1>2, <2>1 DEF Signal
<1> QED
  BY <1>3, <1>4

LEMMA StackedWith ==
  ASSUME Good(unodes, stack, numstack, cont)', cont' \in Cont \ {"after_const_arg"}, unodes' \in Nat,
         pc' \in Free \cup Plain
  PROVE  Stacked'
<1>1. CASE pc' \in Free
  BY <1>1, StackedThere
<1>2. CASE pc' \in Plain
  <2>1. Framed(unodes, pc, cont, stack, numstack)'
    BY <1>2, PlainFramed
  <2> QED
    BY <1>2, <2>1, FreeLabels DEF Stacked, Cont
<1> QED
  BY <1>1, <1>2

\* A list that a macro returned.
LEMMA ListOfMacro ==
  ASSUME Language, Inv, sig.flag = "MACRO_RETURN"
  PROVE  /\ val \in Val /\ val.l \in Seq(Exp)
         /\ Len(val.l) = 1 => val.l[1] \in Exp
<1>1. val \in Val /\ val.t = "list"
  BY DEF Inv, Flagged
<1>2. val.l \in Seq(Exp)
  BY <1>1 DEF Language
<1> QED
  BY <1>1, <1>2

LEMMA AccumulateArgStep ==
  ASSUME Language, Inv, AccumulateArg
  PROVE  Inv'
<1> DEFINE u == Last(stack).v
           s == Settled(u)
           v == ReceivedVal(u)
           x == stack[Len(stack) - 1].v
<1>1. pc = "accumulate_arg" /\ pc \in Cont /\ unodes \in Nat
  BY DEF AccumulateArg, Cont, Inv, Typed
<1>2. Framed(unodes, "accumulate_arg", cont, stack, numstack)
  BY <1>1 DEF Inv, Stacked
<1>3. /\ Good(unodes, Pop(stack, 2), numstack, cont) /\ cont \in Cont \ {"after_const_arg"}
      /\ x \in Regs /\ x.current_unode <= unodes /\ Inputs(x) /\ x.unev # <<>> /\ ~IsConst(Head(x.unev))
      /\ MacroGoesTo(x.fun, x.tailcall, cont)
  BY <1>1, <1>2, PopArg
<1>4. val \in Result
  BY <1>1 DEF Inv, Valued, Settling, ToMacroReturn
<1> HIDE DEF u, x
<1>5. /\ s \in Signal /\ s.unode = sig.unode /\ v \in Result
      /\ s.flag \in {sig.flag, "RUN"}
      /\ sig.flag \notin {"OUTPUT", "STOP"} => s.flag = sig.flag /\ v = val
  BY <1>4, Settle DEF Inv
<1> HIDE DEF s, v
<1>6. /\ stack' = Pop(stack, 2) /\ val' = v
      /\ UNCHANGED <<prog, list, cont, numstack, unodes, log>>
  BY DEF AccumulateArg, u, v
<1>7. Good(unodes, stack, numstack, cont)' /\ cont' = cont /\ unodes' = unodes
  BY <1>3, <1>6
<1>8. \/ sig' = Error /\ r' = x /\ pc' \in {"after_const_arg", "eval_args_done"} /\ expresn' = expresn
      \/ sig' = Error /\ r' = r /\ pc' = "no one to blame" /\ expresn' = expresn
      \/ sig' = [s EXCEPT !.flag = "RUN"] /\ r' = x /\ pc' = "arg_from_macro" /\ expresn' \in Exp
      \/ sig' = s /\ s.flag \in {"RUN", "THROWING"} /\ (s.flag = "RUN" => v \in Val) /\ r' = x
         /\ pc' = "after_const_arg" /\ expresn' = expresn
  <2>1. CASE s.flag \in {"OUTPUT", "STOP"}
    BY <2>1 DEF AccumulateArg, u, v, s, x
  <2>2. CASE s.flag = "RUN" /\ v = Unbound
    BY <2>2 DEF AccumulateArg, u, v, s, x
  <2>3. CASE s.flag = "MACRO_RETURN" /\ Len(v.l) # 1
    BY <2>3 DEF AccumulateArg, u, v, s, x
  <2>4. CASE s.flag = "MACRO_RETURN" /\ Len(v.l) = 1
    <3>1. sig' = [s EXCEPT !.flag = "RUN"] /\ r' = x /\ pc' = "arg_from_macro" /\ expresn' = v.l[1]
      BY <2>4 DEF AccumulateArg, u, v, s, x
    <3>2. sig.flag = "MACRO_RETURN" /\ v = val
      BY <1>5, <2>4
    <3> QED
      BY <2>4, <3>1, <3>2, ListOfMacro
  <2>5. CASE s.flag = "THROWING" \/ (s.flag = "RUN" /\ v # Unbound)
    <3>1. sig' = s /\ r' = x /\ pc' = "after_const_arg" /\ expresn' = expresn
      BY <2>5 DEF AccumulateArg, u, v, s, x
    <3> QED
      BY <1>5, <2>5, <3>1 DEF Result
  <2>6. s.flag \in {"RUN", "STOP", "OUTPUT", "THROWING", "MACRO_RETURN"}
    BY <1>5 DEF Signal
  <2> QED
    BY <2>1, <2>2, <2>3, <2>4, <2>5, <2>6
<1>9. pc' \in Free \cup Plain
      /\ pc' \in {"after_const_arg", "eval_args_done", "arg_from_macro", "no one to blame"}
  BY <1>8, FreeLabels DEF Plain
<1>10. sig' \in Signal /\ sig'.unode = sig.unode /\ r' \in Regs /\ r'.current_unode <= unodes
  BY <1>3, <1>5, <1>8, Errors DEF Inv, Typed, Signal
<1>11. Typed'
  <2>1. val' \in Values /\ expresn' \in Exp \cup {Const(Unbound)}
    BY <1>5, <1>6, <1>8, Results DEF Inv, Typed
  <2> QED
    BY <1>6, <1>9, <1>10, <2>1 DEF Inv, Typed, Labels
<1>12. Stacked'
  BY <1>1, <1>3, <1>7, <1>9, StackedWith
<1>13. Valued'
  BY <1>5, <1>6, <1>9 DEF Valued, ToMacroReturn, Settling, Cont, Plain, Place
<1>14. Flagged'
  BY <1>5, <1>8, <1>9, Errors DEF Inv, Flagged, Running, Place, Signal
<1>15. Inputting'
  <2>1. pc' \in Calling => r' = x
    BY <1>8 DEF Calling
  <2>2. pc' = "after_const_arg" /\ sig'.flag = "RUN" => InputNext(r', val')
    BY <1>3, <1>6, <1>8, Errors DEF Inv, InputNext
  <2>3. sig' = Error => sig'.flag # "RUN"
    BY Errors DEF Inv
  <2> QED
    BY <1>3, <1>7, <1>8, <1>9, <2>1, <2>2, <2>3 DEF Inputting, Calling
<1> QED
  BY <1>11, <1>12, <1>13, <1>14, <1>15 DEF Inv

LEMMA EvalArgsDoneStep ==
  ASSUME Inv, EvalArgsDone
  PROVE  Inv'
<1>1. pc \in Free /\ pc' \in Free /\ pc = "eval_args_done" /\ pc' \in {"apply_dispatch", "fetch_cont"}
  BY FreeLabels DEF EvalArgsDone
<1>2. /\ sig.flag \in {"RUN", "THROWING"} /\ MacroGoesTo(r.fun, r.tailcall, cont) /\ cont # "after_const_arg"
      /\ sig.flag = "RUN" => Inputs(r) /\ r.unev = <<>>
  BY <1>1 DEF Inv, Inputting, Flagged, Calling
<1>3. UNCHANGED <<prog, expresn, list, r, stack, cont, numstack, sig, unodes, log>>
  BY DEF EvalArgsDone, stacks
<1>4. \/ sig.flag = "RUN" /\ pc' = "apply_dispatch" /\ val' = val
      \/ sig.flag = "THROWING" /\ pc' = "fetch_cont" /\ val' = Unbound
  BY <1>2 DEF EvalArgsDone, NotThrowing
<1>5. Typed'
  <2>1. val' \in Values
    BY <1>4, Results DEF Inv, Typed
  <2> QED
    BY <1>1, <1>3, <2>1 DEF Inv, Typed, Labels
<1>6. Stacked'
  BY <1>1, <1>3, StacksStay DEF Inv, stacks
<1>7. Valued'
  BY <1>4 DEF Valued, ToMacroReturn, Settling, Cont, Plain, Place, Result
<1>8. Flagged'
  BY <1>2, <1>3, <1>4 DEF Flagged, Running, Place
<1>9. Inputting'
  BY <1>2, <1>3, <1>4 DEF Inputting, Calling
<1> QED
  BY <1>5, <1>6, <1>7, <1>8, <1>9 DEF Inv

\* A frame of one cell and the status is pushed.
LEMMA PushStatus ==
  ASSUME NEW u \in Nat, NEW label, NEW below, NEW c, NEW s, NEW stk, NEW nms,
         Good(u, stk, nms, below), Frame(u, label, below, <<c>>, <<Cell("status", s)>>)
  PROVE  Good(u, Append(stk, c), nms \o <<Cell("status", s)>> \o <<[k |-> "cont", v |-> below]>>, label)
<1>1. Good(u, stk \o <<c>>, nms \o <<Cell("status", s)>> \o <<Cell("cont", below)>>, label)
  BY GoodPush
<1>2. stk \in Seq(StackCell) /\ <<c>> \in Seq(StackCell)
  BY GoodType, FrameType
<1>3. stk \o <<c>> = Append(stk, c)
  BY <1>2, ConcatLast
<1> QED
  BY <1>1, <1>3 DEF Cell

LEMMA InputsSame ==
  ASSUME NEW x, NEW y, Inputs(x), y.fun = x.fun, y.argl = x.argl, y.unev = x.unev
  PROVE  Inputs(y)
  BY DEF Inputs

LEMMA ApplyDispatchStep ==
  ASSUME Language, Inv, ApplyDispatch
  PROVE  Inv'
<1>1. /\ pc \in Free /\ pc' \in Free /\ pc = "apply_dispatch"
      /\ pc' = IF r.fun \in Primitive THEN "primitive_apply" ELSE "lambda_apply"
  BY FreeLabels DEF ApplyDispatch
<1>2. /\ sig.flag = "RUN" /\ cont # "after_const_arg" /\ MacroGoesTo(r.fun, r.tailcall, cont)
      /\ r \in Regs /\ r.current_unode <= unodes
      /\ r.fun \notin Proc => Inputs(r) /\ r.unev = <<>>
  BY <1>1 DEF Inv, Inputting, Flagged, Running, Calling, Typed
<1>3. Good(unodes, stack, numstack, cont) /\ cont \in Cont \ {"after_const_arg"} /\ unodes \in Nat
  BY <1>1, <1>2, StackedHere DEF Inv
<1>4. UNCHANGED <<prog, expresn, val, list, sig, unodes, log>>
  BY DEF ApplyDispatch
<1>5. r.fun \in Primitive \/ r.fun \in Proc
  <2>1. CASE r.fun \notin Proc
    <3>1. Inputs(r)
      BY <1>2, <2>1
    <3>2. \E args : Fits(r.fun, args)
      BY <3>1 DEF Inputs
    <3> QED
      BY <2>1, <3>2 DEF Fits, Primitive, TailForm, PrimMacro
  <2> QED
    BY <2>1
<1>6. r.fun \in Primitive => r.fun \notin Proc
  BY Words
<1>7. Valued'
  BY <1>1 DEF Valued, ToMacroReturn, Settling, Cont, Plain, Place
<1>8. Flagged'
  BY <1>1, <1>2, <1>4 DEF Flagged, Running, Place
<1>9. CASE IsMacro(r.fun)
  <2> DEFINE m == [unode |-> r.current_unode, dgo |-> r.didnt_get_output]
  <2>1. /\ stack' = Append(stack, Cell("macro", m)) /\ cont' = "macro_return"
        /\ numstack' = numstack \o <<Cell("status", Status)>> \o <<[k |-> "cont", v |-> cont]>>
        /\ r' = [r EXCEPT !.didnt_get_output = WantedByMacro]
    BY <1>9 DEF ApplyDispatch, SaveNum
  <2>2. m \in MacroCell /\ m.unode <= unodes /\ Status \in StatusCell /\ Status.tailcall = r.tailcall
    BY <1>2 DEF Regs, MacroCell, StatusCell, Status
  <2>3. Status.tailcall <= 0 => cont \in Taker
    BY <1>2, <1>9, <2>2 DEF MacroGoesTo
  <2>4. Frame(unodes, "macro_return", cont, <<Cell("macro", m)>>, <<Cell("status", Status)>>)
    <3> HIDE DEF m
    <3> QED
      BY <1>3, <2>2, <2>3 DEF Frame
  <2>5. Good(unodes, stack, numstack, cont)' /\ cont' \in Cont
    <3> HIDE DEF m
    <3>1. Good(unodes, Append(stack, Cell("macro", m)),
               numstack \o <<Cell("status", Status)>> \o <<[k |-> "cont", v |-> cont]>>, "macro_return")
      BY <1>3, <2>4, PushStatus
    <3> QED
      BY <1>4, <2>1, <3>1 DEF Cont
  <2>6. Stacked'
    BY <1>1, <2>5, StackedThere
  <2>7. /\ r' \in Regs /\ r'.current_unode = r.current_unode /\ r'.fun = r.fun /\ r'.argl = r.argl
        /\ r'.unev = r.unev
    <3>1. WantedByMacro \in Getter
      BY DEF Getter
    <3> QED
      BY <1>2, <2>1, <3>1 DEF Regs
  <2>8. Typed'
    BY <1>1, <1>4, <2>7 DEF Inv, Typed, Labels
  <2>9. r.fun \notin Proc => Inputs(r')
    BY <1>2, <2>7, InputsSame
  <2>10. Inputting'
    BY <1>1, <1>2, <1>5, <1>6, <2>1, <2>7, <2>9 DEF Inputting, Calling
  <2> QED
    BY <1>7, <1>8, <2>6, <2>8, <2>10 DEF Inv
<1>10. CASE ~IsMacro(r.fun)
  <2>1. UNCHANGED <<stack, cont, numstack, r>>
    BY <1>10 DEF ApplyDispatch, stacks
  <2>2. Stacked'
    BY <1>1, <1>4, <2>1, StacksStay DEF Inv, stacks
  <2>3. Typed'
    BY <1>1, <1>4, <2>1 DEF Inv, Typed, Labels
  <2>4. r.fun \notin PrimMacro
    BY <1>10 DEF IsMacro
  <2>5. Inputting'
    BY <1>1, <1>2, <1>5, <1>6, <2>1, <2>4 DEF Inputting, Calling
  <2> QED
    BY <1>7, <1>8, <2>2, <2>3, <2>5 DEF Inv
<1> QED
  BY <1>9, <1>10

\* The inputs of a primitive, when they are all there.
Given(x) ==
    /\ x.fun \in {"print", "output", ".maybeoutput"} => x.argl[1] \in Val
    /\ x.fun = "throw" =>
           /\ x.argl[1] \in Val /\ x.argl[1].t = "word"
           /\ Len(x.argl) = 2 => x.argl[2] \in Val
    /\ x.fun = "run" => x.argl[1] \in Val /\ x.argl[1].t = "list"
    /\ x.fun = "runresult" => Fitting("runresult_continuation", x.argl)
    /\ x.fun = "repeat" => Fitting("repeat_continuation", x.argl)
    /\ x.fun = "catch" => Fitting("catch_continuation", x.argl)
    /\ x.fun = "apply" => Fitting("begin_apply", x.argl)

LEMMA AllInputs ==
  ASSUME Language, NEW x \in Regs, Inputs(x), x.unev = <<>>, x.fun \in Primitive
  PROVE  Given(x)
<1>1. PICK args \in Seq(Exp) :
          /\ Fits(x.fun, args)
          /\ Len(x.argl) + Len(x.unev) = Len(args)
          /\ \A i \in 1 .. Len(x.unev) : x.unev[i] = args[Len(x.argl) + i]
          /\ \A i \in 1 .. Len(x.argl) : IsConst(args[i]) => x.argl[i] = args[i].v
  BY DEF Inputs
<1>2. x.argl \in Seq(Val) /\ Len(x.argl) \in Nat /\ Len(x.unev) = 0
  BY DEF Regs
<1>3. Len(args) = Len(x.argl)
  BY <1>1, <1>2
<1>4. \A i \in 1 .. Len(x.argl) : x.argl[i] \in Val
  BY <1>2, ElementOfSeq
<1>5. x.fun \notin Proc
  BY Words
<1>6. CASE x.fun \in {"print", "output", ".maybeoutput"}
  <2>1. Len(x.argl) = 1
    BY <1>1, <1>3, <1>5, <1>6 DEF Fits
  <2> QED
    BY <1>4, <1>6, <2>1 DEF Given
<1>7. CASE x.fun = "throw"
  <2>1. Len(x.argl) \in {1, 2} /\ IsWord(args[1])
    BY <1>1, <1>3, <1>5, <1>7 DEF Fits
  <2> QED
    BY <1>1, <1>4, <1>7, <2>1 DEF IsWord, Given
<1>8. CASE x.fun \in {"run", "runresult", "repeat"}
  <2>1. Len(x.argl) = 1 /\ IsList(args[1])
    BY <1>1, <1>3, <1>5, <1>8 DEF Fits
  <2>2. x.argl[1] \in Val /\ x.argl[1].t = "list"
    BY <1>1, <1>4, <2>1 DEF IsList
  <2> QED
    BY <1>2, <1>8, <2>1, <2>2 DEF Fitting, Place, Given
<1>9. CASE x.fun = "catch"
  <2>1. Len(x.argl) = 2 /\ IsWord(args[1]) /\ IsList(args[2])
    BY <1>1, <1>3, <1>5, <1>9 DEF Fits
  <2>2. x.argl[1].t = "word" /\ x.argl[2].t = "list"
    BY <1>1, <2>1 DEF IsList, IsWord
  <2> QED
    BY <1>2, <1>9, <2>1, <2>2 DEF Fitting, Place, Given
<1>10. CASE x.fun = "apply"
  <2>1. Len(x.argl) = 1 /\ (IsList(args[1]) \/ (IsWord(args[1]) /\ args[1].v.w \in Proc))
    BY <1>1, <1>3, <1>5, <1>10 DEF Fits
  <2>2. x.argl[1].t = "list" \/ (x.argl[1].t = "word" /\ x.argl[1].w \in Proc)
    BY <1>1, <2>1 DEF IsList, IsWord
  <2> QED
    BY <1>2, <1>10, <2>1, <2>2 DEF Fitting, Place, Given
<1>11. CASE x.fun = "stop"
  BY <1>11 DEF Given
<1> QED
  BY <1>6, <1>7, <1>8, <1>9, <1>10, <1>11 DEF Primitive, TailForm, PrimMacro

LEMMA Blames ==
  ASSUME NEW STATE regs, regs \in Regs, NEW STATE next, Blame(regs, next)
  PROVE  r' \in Regs /\ r'.current_unode = regs.current_unode /\ pc' \in {next, "no one to blame"}
<1>1. CASE regs.didnt_get_output.k = "wanted"
  <2>1. pc' = next /\ r' = [regs EXCEPT !.ufun = regs.didnt_get_output.ufun]
    BY <1>1 DEF Blame
  <2>2. regs.didnt_get_output \in Getter
    BY DEF Regs
  <2>3. regs.didnt_get_output.ufun \in Ufun
    BY <1>1, <2>2 DEF Getter, NotWanted, MayCome, WantedByMacro, Wanted
  <2> QED
    BY <2>1, <2>3 DEF Regs
<1>2. CASE ~(regs.didnt_get_output.k = "wanted")
  BY <1>2 DEF Blame
<1> QED
  BY <1>1, <1>2

LEMMA Outputs ==
  ASSUME Typed, NEW STATE v, v \in Val, NEW STATE next, LOutput(v, next)
  PROVE  /\ sig' \in Signal /\ sig'.unode <= unodes
         /\ r' \in Regs /\ r'.current_unode = r.current_unode
         /\ pc' \in {next, "no one to blame"}
         /\ sig'.flag \in {"THROWING", "OUTPUT"}
<1>1. sig \in Signal /\ sig.unode <= unodes /\ r \in Regs /\ r.current_unode <= unodes
  BY DEF Typed
<1>2. CASE ~NotThrowing
  BY <1>1, <1>2 DEF LOutput, NotThrowing
<1>3. CASE NotThrowing /\ r.ufun = "none"
  BY <1>1, <1>3, Errors DEF LOutput
<1>4. CASE NotThrowing /\ r.ufun # "none" /\ ("OUTPUT_TAIL" \in r.status \/ "OUTPUT_OK" \notin r.status)
  <2> DEFINE regs == IF r.didnt_get_output = NotWanted
                     THEN [r EXCEPT !.didnt_get_output = Wanted(r.ufun)] ELSE r
  <2>1. sig' = Error /\ Blame(regs, next)
    BY <1>4 DEF LOutput
  <2>2. regs \in Regs /\ regs.current_unode = r.current_unode
    <3>1. r.ufun \in Ufun
      BY <1>1 DEF Regs
    <3>2. Wanted(r.ufun) \in Getter
      BY <3>1 DEF Getter
    <3> QED
      BY <1>1, <3>2 DEF Regs
  <2> HIDE DEF regs
  <2>3. r' \in Regs /\ r'.current_unode = regs.current_unode /\ pc' \in {next, "no one to blame"}
    BY <2>1, <2>2, Blames
  <2> QED
    BY <1>1, <2>1, <2>2, <2>3, Errors
<1>5. CASE NotThrowing /\ r.ufun # "none" /\ ~("OUTPUT_TAIL" \in r.status \/ "OUTPUT_OK" \notin r.status)
  <2>1. sig' = [sig EXCEPT !.flag = "OUTPUT", !.out = v, !.unode = r.current_unode] /\ r' = r /\ pc' = next
    BY <1>5 DEF LOutput
  <2>2. v \in Result /\ r.current_unode \in Nat
    BY <1>1 DEF Result, Regs
  <2> QED
    BY <1>1, <2>1, <2>2 DEF Signal
<1> QED
  BY <1>2, <1>3, <1>4, <1>5

LEMMA Stops ==
  ASSUME Typed, NEW STATE next, LStop(next)
  PROVE  /\ sig' \in Signal /\ sig'.unode <= unodes
         /\ r' \in Regs /\ r'.current_unode = r.current_unode
         /\ pc' \in {next, "no one to blame"}
         /\ sig'.flag \in {"THROWING", "STOP"}
<1>1. sig \in Signal /\ sig.unode <= unodes /\ r \in Regs /\ r.current_unode <= unodes
  BY DEF Typed
<1>2. CASE ~NotThrowing
  BY <1>1, <1>2 DEF LStop, NotThrowing
<1>3. CASE NotThrowing /\ r.ufun = "none"
  BY <1>1, <1>3, Errors DEF LStop
<1>4. CASE NotThrowing /\ r.ufun # "none" /\ ("OUTPUT_TAIL" \in r.status \/ "STOP_OK" \notin r.status)
  <2>1. sig' = Error /\ Blame(r, next)
    BY <1>4 DEF LStop
  <2>2. r' \in Regs /\ r'.current_unode = r.current_unode /\ pc' \in {next, "no one to blame"}
    BY <1>1, <2>1, Blames
  <2> QED
    BY <1>1, <2>1, <2>2, Errors
<1>5. CASE NotThrowing /\ r.ufun # "none" /\ ~("OUTPUT_TAIL" \in r.status \/ "STOP_OK" \notin r.status)
  <2>1. sig' = [sig EXCEPT !.flag = "STOP", !.unode = r.current_unode] /\ r' = r /\ pc' = next
    BY <1>5 DEF LStop
  <2> QED
    BY <1>1, <2>1 DEF Signal, Regs
<1> QED
  BY <1>2, <1>3, <1>4, <1>5

\* Where most steps go: to evaluate an expression, to return, to a sequence.
Ready == Good(unodes, stack, numstack, cont) /\ cont \in Cont \ {"after_const_arg"}

LEMMA Dispatches ==
  ASSUME Inv, sig.flag = "RUN", UNCHANGED <<prog, val, list, sig, unodes>>,
         pc' \in {"eval_dispatch", "non_tail_eval"}, expresn' \in Exp,
         r' \in Regs, r'.current_unode <= unodes, Ready',
         pc' = "eval_dispatch" => MacroGoesTo(expresn.op, r.tailcall, cont)'
  PROVE  Inv'
<1>1. pc' \in Free
  BY FreeLabels
<1>2. Typed'
  BY DEF Inv, Typed, Labels
<1>3. Stacked'
  BY <1>1, StackedThere DEF Ready
<1>4. Valued'
  BY DEF Valued, ToMacroReturn, Settling, Cont, Plain, Place
<1>5. Flagged'
  BY DEF Flagged, Running, Place
<1>6. Inputting'
  BY DEF Inputting, Calling, Ready
<1> QED
  BY <1>2, <1>3, <1>4, <1>5, <1>6 DEF Inv

LEMMA Returns ==
  ASSUME Inv, UNCHANGED prog, pc' \in {"fetch_cont", "no one to blame"},
         expresn' \in Exp \cup {Const(Unbound)}, val' \in Result, list' \in Seq(Exp),
         sig' \in Signal, sig'.unode <= unodes', unodes' \in Nat,
         r' \in Regs, r'.current_unode <= unodes', Ready',
         sig'.flag # "MACRO_RETURN"
  PROVE  Inv'
<1>1. pc' \in Free
  BY FreeLabels
<1>2. Typed'
  <2>1. val' \in Values
    BY Results
  <2> QED
    BY <2>1 DEF Inv, Typed, Labels
<1>3. Stacked'
  BY <1>1, StackedThere DEF Ready
<1>4. Valued'
  BY DEF Valued, ToMacroReturn, Settling, Cont, Plain, Place
<1>5. Flagged'
  BY DEF Flagged, Running, Place, Ready
<1>6. Inputting'
  BY DEF Inputting, Calling, Ready
<1> QED
  BY <1>2, <1>3, <1>4, <1>5, <1>6 DEF Inv

LEMMA Begins ==
  ASSUME Inv, UNCHANGED prog, pc' \in {"begin_seq", "eval_sequence"},
         expresn' \in Exp \cup {Const(Unbound)}, val' \in Values, list' \in Seq(Exp),
         sig' \in Signal, sig'.unode <= unodes', unodes' \in Nat,
         r' \in Regs, r'.current_unode <= unodes', Ready',
         sig'.flag # "MACRO_RETURN", sig'.flag # "RUN" => val' \in Result,
         pc' = "eval_sequence" /\ sig'.flag = "RUN" => r'.unev # <<>>
  PROVE  Inv'
<1>1. pc' \in Free
  BY FreeLabels
<1>2. Typed'
  BY DEF Inv, Typed, Labels
<1>3. Stacked'
  BY <1>1, StackedThere DEF Ready
<1>4. Valued'
  BY DEF Valued, ToMacroReturn, Settling, Cont, Plain, Place
<1>5. Flagged'
  BY DEF Flagged, Running, Place, Ready
<1>6. Inputting'
  BY DEF Inputting, Calling, Ready
<1> QED
  BY <1>2, <1>3, <1>4, <1>5, <1>6 DEF Inv

\* Nothing is ready between a constant input and what takes it.
LEMMA ReadyHere ==
  ASSUME Inv, pc \in Free, pc # "fetch_cont", pc # "eval_dispatch"
  PROVE  Ready /\ unodes \in Nat
<1>1. cont # "after_const_arg"
  BY DEF Inv, Inputting
<1> QED
  BY <1>1, StackedHere DEF Inv, Ready

LEMMA PrimitiveApplyStep ==
  ASSUME Language, Inv, PrimitiveApply
  PROVE  Inv'
<1>1. pc \in Free /\ pc = "primitive_apply"
  BY FreeLabels DEF PrimitiveApply
<1>2. /\ sig.flag = "RUN" /\ r \in Regs /\ r.current_unode <= unodes /\ r.fun \in Primitive /\ Inputs(r)
      /\ r.unev = <<>> /\ (r.fun \in PrimMacro => cont = "macro_return")
      /\ sig \in Signal /\ sig.unode <= unodes
  BY <1>1 DEF Inv, Inputting, Flagged, Running, Typed
<1>3. Ready /\ unodes \in Nat
  BY <1>1, ReadyHere
<1>4. UNCHANGED <<prog, expresn, list, stack, cont, numstack, unodes>>
  BY DEF PrimitiveApply, stacks
<1>5. Ready'
  BY <1>3, <1>4 DEF Ready
<1>6. NotThrowing
  BY <1>2 DEF NotThrowing
<1>7. /\ r.fun \in {"print", "output", ".maybeoutput"} => r.argl[1] \in Val
      /\ r.fun = "throw" =>
             /\ r.argl[1] \in Val /\ r.argl[1].t = "word"
             /\ Len(r.argl) = 2 => r.argl[2] \in Val
      /\ r.fun = "run" => r.argl[1] \in Val /\ r.argl[1].t = "list"
      /\ r.fun = "runresult" => Fitting("runresult_continuation", r.argl)
      /\ r.fun = "repeat" => Fitting("repeat_continuation", r.argl)
      /\ r.fun = "catch" => Fitting("catch_continuation", r.argl)
      /\ r.fun = "apply" => Fitting("begin_apply", r.argl)
  <2>1. Given(r)
    BY <1>2, AllInputs
  <2> QED
    BY <2>1 DEF Given
<1>8. CASE r.fun \in PrimMacro
  <2>1. val' = MacroVal(r.fun, r.argl) /\ UNCHANGED <<sig, r>> /\ pc' = "fetch_cont"
    BY <1>6, <1>8 DEF PrimitiveApply, PrimMacro
  <2>2. val' \in Val \/ \E label, args : val' = ContOf(label, args) /\ Fitting(label, args)
    <3>1. CASE r.fun = "run"
      <4>1. r.argl[1] = ListOf(r.argl[1].l)
        BY <1>7, <3>1 DEF Language
      <4> QED
        BY <1>7, <2>1, <3>1, <4>1 DEF MacroVal
    <3>2. CASE r.fun = "runresult"
      BY <1>7, <2>1, <3>2 DEF MacroVal
    <3>3. CASE r.fun = "repeat"
      BY <1>7, <2>1, <3>3 DEF MacroVal
    <3>4. CASE r.fun = "catch"
      BY <1>7, <2>1, <3>4 DEF MacroVal
    <3>5. CASE r.fun = "apply"
      BY <1>7, <2>1, <3>5 DEF MacroVal
    <3> QED
      BY <1>8, <3>1, <3>2, <3>3, <3>4, <3>5 DEF PrimMacro
  <2>3. Typed'
    <3>1. val' \in Values
      BY <2>2, Results DEF Values, Fitting
    <3> QED
      BY <1>2, <1>3, <1>4, <2>1, <3>1 DEF Inv, Typed, Labels
  <2>4. Stacked'
    BY <1>1, <1>4, <2>1, FreeLabels, StacksStay DEF Inv, stacks
  <2>5. Valued'
    <3>1. cont' = "macro_return" /\ pc' = "fetch_cont" /\ sig'.flag = "RUN"
      BY <1>2, <1>4, <1>8, <2>1
    <3>2. ToMacroReturn' /\ (val' \in Result \/ GoesOn')
      BY <2>2, <3>1, Results DEF ToMacroReturn, GoesOn
    <3> QED
      BY <3>1, <3>2 DEF Valued, Place
  <2>6. Flagged'
    BY <1>2, <1>4, <1>5, <2>1 DEF Flagged, Running, Place, Ready
  <2>7. Inputting'
    BY <1>5, <2>1 DEF Inputting, Calling, Ready
  <2> QED
    BY <2>3, <2>4, <2>5, <2>6, <2>7 DEF Inv
<1>9. CASE r.fun \notin PrimMacro
  <2>1. val' = Unbound
    BY <1>9 DEF PrimitiveApply
  <2>2. /\ sig' \in Signal /\ sig'.unode <= unodes /\ sig'.flag # "MACRO_RETURN"
        /\ r' \in Regs /\ r'.current_unode = r.current_unode /\ pc' \in {"fetch_cont", "no one to blame"}
    <3>1. CASE r.fun \in {"output", ".maybeoutput"}
      <4>1. LOutput(r.argl[1], "fetch_cont") /\ r.argl[1] \in Val
        BY <1>7, <3>1 DEF PrimitiveApply
      <4> QED
        BY <4>1, Outputs DEF Inv
    <3>2. CASE r.fun = "stop"
      <4>1. LStop("fetch_cont")
        BY <3>2 DEF PrimitiveApply
      <4> QED
        BY <4>1, Stops DEF Inv
    <3>3. CASE r.fun = "throw"
      <4>1. sig' = LThrow(r.argl) /\ r' = r /\ pc' = "fetch_cont"
        BY <1>6, <3>3 DEF PrimitiveApply
      <4>2. CASE r.argl[1].w = "error"
        BY <1>2, <4>1, <4>2, Errors DEF LThrow, Inv
      <4>3. CASE r.argl[1].w # "error"
        <5> DEFINE o == IF Len(r.argl) = 2 THEN r.argl[2] ELSE Unbound
        <5>1. sig' = Thrown(r.argl[1].w, o)
          BY <4>1, <4>3 DEF LThrow
        <5>2. r.argl[1].w \in Tag /\ o \in Result
          BY <1>7, <3>3 DEF Tag, Result
        <5> HIDE DEF o
        <5> QED
          BY <1>2, <4>1, <5>1, <5>2 DEF Thrown, Signal
      <4> QED
        BY <4>2, <4>3
    <3>4. CASE r.fun = "print"
      BY <1>2, <3>4 DEF PrimitiveApply
    <3> QED
      BY <1>2, <1>9, <3>1, <3>2, <3>3, <3>4 DEF Primitive, TailForm
  <2>3. val' \in Result /\ list' \in Seq(Exp) /\ expresn' \in Exp \cup {Const(Unbound)} /\ unodes' = unodes /\ prog' = prog
    BY <1>4, <2>1, Results DEF Inv, Typed
  <2> QED
    BY <1>2, <1>3, <1>5, <2>2, <2>3, Returns
<1> QED
  BY <1>8, <1>9

LEMMA LambdaApplyStep ==
  ASSUME Language, Inv, LambdaApply
  PROVE  Inv'
<1>1. pc \in Free /\ pc = "lambda_apply"
  BY FreeLabels DEF LambdaApply
<1>2. /\ sig.flag = "RUN" /\ r \in Regs /\ r.current_unode <= unodes /\ r.fun \in Proc
      /\ sig \in Signal /\ sig.unode <= unodes
      /\ list \in Seq(Exp) /\ expresn \in Exp \cup {Const(Unbound)} /\ val \in Values
  BY <1>1 DEF Inv, Inputting, Flagged, Running, Typed
<1>3. Ready /\ unodes \in Nat
  BY <1>1, ReadyHere
<1>4. UNCHANGED <<prog, expresn, list, stack, cont, numstack>>
  BY DEF LambdaApply, stacks
<1>5. NotThrowing
  BY <1>2 DEF NotThrowing
<1>6. prog.body[r.fun] \in Seq(Exp)
  BY <1>2 DEF Inv, Typed, Language
<1>7. CASE prog.body[r.fun] = <<>>
  <2>1. /\ r' = [r EXCEPT !.last_ufun = r.ufun, !.ufun = r.fun]
        /\ val' = Unbound /\ pc' = "fetch_cont" /\ UNCHANGED <<sig, unodes>>
    BY <1>5, <1>7 DEF LambdaApply
  <2>2. r' \in Regs /\ r'.current_unode = r.current_unode
    BY <1>2, <2>1 DEF Regs, Ufun
  <2>3. Ready'
    BY <1>3, <1>4, <2>1 DEF Ready
  <2> QED
    BY <1>2, <1>3, <1>4, <2>1, <2>2, <2>3, Results, Returns
<1>8. CASE prog.body[r.fun] # <<>>
  <2>1. /\ unodes' = unodes + 1
        /\ r' = [r EXCEPT !.unev = prog.body[r.fun],
                              !.last_ufun = r.ufun, !.ufun = r.fun,
                              !.status = BodyStatus(r.didnt_get_output),
                              !.current_unode = unodes']
        /\ sig' = [sig EXCEPT !.flag = "RUN", !.out = Unbound]
        /\ pc' = "eval_sequence" /\ val' = val
    BY <1>5, <1>8 DEF LambdaApply
  <2>2. BodyStatus(r.didnt_get_output) \in StatusSet /\ unodes' \in Nat
    BY <1>3, <2>1 DEF BodyStatus, StatusSet
  <2>3. r' \in Regs /\ r'.current_unode = unodes' /\ r'.unev # <<>>
    BY <1>2, <1>6, <1>8, <2>1, <2>2 DEF Regs, Ufun
  <2>4. sig' \in Signal /\ sig'.unode = sig.unode /\ sig'.flag = "RUN"
    BY <1>2, <2>1, Results DEF Signal
  <2>5. Ready'
    BY <1>3, <1>4, <2>1, GoodLater DEF Ready
  <2>6. sig'.unode <= unodes' /\ r'.current_unode <= unodes'
    <3>1. sig.unode \in Nat
      BY <1>2 DEF Signal
    <3> QED
      BY <1>2, <1>3, <2>1, <2>3, <2>4, <3>1
  <2> QED
    BY <1>2, <1>4, <2>1, <2>2, <2>3, <2>4, <2>5, <2>6, Begins
<1> QED
  BY <1>7, <1>8

LEMMA SequenceCutStep ==
  ASSUME Inv, SequenceCut
  PROVE  Inv'
<1>1. pc \in Free /\ pc = "eval_sequence" /\ pc' = "fetch_cont" /\ sig.flag # "RUN"
  BY FreeLabels DEF SequenceCut
<1>2. UNCHANGED <<prog, expresn, val, list, r, stack, cont, numstack, sig, unodes>>
  BY DEF SequenceCut, stacks
<1>3. Ready /\ unodes \in Nat
  BY <1>1, ReadyHere
<1>4. Ready'
  BY <1>2, <1>3 DEF Ready
<1>5. val \in Result /\ sig.flag # "MACRO_RETURN"
  BY <1>1 DEF Inv, Valued, Flagged, Taker
<1> QED
  BY <1>1, <1>2, <1>3, <1>4, <1>5, Returns DEF Inv, Typed

LEMMA TypesHere ==
  ASSUME Inv
  PROVE  /\ prog \in Program /\ expresn \in Exp \cup {Const(Unbound)} /\ val \in Values /\ list \in Seq(Exp)
         /\ r \in Regs /\ r.current_unode <= unodes
         /\ sig \in Signal /\ sig.unode <= unodes /\ unodes \in Nat
  BY DEF Inv, Typed

LEMMA PlainHere ==
  ASSUME Inv, pc \in Plain
  PROVE  Ready /\ val \in Result
<1>1. val \in Result
  BY DEF Inv, Valued, Settling, ToMacroReturn, Cont, Plain
<1> QED
  BY <1>1, FromPlain DEF Inv, Ready

LEMMA AtInstr ==
  ASSUME Inv, AtSequence
  PROVE  /\ pc \in Free /\ sig.flag = "RUN" /\ Ready /\ unodes \in Nat
         /\ r \in Regs /\ r.current_unode <= unodes /\ r.unev # <<>>
         /\ Next1 \in Exp
         /\ Popped \in Regs /\ Popped.current_unode = r.current_unode
<1>1. pc \in Free /\ sig.flag = "RUN" /\ pc = "eval_sequence"
  BY FreeLabels DEF AtSequence
<1>2. r \in Regs /\ r.current_unode <= unodes /\ r.unev # <<>> /\ r.unev \in Seq(Exp)
  BY <1>1 DEF Inv, Inputting, Typed, Regs
<1>3. Next1 \in Exp /\ Tail(r.unev) \in Seq(Exp)
  BY <1>2, HeadTailProperties DEF Next1
<1>4. Popped \in Regs /\ Popped.current_unode = r.current_unode
  BY <1>2, <1>3 DEF Popped, Regs
<1> QED
  BY <1>1, <1>2, <1>3, <1>4, ReadyHere

\* OUTPUT and .MAYBEOUTPUT have an input.
LEMMA InstrInput ==
  ASSUME Language, NEW e \in Exp, e.op \in {"output", ".maybeoutput"}
  PROVE  e.args[1] \in Exp
<1>1. ~IsConst(e) /\ e.op \notin Proc
  BY Words DEF IsConst, Primitive, TailForm
<1>2. e.args \in Seq(Exp) /\ Fits(e.op, e.args)
  BY <1>1, Words
<1>3. Len(e.args) = 1
  BY <1>1, <1>2 DEF Fits
<1> QED
  BY <1>2, <1>3, ElementOfSeq

LEMMA TailDispatches ==
  ASSUME Inv, AtSequence, NEW STATE e, e \in Exp, NEW STATE regs, regs \in Regs, regs.current_unode <= unodes,
         TailDispatch(e, regs), UNCHANGED <<prog, val, list, sig, unodes>>, Ready'
  PROVE  Inv'
<1>1. expresn' = e /\ r' = [regs EXCEPT !.tailcall = 1] /\ pc' = "eval_dispatch"
  BY DEF TailDispatch
<1>2. r' \in Regs /\ r'.current_unode = regs.current_unode /\ r'.tailcall = 1
  BY <1>1 DEF Regs
<1>3. MacroGoesTo(expresn.op, r.tailcall, cont)'
  BY <1>2 DEF MacroGoesTo
<1>4. sig.flag = "RUN" /\ r'.current_unode <= unodes
  BY <1>2, AtInstr
<1> QED
  BY <1>1, <1>2, <1>3, <1>4, Dispatches

\* A continuation that knows MACRO_RETURN is pushed, and no cell.
LEMMA ReadyAfter ==
  ASSUME Ready, unodes \in Nat, NEW label \in Plain \ {"after_const_arg"}, NewCont(label), UNCHANGED <<stack, unodes>>
  PROVE  Ready' /\ cont' = label
<1>1. cont' = label /\ numstack' = Append(numstack, [k |-> "cont", v |-> cont])
  BY DEF NewCont
<1>2. Good(unodes, stack, Append(numstack, [k |-> "cont", v |-> cont]), label)
  BY PushPlain DEF Ready
<1> QED
  BY <1>1, <1>2 DEF Ready, Cont

LEMMA ReadyStays ==
  ASSUME Ready, UNCHANGED <<stacks, unodes>>
  PROVE  Ready'
  BY DEF Ready, stacks

LEMMA OutputInstrStep ==
  ASSUME Language, Inv, OutputInstr
  PROVE  Inv'
<1> DEFINE e == Next1.args[1]
           wanted == [Popped EXCEPT !.didnt_get_output = Wanted(r.ufun), !.status = {"VALUE_OK"}]
<1>1. /\ AtSequence /\ Next1.op = "output" /\ UNCHANGED <<prog, list, unodes>>
  BY DEF OutputInstr
<1>2. /\ sig.flag = "RUN" /\ Ready /\ unodes \in Nat
      /\ r \in Regs /\ r.current_unode <= unodes /\ Next1 \in Exp
      /\ Popped \in Regs /\ Popped.current_unode = r.current_unode
  BY <1>1, AtInstr
<1>3. e \in Exp
  BY <1>1, <1>2, InstrInput
<1>4. wanted \in Regs /\ wanted.current_unode = r.current_unode
  <2>1. Wanted(r.ufun) \in Getter /\ {"VALUE_OK"} \in StatusSet
    BY <1>2 DEF Getter, StatusSet, Regs
  <2> QED
    BY <1>2, <2>1 DEF Regs
<1>5. /\ [wanted EXCEPT !.fun = "output"] \in Regs
      /\ [wanted EXCEPT !.fun = "output"].current_unode = r.current_unode
  <2> HIDE DEF wanted
  <2>1. "output" \in Fun
    BY DEF Fun, Primitive, TailForm
  <2> QED
    BY <1>4, <2>1 DEF Regs
<1>6. CASE "OUTPUT_TAIL" \in r.status
  <2>1. TailDispatch(e, [wanted EXCEPT !.fun = "output"]) /\ UNCHANGED <<val, sig, stacks>>
    BY <1>6 DEF OutputInstr
  <2>2. Ready'
    BY <1>1, <1>2, <2>1, ReadyStays
  <2> HIDE DEF e, wanted
  <2> QED
    BY <1>1, <1>2, <1>3, <1>5, <2>1, <2>2, TailDispatches
<1>7. CASE "OUTPUT_TAIL" \notin r.status /\ ("OUTPUT_OK" \in r.status \/ (r.ufun # "none" /\ "STOP_OK" \notin r.status))
  <2>1. TailDispatch(Next1, Popped) /\ UNCHANGED <<val, sig, stacks>>
    BY <1>7 DEF OutputInstr
  <2>2. Ready'
    BY <1>1, <1>2, <2>1, ReadyStays
  <2> QED
    BY <1>1, <1>2, <2>1, <2>2, TailDispatches
<1>8. CASE "OUTPUT_TAIL" \notin r.status /\ "OUTPUT_OK" \notin r.status /\ r.ufun = "none"
  <2>1. /\ sig' = Error /\ val' = Unbound /\ pc' = "fetch_cont"
        /\ r' = Popped /\ expresn' = Next1 /\ UNCHANGED stacks
    BY <1>8 DEF OutputInstr
  <2>2. Ready'
    BY <1>1, <1>2, <2>1, ReadyStays
  <2>3. sig' \in Signal /\ sig'.unode <= unodes /\ sig'.flag # "MACRO_RETURN"
    BY <2>1, Errors, TypesHere DEF Inv
  <2> QED
    BY <1>1, <1>2, <2>1, <2>2, <2>3, Results, Returns, TypesHere
<1>9. CASE "OUTPUT_TAIL" \notin r.status /\ "OUTPUT_OK" \notin r.status /\ r.ufun # "none" /\ "STOP_OK" \in r.status
  <2>1. /\ expresn' = e /\ r' = wanted /\ pc' = "eval_dispatch"
        /\ NewCont("op_want_stop") /\ UNCHANGED <<val, sig, stack>>
    BY <1>9 DEF OutputInstr
  <2>2. Ready' /\ cont' = "op_want_stop"
    BY <1>1, <1>2, <2>1, ReadyAfter DEF Plain
  <2>3. MacroGoesTo(expresn.op, r.tailcall, cont)'
    BY <2>2 DEF MacroGoesTo, Taker
  <2> HIDE DEF e, wanted
  <2> QED
    BY <1>1, <1>2, <1>3, <1>4, <2>1, <2>2, <2>3, Dispatches
<1> QED
  BY <1>6, <1>7, <1>8, <1>9

LEMMA OpWantStopStep ==
  ASSUME Inv, OpWantStop
  PROVE  Inv'
<1>1. pc \in Plain /\ pc' = "fetch_cont" /\ UNCHANGED <<prog, expresn, val, list, stacks, unodes>>
  BY DEF OpWantStop, Plain, stacks
<1>2. Ready /\ val \in Result
  BY <1>1, PlainHere
<1>3. Ready'
  BY <1>1, <1>2, ReadyStays
<1>4. /\ sig' \in Signal /\ sig'.unode <= unodes /\ sig'.flag # "MACRO_RETURN"
      /\ r' \in Regs /\ r'.current_unode = r.current_unode
  <2>1. CASE NotThrowing
    <3>1. sig' = Error /\ r' = [r EXCEPT !.ufun = IF @ = "none" THEN @ ELSE r.last_ufun]
      BY <2>1 DEF OpWantStop
    <3> QED
      BY <3>1, Errors, TypesHere DEF Inv, Regs
  <2>2. CASE ~NotThrowing
    BY <2>2, TypesHere DEF OpWantStop, NotThrowing
  <2> QED
    BY <2>1, <2>2
<1> QED
  BY <1>1, <1>2, <1>3, <1>4, Returns, TypesHere

LEMMA StopInstrStep ==
  ASSUME Inv, StopInstr
  PROVE  Inv'
<1>1. /\ AtSequence /\ val' = Unbound /\ expresn' = Next1 /\ UNCHANGED <<prog, list, stacks, unodes>>
  BY DEF StopInstr
<1>2. /\ sig.flag = "RUN" /\ Ready /\ unodes \in Nat
      /\ r \in Regs /\ r.current_unode <= unodes /\ Next1 \in Exp
      /\ Popped \in Regs /\ Popped.current_unode = r.current_unode
  BY <1>1, AtInstr
<1>3. Ready'
  BY <1>1, <1>2, ReadyStays
<1>4. \/ sig' \in {sig, Error, [sig EXCEPT !.flag = "STOP", !.unode = r.current_unode]}
         /\ r' = Popped /\ pc' = "fetch_cont"
      \/ sig' = Error /\ Blame(Popped, "fetch_cont")
  BY DEF StopInstr
<1>5. sig' \in Signal /\ sig'.unode <= unodes /\ sig'.flag # "MACRO_RETURN"
  <2>1. r.current_unode \in Nat
    BY <1>2 DEF Regs
  <2> QED
    BY <1>2, <1>4, <2>1, Errors, TypesHere DEF Inv, Signal
<1>6. r' \in Regs /\ r'.current_unode = r.current_unode /\ pc' \in {"fetch_cont", "no one to blame"}
  <2>1. CASE Blame(Popped, "fetch_cont")
    BY <1>2, <2>1, Blames
  <2> QED
    BY <1>2, <1>4, <2>1
<1> QED
  BY <1>1, <1>2, <1>3, <1>5, <1>6, Results, Returns, TypesHere

LEMMA MaybeOutputInstrStep ==
  ASSUME Language, Inv, MaybeOutputInstr
  PROVE  Inv'
<1> DEFINE e == Next1.args[1]
           either == [Popped EXCEPT !.didnt_get_output = MayCome, !.status = {"VALUE_OK", "NO_VALUE_OK"}]
           stop == [Popped EXCEPT !.didnt_get_output = NotWanted, !.status = {"NO_VALUE_OK"}]
           output == [Popped EXCEPT !.didnt_get_output = Wanted(r.ufun), !.status = {"VALUE_OK"}]
<1>1. /\ AtSequence /\ Next1.op = ".maybeoutput" /\ UNCHANGED <<prog, val, list, sig, unodes>>
  BY DEF MaybeOutputInstr
<1>2. /\ sig.flag = "RUN" /\ Ready /\ unodes \in Nat
      /\ r \in Regs /\ r.current_unode <= unodes /\ Next1 \in Exp
      /\ Popped \in Regs /\ Popped.current_unode = r.current_unode
  BY <1>1, AtInstr
<1>3. e \in Exp
  BY <1>1, <1>2, InstrInput
<1>4. /\ either \in Regs /\ either.current_unode = r.current_unode
      /\ stop \in Regs /\ stop.current_unode = r.current_unode
      /\ output \in Regs /\ output.current_unode = r.current_unode
  <2>1. /\ Wanted(r.ufun) \in Getter /\ MayCome \in Getter /\ NotWanted \in Getter
        /\ {"VALUE_OK"} \in StatusSet /\ {"NO_VALUE_OK"} \in StatusSet /\ {"VALUE_OK", "NO_VALUE_OK"} \in StatusSet
    BY <1>2 DEF Getter, StatusSet, Regs
  <2> QED
    BY <1>2, <2>1 DEF Regs
<1>5. \/ TailDispatch(e, either) /\ UNCHANGED stacks
      \/ TailDispatch(e, output) /\ UNCHANGED stacks
      \/ TailDispatch(e, stop) /\ UNCHANGED stacks
      \/ TailDispatch(Next1, Popped) /\ UNCHANGED stacks
      \/ pc' = "eval_dispatch" /\ expresn' = Next1 /\ r' = Popped /\ UNCHANGED stacks
      \/ pc' = "eval_dispatch" /\ expresn' = e /\ r' \in {either, stop} /\ NewCont("after_maybeoutput")
         /\ UNCHANGED stack
  <2>1. CASE "OUTPUT_TAIL" \in r.status
    BY <2>1 DEF MaybeOutputInstr
  <2>2. CASE "OUTPUT_TAIL" \notin r.status /\ "OUTPUT_OK" \in r.status
    BY <2>2 DEF MaybeOutputInstr
  <2>3. CASE "OUTPUT_TAIL" \notin r.status /\ "OUTPUT_OK" \notin r.status /\ "STOP_TAIL" \in r.status
    BY <2>3 DEF MaybeOutputInstr
  <2>4. CASE "OUTPUT_TAIL" \notin r.status /\ "OUTPUT_OK" \notin r.status /\ "STOP_TAIL" \notin r.status
             /\ "STOP_OK" \in r.status
    BY <2>4 DEF MaybeOutputInstr
  <2>5. CASE "OUTPUT_TAIL" \notin r.status /\ "OUTPUT_OK" \notin r.status /\ "STOP_TAIL" \notin r.status
             /\ "STOP_OK" \notin r.status
    BY <2>5 DEF MaybeOutputInstr
  <2> QED
    BY <2>1, <2>2, <2>3, <2>4, <2>5
<1> HIDE DEF e, either, stop, output
<1>6. CASE UNCHANGED stacks
  <2>1. Ready'
    BY <1>1, <1>2, <1>6, ReadyStays
  <2>2. ASSUME NEW STATE i, i \in Exp, NEW STATE regs, regs \in Regs, regs.current_unode <= unodes,
               TailDispatch(i, regs)
        PROVE  Inv'
    BY <1>1, <2>1, <2>2, TailDispatches
  <2>3. CASE pc' = "eval_dispatch" /\ expresn' = Next1 /\ r' = Popped
    <3>1. ~IsMacro(Next1.op)
      BY <1>1, Words DEF IsMacro, Primitive, TailForm, PrimMacro
    <3>2. MacroGoesTo(expresn.op, r.tailcall, cont)'
      BY <2>3, <3>1 DEF MacroGoesTo
    <3> QED
      BY <1>1, <1>2, <2>1, <2>3, <3>2, Dispatches
  <2>4. CASE TailDispatch(e, either)
    BY <1>2, <1>3, <1>4, <2>2, <2>4
  <2>5. CASE TailDispatch(e, stop)
    BY <1>2, <1>3, <1>4, <2>2, <2>5
  <2>6. CASE TailDispatch(e, output)
    BY <1>2, <1>3, <1>4, <2>2, <2>6
  <2>7. CASE TailDispatch(Next1, Popped)
    BY <1>2, <2>2, <2>7
  <2>8. CASE pc' = "eval_dispatch" /\ expresn' = e /\ r' \in {either, stop} /\ NewCont("after_maybeoutput")
    <3>1. Ready' /\ cont' = "after_maybeoutput"
      BY <1>1, <1>2, <1>6, <2>8, ReadyAfter DEF Plain, stacks
    <3>2. MacroGoesTo(expresn.op, r.tailcall, cont)'
      BY <3>1 DEF MacroGoesTo, Taker
    <3> QED
      BY <1>1, <1>2, <1>3, <1>4, <2>8, <3>1, <3>2, Dispatches
  <2> QED
    BY <1>5, <2>3, <2>4, <2>5, <2>6, <2>7, <2>8
<1>7. CASE pc' = "eval_dispatch" /\ expresn' = e /\ r' \in {either, stop} /\ NewCont("after_maybeoutput")
           /\ UNCHANGED stack
  <2>1. Ready' /\ cont' = "after_maybeoutput"
    BY <1>1, <1>2, <1>7, ReadyAfter DEF Plain
  <2>2. MacroGoesTo(expresn.op, r.tailcall, cont)'
    BY <2>1 DEF MacroGoesTo, Taker
  <2> QED
    BY <1>1, <1>2, <1>3, <1>4, <1>7, <2>1, <2>2, Dispatches
<1> QED
  BY <1>5, <1>6, <1>7

LEMMA AfterMaybeoutputStep ==
  ASSUME Inv, AfterMaybeoutput
  PROVE  Inv'
<1>1. pc \in Plain /\ UNCHANGED <<prog, expresn, val, list, stacks, unodes>>
  BY DEF AfterMaybeoutput, Plain, stacks
<1>2. Ready /\ val \in Result
  BY <1>1, PlainHere
<1>3. Ready'
  BY <1>1, <1>2, ReadyStays
<1>4. /\ sig' \in Signal /\ sig'.unode <= unodes /\ sig'.flag # "MACRO_RETURN"
      /\ r' \in Regs /\ r'.current_unode = r.current_unode /\ pc' \in {"fetch_cont", "no one to blame"}
  <2>1. CASE val = Unbound
    <3>1. LStop("fetch_cont")
      BY <2>1 DEF AfterMaybeoutput
    <3> QED
      BY <3>1, Stops DEF Inv
  <2>2. CASE val # Unbound
    <3>1. LOutput(val, "fetch_cont") /\ val \in Val
      BY <1>2, <2>2 DEF AfterMaybeoutput, Result
    <3> QED
      BY <3>1, Outputs DEF Inv
  <2> QED
    BY <2>1, <2>2
<1> QED
  BY <1>1, <1>2, <1>3, <1>4, Returns, TypesHere

LEMMA WantsOutput ==
  ASSUME Inv, AtSequence, NEW STATE e, e \in Exp, NEW STATE regs, regs \in Regs, regs.current_unode <= unodes,
         WantOutput(e, regs), UNCHANGED <<prog, val, list, sig, unodes>>
  PROVE  Inv'
<1> DEFINE c == Cell("didnt_get_output", r.didnt_get_output)
           next == [regs EXCEPT !.didnt_get_output = NotWanted, !.status = @ \ {"OUTPUT_TAIL"}]
<1>1. /\ stack' = Append(stack, c) /\ NewCont("fall_off_want_output") /\ TailDispatch(e, next)
  BY DEF WantOutput
<1>2. Ready /\ unodes \in Nat /\ r \in Regs
  BY AtInstr
<1>3. Frame(unodes, "fall_off_want_output", cont, <<c>>, <<>>)
  BY <1>2 DEF Frame, Ready, Regs
<1> HIDE DEF c
<1>4. Good(unodes, Append(stack, c), Append(numstack, [k |-> "cont", v |-> cont]), "fall_off_want_output")
  BY <1>2, <1>3, PushCell DEF Ready
<1>5. Ready'
  BY <1>1, <1>4 DEF NewCont, Ready, Cont
<1>6. next \in Regs /\ next.current_unode = regs.current_unode
  <2>1. NotWanted \in Getter /\ regs.status \ {"OUTPUT_TAIL"} \in StatusSet
    BY DEF Getter, Regs, StatusSet
  <2> QED
    BY <2>1 DEF Regs
<1> HIDE DEF next
<1> QED
  BY <1>1, <1>5, <1>6, TailDispatches

LEMMA LastInstrStep ==
  ASSUME Inv, LastInstr
  PROVE  Inv'
<1> DEFINE last == [Popped EXCEPT !.didnt_get_output = IF "VALUE_OK" \in r.status THEN MayCome ELSE NotWanted]
<1>1. AtSequence /\ UNCHANGED <<prog, val, list, sig, unodes>>
  BY DEF LastInstr
<1>2. /\ Ready /\ unodes \in Nat
      /\ r \in Regs /\ r.current_unode <= unodes /\ Next1 \in Exp
      /\ Popped \in Regs /\ Popped.current_unode = r.current_unode
  BY <1>1, AtInstr
<1>3. last \in Regs /\ last.current_unode = r.current_unode
  <2>1. MayCome \in Getter /\ NotWanted \in Getter
    BY DEF Getter
  <2> QED
    BY <1>2, <2>1 DEF Regs
<1>4. \/ TailDispatch(Next1, last) /\ UNCHANGED stacks
      \/ TailDispatch(Next1, Popped) /\ UNCHANGED stacks
      \/ WantOutput(Next1, Popped)
  BY DEF LastInstr
<1> HIDE DEF last
<1>5. CASE UNCHANGED stacks /\ TailDispatch(Next1, last)
  <2>1. Ready'
    BY <1>1, <1>2, <1>5, ReadyStays
  <2> QED
    BY <1>1, <1>2, <1>3, <1>5, <2>1, TailDispatches
<1>6. CASE UNCHANGED stacks /\ TailDispatch(Next1, Popped)
  <2>1. Ready'
    BY <1>1, <1>2, <1>6, ReadyStays
  <2> QED
    BY <1>1, <1>2, <1>6, <2>1, TailDispatches
<1>7. CASE WantOutput(Next1, Popped)
  BY <1>1, <1>2, <1>7, WantsOutput
<1> QED
  BY <1>4, <1>5, <1>6, <1>7

LEMMA OtherInstrStep ==
  ASSUME Inv, OtherInstr
  PROVE  Inv'
<1> DEFINE last == [Popped EXCEPT !.didnt_get_output = NotWanted]
<1>1. AtSequence /\ UNCHANGED <<prog, val, list, sig, unodes>>
  BY DEF OtherInstr
<1>2. /\ Ready /\ unodes \in Nat /\ sig.flag = "RUN"
      /\ r \in Regs /\ r.current_unode <= unodes /\ Next1 \in Exp
      /\ Popped \in Regs /\ Popped.current_unode = r.current_unode
  BY <1>1, AtInstr
<1>3. last \in Regs /\ last.current_unode = r.current_unode
  <2>1. NotWanted \in Getter
    BY DEF Getter
  <2> QED
    BY <1>2, <2>1 DEF Regs
<1>4. \/ TailDispatch(Next1, last) /\ UNCHANGED stacks
      \/ pc' = "non_tail_eval" /\ expresn' = Next1 /\ r' = Popped /\ UNCHANGED stacks
      \/ WantOutput(Next1, Popped)
  BY DEF OtherInstr
<1> HIDE DEF last
<1>5. CASE UNCHANGED stacks /\ TailDispatch(Next1, last)
  <2>1. Ready'
    BY <1>1, <1>2, <1>5, ReadyStays
  <2> QED
    BY <1>1, <1>2, <1>3, <1>5, <2>1, TailDispatches
<1>6. CASE pc' = "non_tail_eval" /\ expresn' = Next1 /\ r' = Popped /\ UNCHANGED stacks
  <2>1. Ready'
    BY <1>1, <1>2, <1>6, ReadyStays
  <2> QED
    BY <1>1, <1>2, <1>6, <2>1, Dispatches
<1>7. CASE WantOutput(Next1, Popped)
  BY <1>1, <1>2, <1>7, WantsOutput
<1> QED
  BY <1>4, <1>5, <1>6, <1>7

\* A continuation's own frame is on top.
LEMMA FramedHere ==
  ASSUME Inv, pc \in Cont
  PROVE  /\ Framed(unodes, pc, cont, stack, numstack)
         /\ pc # "macro_return" => val \in Result
         /\ pc \notin Taker => sig.flag # "MACRO_RETURN"
<1>1. Framed(unodes, pc, cont, stack, numstack)
  BY DEF Inv, Stacked
<1>2. pc # "macro_return" => val \in Result
  BY DEF Inv, Valued, Settling, ToMacroReturn, Cont, Plain
<1>3. pc \notin Taker => sig.flag # "MACRO_RETURN"
  BY DEF Inv, Flagged, Cont, Plain
<1> QED
  BY <1>1, <1>2, <1>3

LEMMA FallOffWantOutputStep ==
  ASSUME Inv, FallOffWantOutput
  PROVE  Inv'
<1> DEFINE d == Last(stack).v
<1>1. /\ pc \in Cont /\ pc = "fall_off_want_output" /\ pc \notin Taker /\ pc' = "fetch_cont"
      /\ UNCHANGED <<prog, expresn, val, list, cont, numstack, unodes>>
      /\ r' = [r EXCEPT !.didnt_get_output = d] /\ stack' = Front(stack) /\ sig' \in {sig, Error}
  BY DEF FallOffWantOutput, Cont, Taker
<1>2. /\ Framed(unodes, "fall_off_want_output", cont, stack, numstack)
      /\ val \in Result /\ sig.flag # "MACRO_RETURN"
  BY <1>1, FramedHere
<1>3. Good(unodes, Front(stack), numstack, cont) /\ cont \in Cont \ {"after_const_arg"} /\ d \in Getter
  BY <1>2, PopGetter, TypesHere
<1>4. Ready'
  BY <1>1, <1>3 DEF Ready
<1> HIDE DEF d
<1>5. r' \in Regs /\ r'.current_unode = r.current_unode
  BY <1>1, <1>3, TypesHere DEF Regs
<1>6. sig' \in Signal /\ sig'.unode <= unodes /\ sig'.flag # "MACRO_RETURN"
  BY <1>1, <1>2, Errors, TypesHere DEF Inv
<1> QED
  BY <1>1, <1>2, <1>4, <1>5, <1>6, Returns, TypesHere

LEMMA NonTailEvalStep ==
  ASSUME Language, Inv, NonTailEval
  PROVE  Inv'
<1>1. /\ pc \in Free /\ pc = "non_tail_eval" /\ pc' = "eval_dispatch"
      /\ UNCHANGED <<prog, expresn, val, list, sig, unodes>>
  BY FreeLabels DEF NonTailEval
<1>2. sig.flag = "RUN" /\ expresn \in Exp
  BY <1>1 DEF Inv, Flagged, Running, Inputting
<1>3. Ready /\ unodes \in Nat
  BY <1>1, ReadyHere
<1>4. r \in Regs /\ r.current_unode <= unodes
  BY TypesHere
<1>5. CASE IsConst(expresn)
  <2>1. NewCont("after_constant") /\ UNCHANGED <<stack, r>>
    BY <1>5 DEF NonTailEval
  <2>2. Ready' /\ cont' = "after_constant"
    BY <1>1, <1>3, <2>1, ReadyAfter DEF Plain
  <2>3. MacroGoesTo(expresn.op, r.tailcall, cont)'
    <3>1. expresn'.op = "const"
      BY <1>1, <1>5 DEF IsConst
    <3>2. ~IsMacro("const")
      BY Words DEF IsMacro, PrimMacro
    <3> QED
      BY <3>1, <3>2 DEF MacroGoesTo
  <2> QED
    BY <1>1, <1>2, <1>4, <2>1, <2>2, <2>3, Dispatches
<1>6. CASE ~IsConst(expresn)
  <2> DEFINE c == Cell("regs", r)
             next == [r EXCEPT !.didnt_get_output = NotWanted, !.tailcall = 0]
  <2>1. NewCont("eval_sequence_continue") /\ stack' = Append(stack, c) /\ r' = next
    BY <1>6 DEF NonTailEval
  <2>2. Frame(unodes, "eval_sequence_continue", cont, <<c>>, <<>>)
    BY <1>3, <1>4 DEF Frame, Ready
  <2> HIDE DEF c
  <2>3. Good(unodes, Append(stack, c), Append(numstack, [k |-> "cont", v |-> cont]), "eval_sequence_continue")
    BY <1>3, <2>2, PushCell DEF Ready
  <2>4. Ready' /\ cont' = "eval_sequence_continue"
    BY <1>1, <2>1, <2>3 DEF NewCont, Ready, Cont
  <2>5. next \in Regs /\ next.current_unode = r.current_unode
    <3>1. NotWanted \in Getter
      BY DEF Getter
    <3> QED
      BY <1>4, <3>1 DEF Regs
  <2>6. MacroGoesTo(expresn.op, r.tailcall, cont)'
    BY <2>4 DEF MacroGoesTo, Taker
  <2> HIDE DEF next
  <2> QED
    BY <1>1, <1>2, <1>4, <2>1, <2>4, <2>5, <2>6, Dispatches
<1> QED
  BY <1>5, <1>6

LEMMA AfterConstantStep ==
  ASSUME Inv, AfterConstant
  PROVE  Inv'
<1>1. /\ pc \in Cont /\ pc = "after_constant" /\ pc \in Plain /\ pc \notin Taker
      /\ UNCHANGED <<prog, expresn, list, r, stacks, unodes>>
      /\ sig' \in {sig, Error} /\ val' \in {val, Unbound}
      /\ pc' = IF sig'.flag # "THROWING" /\ r.unev = <<>> THEN "fetch_cont" ELSE "eval_sequence"
  BY DEF AfterConstant, Cont, Plain, Taker
<1>2. Ready /\ val \in Result /\ sig.flag # "MACRO_RETURN"
  BY <1>1, PlainHere, FramedHere
<1>3. Ready'
  BY <1>1, <1>2, ReadyStays
<1>4. sig' \in Signal /\ sig'.unode <= unodes /\ sig'.flag # "MACRO_RETURN"
  BY <1>1, <1>2, Errors, TypesHere DEF Inv
<1>5. val' \in Result /\ val' \in Values
  BY <1>1, <1>2, Results
<1>6. CASE pc' = "fetch_cont"
  BY <1>1, <1>3, <1>4, <1>5, <1>6, Returns, TypesHere
<1>7. CASE pc' = "eval_sequence"
  <2>1. sig'.flag = "RUN" => r'.unev # <<>>
    BY <1>1, <1>7
  <2> QED
    BY <1>1, <1>3, <1>4, <1>5, <1>7, <2>1, Begins, TypesHere
<1> QED
  BY <1>1, <1>6, <1>7

\* As Returns, at after_constant.
LEMMA Settles ==
  ASSUME Inv, UNCHANGED prog, pc' = "after_constant",
         expresn' \in Exp \cup {Const(Unbound)}, val' \in Result, list' \in Seq(Exp),
         sig' \in Signal, sig'.unode <= unodes', unodes' \in Nat,
         r' \in Regs, r'.current_unode <= unodes', Ready',
         sig'.flag # "MACRO_RETURN"
  PROVE  Inv'
<1>1. pc' \in Plain
  BY DEF Plain
<1>2. Typed'
  <2>1. val' \in Values
    BY Results
  <2> QED
    BY <2>1 DEF Inv, Typed, Labels
<1>3. Stacked'
  BY <1>1, StackedWith DEF Ready
<1>4. Valued'
  BY DEF Valued, ToMacroReturn, Settling, Cont, Plain, Place
<1>5. Flagged'
  BY DEF Flagged, Running, Place, Ready
<1>6. Inputting'
  BY DEF Inputting, Calling, Ready
<1> QED
  BY <1>2, <1>3, <1>4, <1>5, <1>6 DEF Inv

LEMMA EvalSequenceContinueStep ==
  ASSUME Language, Inv, EvalSequenceContinue
  PROVE  Inv'
<1> DEFINE regs == Last(stack).v
           s == IF sig.flag = "STOP" THEN [sig EXCEPT !.flag = "RUN"] ELSE sig
           unev == val.l \o regs.unev
<1>1. /\ pc \in Cont /\ pc = "eval_sequence_continue" /\ stack' = Front(stack)
      /\ UNCHANGED <<prog, expresn, list, cont, numstack, unodes>>
  BY DEF EvalSequenceContinue, Cont
<1>2. Framed(unodes, "eval_sequence_continue", cont, stack, numstack) /\ val \in Result
  BY <1>1, FramedHere
<1>3. /\ Good(unodes, Front(stack), numstack, cont) /\ cont \in Cont \ {"after_const_arg"}
      /\ regs \in Regs /\ regs.current_unode <= unodes
  BY <1>2, PopRegs, TypesHere
<1>4. Ready'
  BY <1>1, <1>3 DEF Ready
<1> HIDE DEF regs
<1>5. /\ s \in Signal /\ s.unode <= unodes /\ s.out \in Result
      /\ s.flag = "MACRO_RETURN" => sig.flag = "MACRO_RETURN"
  BY TypesHere DEF Signal
<1>6. CASE s.flag = "MACRO_RETURN"
  <2>1. /\ r' = [regs EXCEPT !.unev = unev] /\ val' = Unbound /\ sig' = [s EXCEPT !.flag = "RUN"]
        /\ pc' = IF unev = <<>> THEN "fetch_cont" ELSE "after_constant"
    BY <1>6 DEF EvalSequenceContinue, regs
  <2>2. unev \in Seq(Exp)
    <3>1. val.l \in Seq(Exp) /\ regs.unev \in Seq(Exp)
      BY <1>3, <1>5, <1>6, ListOfMacro DEF Regs
    <3> QED
      BY <3>1, ConcatProperties
  <2> HIDE DEF unev
  <2>3. r' \in Regs /\ r'.current_unode <= unodes
    BY <1>3, <2>1, <2>2 DEF Regs
  <2>4. sig' \in Signal /\ sig'.unode <= unodes /\ sig'.flag = "RUN"
    BY <1>5, <2>1 DEF Signal
  <2>5. val' \in Result
    BY <2>1, Results
  <2>6. CASE pc' = "fetch_cont"
    BY <1>1, <1>4, <2>3, <2>4, <2>5, <2>6, Returns, TypesHere
  <2>7. CASE pc' = "after_constant"
    BY <1>1, <1>4, <2>3, <2>4, <2>5, <2>7, Settles, TypesHere
  <2> QED
    BY <2>1, <2>6, <2>7
<1>7. CASE s.flag # "MACRO_RETURN" /\ regs.current_unode # s.unode /\ s.flag = "OUTPUT"
  <2>1. r' = regs /\ val' = s.out /\ sig' = [s EXCEPT !.flag = "RUN"] /\ pc' = "fetch_cont"
    BY <1>7 DEF EvalSequenceContinue, regs
  <2>2. sig' \in Signal /\ sig'.unode <= unodes /\ sig'.flag = "RUN"
    BY <1>5, <2>1 DEF Signal
  <2> QED
    BY <1>1, <1>3, <1>4, <1>5, <2>1, <2>2, Returns, TypesHere
<1>8. CASE s.flag # "MACRO_RETURN" /\ ~(regs.current_unode # s.unode /\ s.flag = "OUTPUT")
  <2>1. /\ r' = regs /\ pc' = "after_constant" /\ UNCHANGED val
        /\ sig' \in {s, [s EXCEPT !.out = Unbound]}
    BY <1>8 DEF EvalSequenceContinue, regs
  <2>2. sig' \in Signal /\ sig'.unode <= unodes /\ sig'.flag # "MACRO_RETURN"
    BY <1>5, <1>8, <2>1, Results DEF Signal
  <2> HIDE DEF s
  <2> QED
    BY <1>1, <1>2, <1>3, <1>4, <2>1, <2>2, Settles, TypesHere
<1> QED
  BY <1>6, <1>7, <1>8

\* A list is returned to a continuation that knows MACRO_RETURN.
LEMMA Marks ==
  ASSUME Inv, UNCHANGED <<prog, expresn, unodes>>, pc' = "fetch_cont", list' \in Seq(Exp),
         val' \in Val, val'.t = "list", sig' \in Signal, sig'.unode <= unodes,
         r' \in Regs, r'.current_unode <= unodes,
         Good(unodes, stack, numstack, cont)', cont' \in Taker
  PROVE  Inv'
<1>1. pc' \in Free
  BY FreeLabels
<1>2. cont' \in Cont /\ cont' \notin {"macro_return", "after_const_arg", "none"}
  BY DEF Cont, Plain, Taker
<1>3. Typed'
  <2>1. val' \in Values
    BY Results
  <2> QED
    BY <2>1 DEF Inv, Typed, Labels
<1>4. Stacked'
  BY <1>1, <1>2, StackedThere
<1>5. Valued'
  BY <1>2, Results DEF Valued, ToMacroReturn, Settling, Cont, Plain, Place
<1>6. Flagged'
  BY <1>2 DEF Flagged, Running, Place
<1>7. Inputting'
  BY <1>2 DEF Inputting, Calling
<1> QED
  BY <1>3, <1>4, <1>5, <1>6, <1>7 DEF Inv

\* A primitive that is a macro goes on where it said.
LEMMA GoesWhere ==
  ASSUME Inv, UNCHANGED <<prog, expresn, unodes, list>>, NEW STATE args, Fitting(pc', args), val' = ListOf(args),
         sig' \in Signal, sig'.unode <= unodes, sig'.flag = "RUN",
         r' \in Regs, r'.current_unode <= unodes, Ready',
         r'.tailcall <= 0 => cont' \in Taker
  PROVE  Inv'
<1>1. pc' \in Place /\ args \in Seq(Val)
  BY DEF Fitting
<1>2. pc' \in Free
  BY <1>1, FreeLabels DEF Place
<1>3. Typed'
  <2>1. val' \in Values
    BY <1>1 DEF Values
  <2>2. pc' \in Labels
    BY <1>2 DEF Free
  <2> QED
    BY <2>1, <2>2 DEF Inv, Typed
<1>4. Stacked'
  BY <1>2, StackedThere DEF Ready
<1>5. Valued'
  <2>1. \E a : val' = ListOf(a) /\ Fitting(pc', a)
    OBVIOUS
  <2> QED
    BY <1>1, <2>1 DEF Valued, ToMacroReturn, Settling, Cont, Plain, Place
<1>6. Flagged'
  BY <1>1 DEF Flagged, Running, Place
<1>7. Inputting'
  BY <1>1 DEF Inputting, Calling, Ready, Place
<1> QED
  BY <1>3, <1>4, <1>5, <1>6, <1>7 DEF Inv

LEMMA SettleRun ==
  ASSUME Typed, sig.flag = "RUN", NEW STATE u
  PROVE  /\ ReceivedVal(u) = val /\ Settled(u) \in Signal /\ Settled(u).flag = "RUN"
         /\ Settled(u).unode = sig.unode
<1>1. ~Received(u) /\ sig \in Signal /\ Unbound \in Result
  BY Results DEF Received, Typed
<1>2. ReceivedVal(u) = val /\ Settled(u) \in {sig, [sig EXCEPT !.out = Unbound]}
  BY <1>1 DEF ReceivedVal, Settled
<1> QED
  BY <1>1, <1>2 DEF Signal

\* The registers a continuation brings back.
LEMMA BackTypes ==
  ASSUME r \in Regs, NEW STATE s, s \in StatusCell
  PROVE  /\ Back(r, s) \in Regs /\ Back(r, s).current_unode = r.current_unode
         /\ Back(r, s).tailcall = s.tailcall
<1>1. s.status \in StatusSet /\ s.tailcall \in {-1, 0, 1}
  BY DEF StatusCell
<1> QED
  BY <1>1 DEF Back, Regs

LEMMA MacroReturnStep ==
  ASSUME Language, Inv, MacroReturn
  PROVE  Inv'
<1> DEFINE saved == Last(stack).v
           v == ReceivedVal(saved.unode)
           settled == Settled(saved.unode)
           s == IF settled.flag # "THROWING" /\ v.t \notin {"list", "cont"} THEN Error ELSE settled
           regs == [Back(r, NumTop) EXCEPT !.didnt_get_output = saved.dgo,
                                           !.current_unode = saved.unode]
<1>1. /\ pc \in Cont /\ pc = "macro_return" /\ pc \notin Taker
      /\ stack' = Front(stack) /\ r' = regs /\ UNCHANGED <<prog, expresn, unodes>>
  BY DEF MacroReturn, Cont, Taker
<1>2. \/ /\ s.flag = "THROWING" /\ val' = Unbound /\ sig' = s /\ pc' = "fetch_cont"
         /\ numstack' = Front(numstack) /\ UNCHANGED <<list, cont>>
      \/ /\ s.flag # "THROWING" /\ v.t = "cont"
         /\ val' = ListOf(v.args) /\ sig' = s /\ pc' = v.label
         /\ numstack' = Front(numstack) /\ UNCHANGED <<list, cont>>
      \/ /\ s.flag # "THROWING" /\ v.t # "cont" /\ regs.tailcall <= 0
         /\ val' = v /\ list' = v.l /\ pc' = "fetch_cont"
         /\ sig' = [s EXCEPT !.flag = "MACRO_RETURN"]
         /\ numstack' = Front(numstack) /\ UNCHANGED cont
      \/ /\ s.flag # "THROWING" /\ v.t # "cont" /\ ~(regs.tailcall <= 0)
         /\ val' = v /\ list' = v.l /\ sig' = s /\ pc' = "begin_seq"
         /\ numstack' = Front(numstack) /\ UNCHANGED cont
  <2>1. CASE s.flag = "THROWING"
    BY <2>1 DEF MacroReturn
  <2>2. CASE s.flag # "THROWING" /\ v.t = "cont"
    BY <2>2 DEF MacroReturn
  <2>3. CASE s.flag # "THROWING" /\ v.t # "cont" /\ regs.tailcall <= 0
    BY <2>3 DEF MacroReturn
  <2>4. CASE s.flag # "THROWING" /\ v.t # "cont" /\ ~(regs.tailcall <= 0)
    BY <2>4 DEF MacroReturn
  <2> QED
    BY <2>1, <2>2, <2>3, <2>4
<1>3. Framed(unodes, "macro_return", cont, stack, numstack) /\ sig.flag # "MACRO_RETURN"
  BY <1>1, FramedHere
<1>4. /\ Good(unodes, Front(stack), Front(numstack), cont) /\ cont \in Cont \ {"after_const_arg"}
      /\ saved \in MacroCell /\ saved.unode <= unodes
      /\ NumTop \in StatusCell
      /\ NumTop.tailcall <= 0 => cont \in Taker
  BY <1>3, PopMacro, TypesHere DEF NumTop
<1>5. saved.unode \in Nat /\ saved.dgo \in Getter
  BY <1>4 DEF MacroCell
<1>6. regs \in Regs /\ regs.current_unode <= unodes /\ regs.tailcall = NumTop.tailcall
  <2> DEFINE b == Back(r, NumTop)
             d == saved.dgo
             n == saved.unode
  <2>1. b \in Regs /\ b.tailcall = NumTop.tailcall
    BY <1>4, BackTypes, TypesHere
  <2>2. d \in Getter /\ n \in Nat
    BY <1>5
  <2> HIDE DEF b, d, n
  <2>3. regs = [b EXCEPT !.didnt_get_output = d, !.current_unode = n]
    BY DEF b, d, n
  <2> HIDE DEF regs
  <2>4. regs \in Regs /\ regs.current_unode = n /\ regs.tailcall = NumTop.tailcall
    BY <2>1, <2>2, <2>3 DEF Regs
  <2>5. n <= unodes
    BY <1>4 DEF n
  <2> QED
    BY <2>4, <2>5
<1> HIDE DEF saved
<1>7. numstack' = Front(numstack) /\ cont' = cont
  BY <1>2
<1>8. Good(unodes, stack, numstack, cont)' /\ Ready'
  BY <1>1, <1>4, <1>7 DEF Ready
<1> HIDE DEF regs
<1>9. CASE val \in Result
  <2>1. /\ v \in Result /\ settled \in Signal /\ settled.unode = sig.unode
        /\ settled.flag # "MACRO_RETURN"
    BY <1>3, <1>9, Settle DEF Inv
  <2>2. s \in Signal /\ s.unode <= unodes /\ s.flag # "MACRO_RETURN"
    BY <2>1, Errors, TypesHere DEF Inv
  <2>3. v.t # "cont"
    BY <2>1 DEF Language, Result, Unbound
  <2>4. s.flag # "THROWING" => v \in Val /\ v.t = "list" /\ v.l \in Seq(Exp)
    <3>1. s.flag # "THROWING" => v.t = "list"
      BY <2>3, Errors DEF Inv
    <3>2. v.t = "list" => v \in Val
      BY <2>1 DEF Result, Unbound
    <3>3. v \in Val /\ v.t = "list" => v.l \in Seq(Exp)
      BY DEF Language
    <3> QED
      BY <3>1, <3>2, <3>3
  <2> HIDE DEF s, v
  <2>5. CASE s.flag = "THROWING"
    <3>1. val' = Unbound /\ sig' = s /\ pc' = "fetch_cont" /\ UNCHANGED list
      BY <1>2, <2>5
    <3> QED
      BY <1>1, <1>6, <1>8, <2>2, <3>1, Results, Returns, TypesHere
  <2>6. CASE s.flag # "THROWING" /\ regs.tailcall <= 0
    <3>1. val' = v /\ list' = v.l /\ pc' = "fetch_cont" /\ sig' = [s EXCEPT !.flag = "MACRO_RETURN"]
      BY <1>2, <2>3, <2>6
    <3>2. sig' \in Signal /\ sig'.unode <= unodes
      BY <2>2, <3>1 DEF Signal
    <3>3. cont' \in Taker
      BY <1>4, <1>6, <1>7, <2>6
    <3> QED
      BY <1>1, <1>6, <1>8, <2>4, <2>6, <3>1, <3>2, <3>3, Marks
  <2>7. CASE s.flag # "THROWING" /\ ~(regs.tailcall <= 0)
    <3>1. val' = v /\ list' = v.l /\ pc' = "begin_seq" /\ sig' = s
      BY <1>2, <2>3, <2>7
    <3> QED
      BY <1>1, <1>6, <1>8, <2>1, <2>2, <2>4, <2>7, <3>1, Results, Begins, TypesHere
  <2> QED
    BY <2>5, <2>6, <2>7
<1>10. CASE sig.flag = "RUN" /\ GoesOn
  <2>1. PICK label, args : val = ContOf(label, args) /\ Fitting(label, args)
    BY <1>10 DEF GoesOn
  <2>2. /\ v = ContOf(label, args) /\ settled \in Signal /\ settled.flag = "RUN"
        /\ settled.unode = sig.unode
    BY <1>10, <2>1, SettleRun DEF Inv
  <2>3. v.t = "cont" /\ v.label = label /\ v.args = args
    BY <2>2 DEF ContOf
  <2>4. s = settled
    BY <2>3
  <2> HIDE DEF s, v
  <2>5. val' = ListOf(args) /\ sig' = settled /\ pc' = label /\ UNCHANGED list
    BY <1>2, <2>2, <2>3, <2>4
  <2>6. r'.tailcall <= 0 => cont' \in Taker
    BY <1>1, <1>4, <1>6, <1>7
  <2> HIDE DEF settled
  <2> QED
    BY <1>1, <1>6, <1>8, <2>1, <2>2, <2>5, <2>6, GoesWhere, TypesHere
<1>11. val \in Result \/ (sig.flag = "RUN" /\ GoesOn)
  BY <1>1 DEF Inv, Valued, ToMacroReturn
<1> QED
  BY <1>9, <1>10, <1>11

\* The list of inputs that a primitive goes on with.
LEMMA PlaceHere ==
  ASSUME Inv, pc \in Place
  PROVE  /\ Ready /\ unodes \in Nat /\ sig.flag = "RUN"
         /\ \E args : val = ListOf(args) /\ Fitting(pc, args)
<1>1. pc \in Free /\ pc \notin {"fetch_cont", "eval_dispatch"}
  BY FreeLabels DEF Place
<1>2. sig.flag = "RUN"
  BY DEF Inv, Flagged, Running
<1>3. \E args : val = ListOf(args) /\ Fitting(pc, args)
  BY DEF Inv, Valued
<1> QED
  BY <1>1, <1>2, <1>3, ReadyHere

LEMMA StatusTypes ==
  ASSUME r \in Regs
  PROVE  Status \in StatusCell
  BY DEF Status, StatusCell, Regs

LEMMA RunresultContinuationStep ==
  ASSUME Language, Inv, RunresultContinuation
  PROVE  Inv'
<1> DEFINE c == Cell("current_unode", r.current_unode)
<1>1. /\ pc = "runresult_continuation" /\ pc \in Place /\ pc' = "begin_seq"
      /\ list' = val.l[1].l /\ stack' = Append(stack, c) /\ NewCont("runresult_followup")
      /\ r' = [r EXCEPT !.status = {"VALUE_OK", "NO_VALUE_OK", "OUTPUT_OK", "STOP_OK"}]
      /\ UNCHANGED <<prog, expresn, val, sig, unodes>>
  BY DEF RunresultContinuation, Place
<1>2. Ready /\ unodes \in Nat /\ sig.flag = "RUN"
  BY <1>1, PlaceHere
<1>3. PICK args : val = ListOf(args) /\ Fitting(pc, args)
  BY <1>1, PlaceHere
<1>4. list' \in Seq(Exp)
  <2>1. args \in Seq(Val) /\ Len(args) = 1 /\ args[1].t = "list"
    BY <1>1, <1>3 DEF Fitting
  <2>2. args[1] \in Val
    BY <2>1, ElementOfSeq
  <2>3. list' = args[1].l
    BY <1>1, <1>3 DEF ListOf
  <2> QED
    BY <2>1, <2>2, <2>3 DEF Language
<1>5. r' \in Regs /\ r'.current_unode <= unodes
  <2>1. {"VALUE_OK", "NO_VALUE_OK", "OUTPUT_OK", "STOP_OK"} \in StatusSet
    BY DEF StatusSet
  <2> QED
    BY <1>1, <2>1, TypesHere DEF Regs
<1>6. Frame(unodes, "runresult_followup", cont, <<c>>, <<>>)
  <2>1. r.current_unode \in 0 .. unodes
    BY <1>2, TypesHere DEF Regs
  <2> QED
    BY <1>2, <2>1 DEF Frame, Ready
<1> HIDE DEF c
<1>7. Good(unodes, Append(stack, c), Append(numstack, [k |-> "cont", v |-> cont]), "runresult_followup")
  BY <1>2, <1>6, PushCell DEF Ready
<1>8. Ready'
  BY <1>1, <1>7 DEF NewCont, Ready, Cont
<1> QED
  BY <1>1, <1>2, <1>4, <1>5, <1>8, Begins, TypesHere

LEMMA RunresultFollowupStep ==
  ASSUME Language, Inv, RunresultFollowup
  PROVE  Inv'
<1> DEFINE u == Last(stack).v
           v == ReceivedVal(u)
           s == Settled(u)
<1>1. /\ pc \in Cont /\ pc = "runresult_followup" /\ pc \notin Taker /\ pc' = "fetch_cont"
      /\ r' = [r EXCEPT !.current_unode = u] /\ stack' = Front(stack)
      /\ sig' = IF s.flag \in {"STOP", "OUTPUT"} THEN Error ELSE s
      /\ val' = ListOf(IF v = Unbound THEN <<>> ELSE <<Const(v)>>)
      /\ UNCHANGED <<prog, expresn, list, cont, numstack, unodes>>
  BY DEF RunresultFollowup, Cont, Taker
<1>2. /\ Framed(unodes, "runresult_followup", cont, stack, numstack)
      /\ val \in Result /\ sig.flag # "MACRO_RETURN"
  BY <1>1, FramedHere
<1>3. Good(unodes, Front(stack), numstack, cont) /\ cont \in Cont \ {"after_const_arg"} /\ u \in 0 .. unodes
  BY <1>2, PopUnode, TypesHere
<1>4. Ready'
  BY <1>1, <1>3 DEF Ready
<1>5. v \in Result /\ s \in Signal /\ s.unode = sig.unode /\ s.flag # "MACRO_RETURN"
  BY <1>2, Settle DEF Inv
<1> HIDE DEF u, v, s
<1>6. sig' \in Signal /\ sig'.unode <= unodes /\ sig'.flag # "MACRO_RETURN"
  BY <1>1, <1>5, Errors, TypesHere DEF Inv
<1>7. val' \in Result
  <2>1. CASE v = Unbound
    BY <1>1, <2>1 DEF Result, Language
  <2>2. CASE v # Unbound
    BY <1>1, <1>5, <2>2 DEF Result, Language
  <2> QED
    BY <2>1, <2>2
<1>8. r' \in Regs /\ r'.current_unode <= unodes
  <2>1. u \in Nat /\ u <= unodes
    BY <1>3, TypesHere
  <2> QED
    BY <1>1, <2>1, TypesHere DEF Regs
<1> QED
  BY <1>1, <1>4, <1>6, <1>7, <1>8, Returns, TypesHere

LEMMA CatchContinuationStep ==
  ASSUME Language, Inv, CatchContinuation
  PROVE  Inv'
<1> DEFINE m == [dgo |-> r.didnt_get_output, unode |-> r.current_unode, tag |-> val.l[1].w]
           c == Cell("catch", m)
<1>1. /\ pc = "catch_continuation" /\ pc \in Place /\ pc' = "begin_seq"
      /\ list' = val.l[2].l /\ stack' = Append(stack, c) /\ SaveNum(<<Cell("status", Status)>>, "catch_followup")
      /\ r' = [r EXCEPT !.status = @ \ NoTails]
      /\ UNCHANGED <<prog, expresn, val, sig, unodes>>
  BY DEF CatchContinuation, Place
<1>2. Ready /\ unodes \in Nat /\ sig.flag = "RUN"
  BY <1>1, PlaceHere
<1>3. PICK args : val = ListOf(args) /\ Fitting(pc, args)
  BY <1>1, PlaceHere
<1>4. list' \in Seq(Exp) /\ val.l[1].w \in Tag
  <2>1. args \in Seq(Val) /\ Len(args) = 2 /\ args[1].t = "word" /\ args[2].t = "list"
    BY <1>1, <1>3 DEF Fitting
  <2>2. args[1] \in Val /\ args[2] \in Val
    <3>1. 1 \in 1 .. Len(args) /\ 2 \in 1 .. Len(args)
      BY <2>1
    <3> QED
      BY <2>1, <3>1, ElementOfSeq
  <2>3. list' = args[2].l /\ val.l[1] = args[1]
    BY <1>1, <1>3 DEF ListOf
  <2>4. list' \in Seq(Exp)
    BY <2>1, <2>2, <2>3 DEF Language
  <2>5. args[1].w \in Tag
    BY <2>1, <2>2 DEF Tag
  <2> QED
    BY <2>3, <2>4, <2>5
<1>5. r' \in Regs /\ r'.current_unode <= unodes
  <2>1. r.status \ NoTails \in StatusSet
    BY TypesHere DEF StatusSet, Regs
  <2> QED
    BY <1>1, <2>1, TypesHere DEF Regs
<1>6. m \in CatchCell /\ m.unode <= unodes
  <2>1. r.didnt_get_output \in Getter /\ r.current_unode \in Nat /\ r.current_unode <= unodes
    BY TypesHere DEF Regs
  <2> QED
    BY <1>4, <2>1 DEF CatchCell
<1> HIDE DEF m
<1>7. Frame(unodes, "catch_followup", cont, <<c>>, <<Cell("status", Status)>>)
  <2>1. Status \in StatusCell /\ cont \in Cont \ {"after_const_arg"}
    BY <1>2, StatusTypes, TypesHere DEF Ready
  <2> HIDE DEF c
  <2>2. (\E x \in CatchCell : x.unode <= unodes /\ <<c>> = <<Cell("catch", x)>>)
    BY <1>6 DEF c
  <2> QED
    BY <2>1, <2>2 DEF Frame
<1> HIDE DEF c
<1>8. Good(unodes, Append(stack, c), numstack \o <<Cell("status", Status)>> \o <<[k |-> "cont", v |-> cont]>>, "catch_followup")
  BY <1>2, <1>7, PushStatus DEF Ready
<1>9. Ready'
  BY <1>1, <1>8 DEF SaveNum, Ready, Cont
<1> QED
  BY <1>1, <1>2, <1>4, <1>5, <1>9, Begins, TypesHere

LEMMA CatchFollowupStep ==
  ASSUME Inv, CatchFollowup
  PROVE  Inv'
<1> DEFINE saved == Last(stack).v
           regs == [Back(r, NumTop) EXCEPT !.didnt_get_output = saved.dgo,
                                           !.current_unode = saved.unode]
           settled == Settled(saved.unode)
           v == ReceivedVal(saved.unode)
<1>1. /\ pc \in Cont /\ pc = "catch_followup" /\ pc \notin Taker /\ pc' = "fetch_cont"
      /\ r' = regs /\ stack' = Front(stack) /\ numstack' = Front(numstack)
      /\ UNCHANGED <<prog, expresn, list, cont, unodes>>
  BY DEF CatchFollowup, Cont, Taker
<1>2. \E s \in {Error, settled} :
          \/ sig' = s /\ val' = v
          \/ sig' = [s EXCEPT !.flag = "RUN", !.tag = "none"] /\ val' = s.out
  BY DEF CatchFollowup
<1>3. /\ Framed(unodes, "catch_followup", cont, stack, numstack)
      /\ val \in Result /\ sig.flag # "MACRO_RETURN"
  BY <1>1, FramedHere
<1>4. /\ Good(unodes, Front(stack), Front(numstack), cont) /\ cont \in Cont \ {"after_const_arg"}
      /\ saved \in CatchCell /\ saved.unode <= unodes /\ NumTop \in StatusCell
  BY <1>3, PopCatch, TypesHere DEF NumTop
<1>5. saved.unode \in Nat /\ saved.dgo \in Getter
  BY <1>4 DEF CatchCell
<1>6. regs \in Regs /\ regs.current_unode <= unodes
  <2> DEFINE b == Back(r, NumTop)
             d == saved.dgo
             n == saved.unode
  <2>1. b \in Regs /\ b.tailcall = NumTop.tailcall
    BY <1>4, BackTypes, TypesHere
  <2>2. d \in Getter /\ n \in Nat
    BY <1>5
  <2> HIDE DEF b, d, n
  <2>3. regs = [b EXCEPT !.didnt_get_output = d, !.current_unode = n]
    BY DEF b, d, n
  <2> HIDE DEF regs
  <2>4. regs \in Regs /\ regs.current_unode = n /\ regs.tailcall = NumTop.tailcall
    BY <2>1, <2>2, <2>3 DEF Regs
  <2>5. n <= unodes
    BY <1>4 DEF n
  <2> QED
    BY <2>4, <2>5
<1>7. Ready'
  BY <1>1, <1>4 DEF Ready
<1>8. v \in Result /\ settled \in Signal /\ settled.unode = sig.unode /\ settled.flag # "MACRO_RETURN"
  BY <1>3, Settle DEF Inv
<1> HIDE DEF saved, regs, settled, v
<1>9. sig' \in Signal /\ sig'.unode <= unodes /\ sig'.flag # "MACRO_RETURN" /\ val' \in Result
  <2>1. PICK s \in {Error, settled} :
            \/ sig' = s /\ val' = v
            \/ sig' = [s EXCEPT !.flag = "RUN", !.tag = "none"] /\ val' = s.out
    BY <1>2
  <2>2. s \in Signal /\ s.unode <= unodes /\ s.flag # "MACRO_RETURN"
    BY <1>8, <2>1, Errors, TypesHere DEF Inv
  <2>3. s.out \in Result /\ "none" \in Tag
    BY <2>2 DEF Signal, Tag
  <2> QED
    BY <1>8, <2>1, <2>2, <2>3 DEF Signal
<1> QED
  BY <1>1, <1>6, <1>7, <1>9, Returns, TypesHere

LEMMA AfterLambdaStep ==
  ASSUME Inv, AfterLambda
  PROVE  Inv'
<1>1. /\ pc \in Cont /\ pc = "after_lambda" /\ pc' = "fetch_cont" /\ stack' = Front(stack)
      /\ UNCHANGED <<prog, expresn, val, list, r, cont, numstack, sig, unodes>>
  BY DEF AfterLambda, Cont
<1>2. Framed(unodes, "after_lambda", cont, stack, numstack) /\ val \in Result
  BY <1>1, FramedHere
<1>3. Good(unodes, Front(stack), numstack, cont) /\ cont \in Taker /\ cont \in Cont \ {"after_const_arg"}
  BY <1>2, PopLambda, TypesHere
<1>4. Good(unodes, stack, numstack, cont)' /\ Ready'
  BY <1>1, <1>3 DEF Ready
<1>5. CASE sig.flag = "MACRO_RETURN"
  <2>1. val \in Val /\ val.t = "list"
    BY <1>5 DEF Inv, Flagged
  <2> QED
    BY <1>1, <1>3, <1>4, <2>1, Marks, TypesHere
<1>6. CASE sig.flag # "MACRO_RETURN"
  BY <1>1, <1>2, <1>4, <1>6, Returns, TypesHere
<1> QED
  BY <1>5, <1>6

\* REPEAT's own count is on top.
LEMMA Counts ==
  ASSUME Inv, UNCHANGED prog, pc' \in InRepeat, UNCHANGED expresn, list' \in Seq(Exp),
         val' \in Values, pc' = "repeat_done" => val' \in Result,
         sig' \in Signal, sig'.unode <= unodes', unodes' \in Nat, sig'.flag # "MACRO_RETURN",
         r' \in Regs, r'.current_unode <= unodes',
         Counting(unodes, cont, stack, numstack)', cont' \in Cont \ {"after_const_arg"}
  PROVE  Inv'
<1>1. Typed'
  BY DEF Inv, Typed, Labels, InRepeat
<1>2. Stacked'
  BY DEF Stacked, InRepeat, Cont, Plain
<1>3. Valued'
  BY DEF Valued, ToMacroReturn, Settling, Cont, Plain, Place, InRepeat
<1>4. Flagged'
  BY DEF Flagged, Running, Place, InRepeat
<1>5. Inputting'
  BY DEF Inputting, Calling, InRepeat
<1> QED
  BY <1>1, <1>2, <1>3, <1>4, <1>5 DEF Inv

LEMMA CountedHere ==
  ASSUME Inv, pc \in InRepeat
  PROVE  /\ Counting(unodes, cont, stack, numstack) /\ cont \in Cont \ {"after_const_arg"}
         /\ pc = "repeat_done" => val \in Result
         /\ sig.flag # "MACRO_RETURN"
<1>1. Counting(unodes, cont, stack, numstack) /\ cont # "none"
  BY DEF Inv, Stacked
<1>2. cont \in Cont
  BY <1>1, GoodType, TypesHere DEF Counting
<1>3. cont # "after_const_arg"
  BY DEF Inv, Inputting, InRepeat
<1>4. pc = "repeat_done" => val \in Result
  BY DEF Inv, Valued, Settling, ToMacroReturn
<1>5. sig.flag # "MACRO_RETURN"
  BY DEF Inv, Flagged, Taker, InRepeat
<1> QED
  BY <1>1, <1>2, <1>3, <1>4, <1>5

LEMMA RepeatContinuationStep ==
  ASSUME Language, Inv, RepeatContinuation
  PROVE  Inv'
<1> DEFINE n == r.repcount
<1>1. /\ pc = "repeat_continuation" /\ pc \in Place /\ pc' = "repeat_again"
      /\ list' = val.l[1].l /\ numstack' = Append(numstack, Cell("repcount", n))
      /\ r' = [r EXCEPT !.repcount = Times]
      /\ UNCHANGED <<prog, expresn, val, stack, cont, sig, unodes>>
  BY DEF RepeatContinuation, Place
<1>2. Ready /\ unodes \in Nat /\ sig.flag = "RUN"
  BY <1>1, PlaceHere
<1>3. PICK args : val = ListOf(args) /\ Fitting(pc, args)
  BY <1>1, PlaceHere
<1>4. list' \in Seq(Exp)
  <2>1. args \in Seq(Val) /\ Len(args) = 1 /\ args[1].t = "list"
    BY <1>1, <1>3 DEF Fitting
  <2>2. args[1] \in Val
    BY <2>1, ElementOfSeq
  <2>3. list' = args[1].l
    BY <1>1, <1>3 DEF ListOf
  <2> QED
    BY <2>1, <2>2, <2>3 DEF Language
<1>5. n \in 0 .. Times /\ r \in Regs /\ r.current_unode <= unodes
  BY TypesHere DEF Regs
<1> HIDE DEF n
<1>6. r' \in Regs /\ r'.current_unode <= unodes
  <2>1. Times \in 0 .. Times
    BY TimesAssumption
  <2> QED
    BY <1>1, <1>5, <2>1 DEF Regs
<1>7. Counting(unodes, cont, stack, numstack)' /\ cont' \in Cont \ {"after_const_arg"}
  <2>1. numstack \in Seq(NumCell) /\ Cell("repcount", n) \in NumCell
    <3>1. "repcount" \in NumKind /\ n \in NumValue
      BY <1>5 DEF NumKind, NumValue
    <3> QED
      BY <1>2, <3>1, GoodType, CellType DEF Ready, NumCell
  <2>2. numstack' = numstack \o <<Cell("repcount", n)>>
    BY <1>1, <2>1, ConcatLast
  <2> QED
    BY <1>1, <1>2, <1>5, <2>2 DEF Counting, Ready
<1> QED
  BY <1>1, <1>2, <1>4, <1>6, <1>7, Counts, TypesHere DEF InRepeat

LEMMA RepeatAgainStep ==
  ASSUME Inv, RepeatAgain
  PROVE  Inv'
<1> DEFINE c == Cell("repeat", list)
           b == Cell("repcount", r.repcount)
           s == Cell("status", Status)
           next == [r EXCEPT !.status = (@ \ ({"VALUE_OK"} \cup NoTails))
                                \cup (IF r.tailcall = 0 THEN {"NO_VALUE_OK"} ELSE {})]
<1>1. /\ pc = "repeat_again" /\ pc \in InRepeat /\ val' = Unbound
      /\ UNCHANGED <<prog, expresn, list, sig, unodes>>
  BY DEF RepeatAgain, InRepeat
<1>2. /\ Counting(unodes, cont, stack, numstack) /\ cont \in Cont \ {"after_const_arg"}
      /\ sig.flag # "MACRO_RETURN"
  BY <1>1, CountedHere
<1>3. /\ r \in Regs /\ r.current_unode <= unodes /\ unodes \in Nat /\ list \in Seq(Exp)
      /\ r.repcount \in 0 .. Times
  BY TypesHere DEF Regs
<1>4. val' \in Result /\ val' \in Values
  BY <1>1, Results
<1>5. CASE r.repcount = 0
  <2>1. pc' = "repeat_done" /\ UNCHANGED <<r, stack, cont, numstack>>
    BY <1>5 DEF RepeatAgain, stacks
  <2> QED
    BY <1>1, <1>2, <1>4, <2>1, Counts, TypesHere DEF InRepeat
<1>6. CASE r.repcount # 0
  <2>1. /\ stack' = Append(stack, c) /\ SaveNum(<<b, s>>, "repeat_followup") /\ r' = next /\ pc' = "begin_seq"
    BY <1>6 DEF RepeatAgain
  <2>2. PICK nms : \E n \in 0 .. Times : Good(unodes, stack, nms, cont) /\ numstack = nms \o <<Cell("repcount", n)>>
    BY <1>2 DEF Counting
  <2>0. PICK n \in 0 .. Times : Good(unodes, stack, nms, cont) /\ numstack = nms \o <<Cell("repcount", n)>>
    BY <2>2
  <2> DEFINE a == Cell("repcount", n)
  <2>3. Frame(unodes, "repeat_followup", cont, <<c>>, <<a, b, s>>)
    <3>1. r.repcount \in 1 .. Times /\ Status \in StatusCell
      BY <1>3, <1>6, StatusTypes, TimesAssumption
    <3>2. \E l \in Seq(Exp) : <<c>> = <<Cell("repeat", l)>>
      BY <1>3
    <3>3. \E x \in 0 .. Times, y \in 1 .. Times, z \in StatusCell :
              <<a, b, s>> = <<Cell("repcount", x), Cell("repcount", y), Cell("status", z)>>
      BY <3>1
    <3> HIDE DEF a, b, c, s
    <3> QED
      BY <1>2, <3>2, <3>3 DEF Frame
  <2>4. numstack = nms \o <<a>>
    BY <2>0
  <2> HIDE DEF a, b, c, s
  <2>5. Good(unodes, stack \o <<c>>, nms \o <<a, b, s>> \o <<Cell("cont", cont)>>, "repeat_followup")
    BY <1>3, <2>0, <2>3, GoodPush
  <2>6. nms \in Seq(NumCell) /\ stack \in Seq(StackCell) /\ <<c>> \in Seq(StackCell) /\ <<a, b, s>> \in Seq(NumCell)
    BY <1>3, <2>0, <2>3, GoodType, FrameType
  <2>7. stack \o <<c>> = Append(stack, c)
    BY <2>6, ConcatLast
  <2>8. nms \o <<a, b, s>> = numstack \o <<b, s>>
    <3>1. a \in NumCell /\ b \in NumCell /\ s \in NumCell
      BY <2>6, ThreeIn
    <3>2. <<a>> \in Seq(NumCell) /\ <<b, s>> \in Seq(NumCell)
      BY <3>1, SeqTypes
    <3>3. <<a, b, s>> = <<a>> \o (<<b>> \o <<s>>) /\ <<b>> \o <<s>> = <<b, s>>
      BY <3>1, Triple, Pair
    <3>4. (nms \o <<a>>) \o <<b, s>> = nms \o (<<a>> \o <<b, s>>)
      BY <2>6, <3>2, ConcatAssociative
    <3> QED
      BY <2>4, <3>3, <3>4
  <2>9. Ready'
    <3>1. Good(unodes, Append(stack, c), numstack \o <<b, s>> \o <<[k |-> "cont", v |-> cont]>>, "repeat_followup")
      BY <2>5, <2>7, <2>8 DEF Cell
    <3> QED
      BY <1>1, <2>1, <3>1 DEF SaveNum, Ready, Cont
  <2>10. next \in Regs /\ next.current_unode = r.current_unode
    <3>1. (r.status \ ({"VALUE_OK"} \cup NoTails)) \cup (IF r.tailcall = 0 THEN {"NO_VALUE_OK"} ELSE {}) \in StatusSet
      BY <1>3 DEF StatusSet, Regs
    <3> QED
      BY <1>3, <3>1 DEF Regs
  <2> HIDE DEF next
  <2> QED
    BY <1>1, <1>2, <1>3, <1>4, <2>1, <2>9, <2>10, Begins, TypesHere
<1> QED
  BY <1>5, <1>6

LEMMA RepeatFollowupStep ==
  ASSUME Inv, RepeatFollowup
  PROVE  Inv'
<1> DEFINE n == numstack[Len(numstack) - 1].v
           regs == Back(r, NumTop)
           u == r.current_unode
<1>1. /\ pc \in Cont /\ pc = "repeat_followup" /\ pc \notin Taker
      /\ list' = Last(stack).v /\ stack' = Front(stack) /\ numstack' = Pop(numstack, 2)
      /\ UNCHANGED <<prog, expresn, cont, unodes>>
      /\ sig' \in {Error, Settled(u)}
      /\ \/ val' = ReceivedVal(u) /\ r' = [regs EXCEPT !.repcount = n] /\ pc' = "repeat_done"
         \/ val' = Unbound /\ r' = [regs EXCEPT !.repcount = n - 1] /\ pc' \in {"repeat_again", "repeat_done"}
  BY DEF RepeatFollowup, Cont, Taker
<1>2. /\ Framed(unodes, "repeat_followup", cont, stack, numstack)
      /\ val \in Result /\ sig.flag # "MACRO_RETURN"
  BY <1>1, FramedHere
<1>3. /\ Counting(unodes, cont, Front(stack), Pop(numstack, 2)) /\ cont \in Cont \ {"after_const_arg"}
      /\ Last(stack).v \in Seq(Exp) /\ n \in 1 .. Times /\ NumTop \in StatusCell
  BY <1>2, PopRepeat, TypesHere DEF NumTop
<1>4. Counting(unodes, cont, stack, numstack)'
  BY <1>1, <1>3
<1>5. /\ ReceivedVal(u) \in Result /\ Settled(u) \in Signal /\ Settled(u).unode = sig.unode
      /\ Settled(u).flag # "MACRO_RETURN"
  BY <1>2, Settle DEF Inv
<1>6. sig' \in Signal /\ sig'.unode <= unodes /\ sig'.flag # "MACRO_RETURN"
  BY <1>1, <1>5, Errors, TypesHere DEF Inv
<1>7. regs \in Regs /\ regs.current_unode <= unodes
  BY <1>3, BackTypes, TypesHere
<1>8. n \in 0 .. Times /\ n - 1 \in 0 .. Times
  BY <1>3, TimesAssumption
<1> HIDE DEF n, regs
<1>9. r' \in Regs /\ r'.current_unode <= unodes
  BY <1>1, <1>7, <1>8 DEF Regs
<1>10. val' \in Result /\ val' \in Values
  BY <1>1, <1>5, Results
<1> QED
  BY <1>1, <1>3, <1>4, <1>6, <1>9, <1>10, Counts, TypesHere DEF InRepeat

LEMMA RepeatDoneStep ==
  ASSUME Inv, RepeatDone
  PROVE  Inv'
<1>1. /\ pc = "repeat_done" /\ pc \in InRepeat /\ pc' = "fetch_cont"
      /\ r' = [r EXCEPT !.repcount = NumTop] /\ numstack' = Front(numstack)
      /\ UNCHANGED <<prog, expresn, val, list, stack, cont, sig, unodes>>
  BY DEF RepeatDone, InRepeat
<1>2. /\ Counting(unodes, cont, stack, numstack) /\ cont \in Cont \ {"after_const_arg"}
      /\ val \in Result /\ sig.flag # "MACRO_RETURN"
  BY <1>1, CountedHere
<1>3. PICK nms : \E n \in 0 .. Times : Good(unodes, stack, nms, cont) /\ numstack = nms \o <<Cell("repcount", n)>>
  BY <1>2 DEF Counting
<1>0. PICK n \in 0 .. Times : Good(unodes, stack, nms, cont) /\ numstack = nms \o <<Cell("repcount", n)>>
  BY <1>3
<1>4. Last(numstack) = Cell("repcount", n) /\ Front(numstack) = nms
  <2>1. nms \in Seq(NumCell)
    BY <1>0, GoodType, TypesHere
  <2>2. Cell("repcount", n) \in NumCell
    <3>1. "repcount" \in NumKind /\ n \in NumValue
      BY DEF NumKind, NumValue
    <3> QED
      BY <3>1, CellType DEF NumCell
  <2> DEFINE c == Cell("repcount", n)
  <2>3. numstack = nms \o <<c>> /\ c \in NumCell
    BY <1>0, <2>2
  <2> HIDE DEF c
  <2>4. Last(numstack) = c /\ Front(numstack) = nms
    BY <2>1, <2>3, ConcatLast
  <2> QED
    BY <2>4 DEF c
<1>5. Ready'
  BY <1>0, <1>1, <1>2, <1>4 DEF Ready
<1>6. r' \in Regs /\ r'.current_unode <= unodes
  <2>1. NumTop = n
    BY <1>4 DEF NumTop, Cell
  <2> QED
    BY <1>1, <2>1, TypesHere DEF Regs
<1> QED
  BY <1>1, <1>2, <1>5, <1>6, Returns, TypesHere

LEMMA BeginApplyStep ==
  ASSUME Language, Inv, BeginApply
  PROVE  Inv'
<1> DEFINE c == Cell("var", "var_stack")
           template == val.l[1]
           empty == template = ListOf(<<>>)
<1>1. /\ pc = "begin_apply" /\ pc \in Place /\ val' = Unbound
      /\ UNCHANGED <<prog, expresn, list, sig, unodes>>
      /\ IF r.tailcall <= 0 /\ ~empty
         THEN stack' = Append(stack, c) /\ NewCont("after_lambda")
         ELSE UNCHANGED stacks
      /\ IF template.t = "word"
         THEN r' = [r EXCEPT !.fun = template.w, !.argl = <<>>] /\ pc' = "apply_dispatch"
         ELSE IF empty THEN UNCHANGED r /\ pc' = "fetch_cont"
         ELSE /\ r' = [r EXCEPT !.argl = <<>>, !.unev = template.l,
                       !.status = IF r.tailcall <= 0 THEN @ \ NoTails ELSE @]
              /\ pc' = "eval_sequence"
  BY DEF BeginApply, Place
<1>2. Ready /\ unodes \in Nat /\ sig.flag = "RUN" /\ r \in Regs /\ r.current_unode <= unodes
  BY <1>1, PlaceHere, TypesHere
<1>3. PICK args : val = ListOf(args) /\ Fitting(pc, args)
  BY <1>1, PlaceHere
<1>4. template \in Val /\ (template.t = "list" \/ (template.t = "word" /\ template.w \in Proc))
  <2>1. args \in Seq(Val) /\ Len(args) = 1 /\ (args[1].t = "list" \/ (args[1].t = "word" /\ args[1].w \in Proc))
    BY <1>1, <1>3 DEF Fitting
  <2>2. args[1] \in Val
    BY <2>1, ElementOfSeq
  <2>3. template = args[1]
    BY <1>1, <1>3 DEF ListOf
  <2> HIDE DEF template
  <2> QED
    BY <2>1, <2>2, <2>3
<1> HIDE DEF template
<1>5. /\ template.t = "word" => ~empty /\ template.w \in Proc
      /\ template.t # "word" => template = ListOf(template.l) /\ template.l \in Seq(Exp)
  BY <1>4 DEF Language, ListOf
<1>6. Ready' /\ (~empty /\ r.tailcall <= 0 => cont' \in Taker)
  <2>1. CASE r.tailcall <= 0 /\ ~empty
    <3>1. stack' = Append(stack, c) /\ NewCont("after_lambda")
      BY <1>1, <2>1
    <3>2. cont \in Taker
      BY <1>1, <2>1 DEF Inv, Inputting
    <3>3. Frame(unodes, "after_lambda", cont, <<c>>, <<>>)
      BY <1>2, <3>2 DEF Frame, Ready
    <3> HIDE DEF c
    <3>4. Good(unodes, Append(stack, c), Append(numstack, [k |-> "cont", v |-> cont]), "after_lambda")
      BY <1>2, <3>3, PushCell DEF Ready
    <3> QED
      BY <1>1, <3>1, <3>4 DEF NewCont, Ready, Cont, Taker
  <2>2. CASE ~(r.tailcall <= 0 /\ ~empty)
    BY <1>1, <1>2, <2>2, ReadyStays
  <2> QED
    BY <2>1, <2>2
<1> HIDE DEF empty, c
<1>7. <<>> \in Seq(Val)
  BY SeqTypes
<1>8. CASE template.t = "word"
  <2>1. r' = [r EXCEPT !.fun = template.w, !.argl = <<>>] /\ pc' = "apply_dispatch"
    BY <1>1, <1>8
  <2>2. /\ r' \in Regs /\ r'.current_unode = r.current_unode /\ r'.tailcall = r.tailcall
        /\ r'.fun \in Proc
    <3>1. template.w \in Fun /\ template.w \in Proc
      BY <1>5, <1>8 DEF Fun, Ufun
    <3> HIDE DEF Ready
    <3> QED
      BY <1>2, <1>7, <2>1, <3>1 DEF Regs
  <2>3. pc' \in Free
    BY <2>1, FreeLabels
  <2>4. Typed'
    BY <1>1, <2>1, <2>2, TypesHere, Results DEF Inv, Typed, Labels
  <2>5. Stacked'
    BY <1>6, <2>3, StackedThere DEF Ready
  <2>6. Valued'
    BY <1>1, <1>2, <2>1 DEF Valued, ToMacroReturn, Settling, Cont, Plain, Place
  <2>7. Flagged'
    BY <1>1, <1>2, <2>1 DEF Flagged
  <2>8. Inputting'
    <3>1. MacroGoesTo(r.fun, r.tailcall, cont)'
      BY <1>5, <1>6, <1>8, <2>2 DEF MacroGoesTo
    <3> QED
      BY <1>6, <2>1, <2>2, <3>1 DEF Inputting, Calling, Ready
  <2> QED
    BY <2>4, <2>5, <2>6, <2>7, <2>8 DEF Inv
<1>9. CASE template.t # "word" /\ empty
  <2>1. UNCHANGED r /\ pc' = "fetch_cont"
    BY <1>1, <1>9
  <2> QED
    BY <1>1, <1>2, <1>6, <2>1, Results, Returns, TypesHere
<1>10. CASE template.t # "word" /\ ~empty
  <2> DEFINE status == IF r.tailcall <= 0 THEN r.status \ NoTails ELSE r.status
  <2>1. /\ r' = [r EXCEPT !.argl = <<>>, !.unev = template.l, !.status = status]
        /\ pc' = "eval_sequence"
    BY <1>1, <1>10
  <2>2. template.l \in Seq(Exp) /\ template.l # <<>>
    BY <1>5, <1>10 DEF empty
  <2>3. status \in StatusSet
    BY <1>2 DEF StatusSet, Regs
  <2> HIDE DEF status
  <2>4. r' \in Regs /\ r'.current_unode = r.current_unode /\ r'.unev # <<>>
    BY <1>2, <1>7, <2>1, <2>2, <2>3 DEF Regs
  <2> QED
    BY <1>1, <1>2, <1>6, <2>1, <2>4, Results, Begins, TypesHere
<1> QED
  BY <1>8, <1>9, <1>10

-----------------------------------------------------------------------------
(* The evaluator. *)

LEMMA InitInv ==
  ASSUME Language, Init
  PROVE  Inv
<1> DEFINE regs == [argl |-> <<>>, unev |-> <<>>, fun |-> "none", ufun |-> "none",
                    last_ufun |-> "none", current_unode |-> 0, didnt_get_output |-> NotWanted,
                    status |-> {}, tailcall |-> 0, repcount |-> 0]
           c == Cell("regs", regs)
<1>1. /\ prog \in Program /\ pc = "begin_line" /\ expresn = Const(Unbound) /\ val = Unbound
      /\ list = prog.line /\ r = regs /\ stack = <<c>> /\ cont = "all_done"
      /\ numstack = <<Cell("cont", "none")>> /\ unodes = 0
      /\ sig = [flag |-> "RUN", tag |-> "none", out |-> Unbound, unode |-> 0]
  BY DEF Init
<1>2. regs \in Regs /\ regs.current_unode = 0
  <2>1. /\ <<>> \in Seq(Val) /\ <<>> \in Seq(Exp) /\ "none" \in Fun /\ "none" \in Ufun
        /\ NotWanted \in Getter /\ {} \in StatusSet /\ 0 \in 0 .. Times
    BY SeqTypes, TimesAssumption DEF Fun, Ufun, Getter, StatusSet
  <2> QED
    BY <2>1 DEF Regs
<1>3. Typed
  <2>1. sig \in Signal
    BY <1>1, Results DEF Signal, Tag
  <2>2. list \in Seq(Exp)
    BY <1>1 DEF Language
  <2> HIDE DEF regs
  <2> QED
    BY <1>1, <1>2, <2>1, <2>2, Results DEF Typed, Labels
<1>4. Good(unodes, stack, numstack, cont)
  <2>1. Good(0, <<>>, <<>>, "none")
    BY GoodEmpty
  <2> HIDE DEF regs
  <2>2. Frame(0, "all_done", "none", <<c>>, <<>>)
    BY <1>2 DEF Frame
  <2> HIDE DEF c
  <2>3. Good(0, <<>> \o <<c>>, Append(<<>>, [k |-> "cont", v |-> "none"]), "all_done")
    BY <2>1, <2>2, PushCells
  <2>4. <<>> \o <<c>> = <<c>> /\ Append(<<>>, [k |-> "cont", v |-> "none"]) = <<Cell("cont", "none")>>
    BY DEF Cell
  <2> QED
    BY <1>1, <2>3, <2>4
<1>5. Stacked
  BY <1>1, <1>4 DEF Stacked, Cont, Plain, InRepeat
<1>6. Valued
  BY <1>1, Results DEF Valued, ToMacroReturn, Settling, Cont, Plain, Place
<1>7. Flagged
  BY <1>1 DEF Flagged, Running, Place
<1>8. Inputting
  BY <1>1 DEF Inputting, Calling
<1> QED
  BY <1>3, <1>5, <1>6, <1>7, <1>8 DEF Inv

\* The invariant is inductive.
LEMMA NextInv ==
  ASSUME Language, Inv, [Next]_vars
  PROVE  Inv'
<1>1. CASE FetchCont \/ BeginLine \/ BeginSeq \/ EndLine \/ AllDone
  BY <1>1, FetchContStep, BeginLineStep, BeginSeqStep, EndLineStep, AllDoneStep
<1>2. CASE EvalDispatch \/ EvalArgLoop \/ ArgFromMacro \/ AccumulateArg \/ AfterConstArg \/ EvalArgsDone
  BY <1>2, EvalDispatchStep, EvalArgLoopStep, ArgFromMacroStep, AccumulateArgStep, AfterConstArgStep,
     EvalArgsDoneStep
<1>3. CASE ApplyDispatch \/ PrimitiveApply \/ LambdaApply
  BY <1>3, ApplyDispatchStep, PrimitiveApplyStep, LambdaApplyStep
<1>4. CASE SequenceCut \/ OutputInstr \/ OpWantStop \/ StopInstr \/ MaybeOutputInstr \/ AfterMaybeoutput
           \/ LastInstr \/ OtherInstr
  BY <1>4, SequenceCutStep, OutputInstrStep, OpWantStopStep, StopInstrStep, MaybeOutputInstrStep,
     AfterMaybeoutputStep, LastInstrStep, OtherInstrStep
<1>5. CASE FallOffWantOutput \/ NonTailEval \/ EvalSequenceContinue \/ AfterConstant
  BY <1>5, FallOffWantOutputStep, NonTailEvalStep, EvalSequenceContinueStep, AfterConstantStep
<1>6. CASE MacroReturn \/ RunresultContinuation \/ RunresultFollowup
  BY <1>6, MacroReturnStep, RunresultContinuationStep, RunresultFollowupStep
<1>7. CASE RepeatContinuation \/ RepeatAgain \/ RepeatFollowup \/ RepeatDone
  BY <1>7, RepeatContinuationStep, RepeatAgainStep, RepeatFollowupStep, RepeatDoneStep
<1>8. CASE CatchContinuation \/ CatchFollowup \/ BeginApply \/ AfterLambda
  BY <1>8, CatchContinuationStep, CatchFollowupStep, BeginApplyStep, AfterLambdaStep
<1>9. CASE Stopped \/ UNCHANGED vars
  <2>1. /\ UNCHANGED <<prog, pc, expresn, val, list, r, stack, cont, numstack, sig, unodes>>
    BY <1>9 DEF Stopped, vars
  <2>2. Typed' /\ Stacked'
    BY <2>1 DEF Inv, Typed, Stacked
  <2>3. Valued'
    BY <2>1 DEF Inv, Valued, ToMacroReturn, GoesOn
  <2>4. Flagged' /\ Inputting'
    BY <2>1 DEF Inv, Flagged, Inputting
  <2> QED
    BY <2>2, <2>3, <2>4 DEF Inv
<1> QED
  BY <1>1, <1>2, <1>3, <1>4, <1>5, <1>6, <1>7, <1>8, <1>9 DEF Next

-----------------------------------------------------------------------------
(* What it says of the stacks and the registers. *)

\* The stacks below a frame hold what the continuations to come take off them.
HeldIn(stk, nms, below, cells, nums) ==
    LET held == With(Expected(nms), below)
    IN  Kinds(stk) = held.regs \o cells /\ Kinds(nms) = held.nums \o nums
LEMMA Held ==
  ASSUME NEW u \in Nat, NEW stk, NEW nms, NEW below, Good(u, stk, nms, below),
         NEW cells \in Seq(StackCell), NEW nums \in Seq(NumCell),
         NEW stk1, stk1 = stk \o cells, NEW nms1, nms1 = nms \o nums, Expected(nms1) = Expected(nms)
  PROVE  HeldIn(stk1, nms1, below, Kinds(cells), Kinds(nums))
<1>1. Kinds(stk) = With(Expected(nms), below).regs /\ Kinds(nms) = With(Expected(nms), below).nums
  BY GoodMatches DEF Matches
<1>2. stk \in Seq(StackCell) /\ nms \in Seq(NumCell)
  BY GoodType
<1>3. Kinded(StackCell, StackKind) /\ Kinded(NumCell, NumKind)
  BY DEF StackCell, NumCell, Kinded
<1>4. Kinds(stk \o cells) = Kinds(stk) \o Kinds(cells)
  BY <1>2, <1>3, KindsConcat
<1>5. Kinds(nms \o nums) = Kinds(nms) \o Kinds(nums)
  BY <1>2, <1>3, KindsConcat
<1> QED
  BY <1>1, <1>4, <1>5 DEF HeldIn

LEMMA InvMatches ==
  ASSUME Inv
  PROVE  StacksMatch
<1>1. unodes \in Nat
  BY TypesHere
<1>2. CASE pc \in Cont
  <2>1. PICK stk0, nms0, cells, nums :
            /\ Good(unodes, stk0, nms0, cont)
            /\ Frame(unodes, pc, cont, cells, nums)
            /\ stack = stk0 \o cells /\ numstack = nms0 \o nums
    BY <1>2, FramedHere DEF Framed
  <2>2. Kinds(cells) = Saved(pc) /\ Kinds(nums) = SavedNums(pc)
    BY <2>1, FrameKinds
  <2>3. cells \in Seq(StackCell) /\ nums \in Seq(NumCell) /\ nms0 \in Seq(NumCell)
    BY <1>1, <2>1, FrameType, GoodType
  <2>4. Expected(nms0 \o nums) = Expected(nms0)
    BY <1>1, <2>1, <2>3, ExpectedNums
  <2>5. HeldIn(stack, numstack, cont, Kinds(cells), Kinds(nums))
    BY <1>1, <2>1, <2>3, <2>4, Held
  <2> QED
    BY <2>2, <2>5 DEF StacksMatch, HeldIn
<1>3. CASE pc \in InRepeat
  <2>1. Counting(unodes, cont, stack, numstack)
    BY <1>3, CountedHere
  <2>2. PICK nms0 : \E n \in 0 .. Times : Good(unodes, stack, nms0, cont) /\ numstack = nms0 \o <<Cell("repcount", n)>>
    BY <2>1 DEF Counting
  <2>3. PICK n \in 0 .. Times : Good(unodes, stack, nms0, cont) /\ numstack = nms0 \o <<Cell("repcount", n)>>
    BY <2>2
  <2> DEFINE c == Cell("repcount", n)
  <2>4. c \in NumCell
    <3>1. "repcount" \in NumKind /\ n \in NumValue
      BY DEF NumKind, NumValue
    <3> QED
      BY <3>1, CellType DEF NumCell
  <2>5. nms0 \in Seq(NumCell) /\ stack \in Seq(StackCell)
    BY <1>1, <2>3, GoodType
  <2>6. Kinds(<<c>>) = <<"repcount">> /\ Kinds(<<>>) = <<>> /\ c.k # "cont"
    BY KindsOf DEF Cell
  <2>7. Saved(pc) = <<>> /\ SavedNums(pc) = <<"repcount">>
    BY <1>3 DEF InRepeat, Saved, SavedNums
  <2> HIDE DEF c
  <2>8. Expected(nms0 \o <<c>>) = Expected(nms0)
    BY <2>4, <2>5, <2>6, ExpectedAppend DEF Then
  <2>9. <<c>> \in Seq(NumCell) /\ <<>> \in Seq(StackCell) /\ stack \o <<>> = stack /\ numstack = nms0 \o <<c>>
    BY <2>3, <2>4, <2>5, SeqTypes, ConcatEmptySeq DEF c
  <2>10. HeldIn(stack, numstack, cont, Kinds(<<>>), Kinds(<<c>>))
    BY <1>1, <2>3, <2>8, <2>9, Held
  <2> QED
    BY <2>6, <2>7, <2>10 DEF StacksMatch, HeldIn
<1>4. CASE pc \notin Cont \cup InRepeat
  <2>1. Good(unodes, stack, numstack, cont)
    BY <1>4, GoodEmpty DEF Inv, Stacked
  <2>2. stack \in Seq(StackCell) /\ numstack \in Seq(NumCell) /\ <<>> \in Seq(StackCell) /\ <<>> \in Seq(NumCell)
    BY <1>1, <2>1, GoodType, SeqTypes
  <2>3. stack \o <<>> = stack /\ numstack \o <<>> = numstack
    BY <2>2, ConcatEmptySeq
  <2>4. HeldIn(stack, numstack, cont, Kinds(<<>>), Kinds(<<>>))
    BY <1>1, <2>1, <2>2, <2>3, Held
  <2>5. Saved(pc) = <<>> /\ SavedNums(pc) = <<>> /\ Kinds(<<>>) = <<>>
    BY <1>4, KindsOf DEF Cont, InRepeat, Saved, SavedNums
  <2> QED
    BY <2>4, <2>5 DEF StacksMatch, HeldIn
<1> QED
  BY <1>2, <1>3, <1>4

LEMMA InvTypes ==
  ASSUME Language, Inv
  PROVE  TypeOK
<1>1. unodes \in Nat /\ pc \in Labels
  BY DEF Inv, Typed
<1>2. cont \in Labels \cup {"none"}
  <2>1. cont \in Cont \cup {"none"}
    <3>1. CASE pc \in Cont
      <4>1. PICK stk0, nms0 : Good(unodes, stk0, nms0, cont)
        BY <3>1, FramedHere DEF Framed
      <4> QED
        BY <1>1, <4>1, GoodType
    <3>2. CASE pc \in InRepeat
      BY <3>2, CountedHere
    <3>3. CASE pc \notin Cont \cup InRepeat
      <4>1. Good(unodes, stack, numstack, cont)
        BY <3>3, GoodEmpty DEF Inv, Stacked
      <4> QED
        BY <1>1, <4>1, GoodType
    <3> QED
      BY <3>1, <3>2, <3>3
  <2> QED
    BY <2>1 DEF Cont, Plain, Labels
<1>3. val.t \in {"unbound", "word", "list", "cont"}
  <2>1. val \in Values
    BY TypesHere
  <2>2. \A v \in Val : v.t \in {"word", "list"}
    BY DEF Language
  <2> QED
    BY <2>1, <2>2 DEF Values, Result, Unbound, ListOf, ContOf
<1>4. /\ sig.flag \in {"RUN", "STOP", "OUTPUT", "THROWING", "MACRO_RETURN"} /\ sig.unode \in 0 .. unodes
  BY TypesHere DEF Signal
<1>5. /\ r.status \subseteq {"VALUE_OK", "NO_VALUE_OK", "OUTPUT_OK", "STOP_OK", "OUTPUT_TAIL", "STOP_TAIL"}
      /\ r.tailcall \in {-1, 0, 1} /\ r.current_unode \in 0 .. unodes /\ r.repcount \in 0 .. Times
  BY TypesHere DEF Regs, StatusSet
<1>6. r.didnt_get_output.k \in {"unbound", "nil", "wanted", "the_generation"}
  <2>1. r.didnt_get_output \in Getter
    BY TypesHere DEF Regs
  <2> QED
    BY <2>1 DEF Getter, NotWanted, MayCome, WantedByMacro, Wanted
<1> QED
  BY <1>1, <1>2, <1>3, <1>4, <1>5, <1>6 DEF TypeOK

\* The registers fit the label the evaluator is at, and the stacks were made by
\* pushing the frames of the continuations to come: whatever a continuation takes
\* off the stacks is what was saved for it (eval.c:133).
THEOREM EvaluatorInvariant ==
  ASSUME Language
  PROVE  Spec => []Inv
<1>1. Init => Inv
  BY InitInv
<1>2. Inv /\ [Next]_vars => Inv'
  BY NextInv
<1> QED
  BY <1>1, <1>2, PTL DEF Spec

\* At every label of every evaluation the registers have their types, and the two
\* stacks hold what the continuations to come take off them, in order and no more
\* (save, restore and newcont, eval.c:133): an expression that ends early, by an
\* error, a THROW, an OUTPUT or a STOP from any depth, leaves what it found.
THEOREM StacksAlwaysMatch ==
  ASSUME Language
  PROVE  Spec => []EvalInv
<1>1. Spec => []Inv
  BY EvaluatorInvariant
<1>2. Inv => EvalInv
  BY InvMatches, InvTypes DEF EvalInv
<1> QED
  BY <1>1, <1>2, PTL

\* A list that a macro returned is marked by the stopping flag and nothing else, so
\* that any continuation that does not look for MACRO_RETURN takes it for the value
\* of the call.  The end of a line, of a list of REPEAT, RUNRESULT or CATCH, and of
\* another macro never see one (eval.c:1206): where they wait, a macro is called
\* with tailcall set, and its list is run in its place.
MacroListIsTaken ==
    sig.flag = "MACRO_RETURN" =>
        /\ val.t = "list"
        /\ pc \in Taker \/ (pc = "fetch_cont" /\ cont \in Taker)

\* So it is for every program of the language.
THEOREM MacroListsAreTaken ==
  ASSUME Language
  PROVE  Spec => []MacroListIsTaken
<1>1. Spec => []Inv
  BY EvaluatorInvariant
<1>2. Inv => MacroListIsTaken
  BY DEF Inv, Flagged, MacroListIsTaken
<1> QED
  BY <1>1, <1>2, PTL
================================================================================
