------------------------------ MODULE EvalMeaning ------------------------------
(***************************************************************************)
(* What a program means, without registers, stacks or tail calls: one      *)
(* recursive definition over expressions, after the Reference Manual's     *)
(* chapter on control structures.  The evaluator must agree with it.       *)
(***************************************************************************)
EXTENDS Evaluator

\* What became of an expression: a value, nothing, or it ended a procedure or was
\* thrown; and what has been printed since the program began.
Became(kind, v, tag, out) == [kind |-> kind, v |-> v, tag |-> tag, out |-> out]
ErrorAfter(out) == Became("throw", Unbound, "error", out)
NoneAfter(out) == Became("none", Unbound, "none", out)
ValueAfter(v, out) == Became("value", v, "none", out)

\* An expression is for "value", "nothing" or "either"; in a call of c.proc, whose
\* caller is after c.want; c.arg: it is, or is run in, an input of a procedure.
Context(proc, want) == [proc |-> proc, want |-> want, arg |-> FALSE]

RECURSIVE Eval(_, _, _, _), EvalSeq(_, _, _, _), EvalTimes(_, _, _, _)

\* A call of procedure f by someone who is after `for'.
Call(f, for, out) ==
    LET b == EvalSeq(prog.body[f], "nothing", Context(f, for), out)
    IN  CASE b.kind = "output" -> ValueAfter(b.v, b.out)
          [] b.kind = "stop" -> NoneAfter(b.out)
          [] OTHER -> b

\* A list in the place of a call: as an input it has to be one expression.
Run(l, for, c, out) ==
    IF c.arg /\ for = "value" /\ Len(l) # 1 THEN ErrorAfter(out) ELSE EvalSeq(l, for, c, out)

\* An input: there has to be a value.
Input(e, c, out) ==
    LET i == Eval(e, "value", [c EXCEPT !.arg = TRUE], out)
    IN  IF i.kind = "none" THEN ErrorAfter(i.out) ELSE i

\* A value that nobody is after is an error where the expression was evaluated.
For(for, b) == IF b.kind = "value" /\ for = "nothing" THEN ErrorAfter(b.out) ELSE b

Ending(kind, v, c, out) ==
    IF c.proc = "none" \/ c.arg \/ c.want = (IF kind = "stop" THEN "value" ELSE "nothing")
    THEN ErrorAfter(out) ELSE Became(kind, v, "none", out)

Eval(e, for, c, out) ==
    LET i == Input(e.args[1], c, out)
        arg == e.args[1].v
    IN  CASE e.op = "const" -> For(for, ValueAfter(e.v, out))
          [] e.op = "print" ->
                 IF i.kind # "value" THEN i ELSE NoneAfter(Append(i.out, i.v))
          [] e.op = "throw" ->
                 Became("throw", IF Len(e.args) = 2 /\ arg.w # "error" THEN e.args[2].v
                                 ELSE Unbound, arg.w, out)
          [] e.op = "output" ->
                 IF i.kind # "value" THEN i ELSE Ending("output", i.v, c, i.out)
          [] e.op = "stop" -> Ending("stop", Unbound, c, out)
          [] e.op = ".maybeoutput" ->
                 IF c.proc = "none" THEN ErrorAfter(out)
                 ELSE IF c.arg THEN (IF i.kind # "value" THEN i ELSE ErrorAfter(i.out))
                 ELSE LET m == IF c.want = "value" THEN i
                               ELSE Eval(e.args[1], c.want, [c EXCEPT !.arg = TRUE], out)
                      IN  CASE m.kind = "value" -> Became("output", m.v, "none", m.out)
                            [] m.kind = "none" -> Became("stop", Unbound, "none", m.out)
                            [] OTHER -> m
          [] e.op = "run" -> Run(arg.l, for, c, out)
          [] e.op = "runresult" ->
                 LET b == EvalSeq(arg.l, "either", Context(c.proc, "either"), out)
                 IN  CASE b.kind = "value" -> For(for, ValueAfter(ListOf(<<Const(b.v)>>), b.out))
                       [] b.kind = "none" -> For(for, ValueAfter(ListOf(<<>>), b.out))
                       [] b.kind = "throw" -> b
                       [] OTHER -> ErrorAfter(b.out)
          [] e.op = "repeat" -> EvalTimes(Times, arg.l, c, out)
          [] e.op = "catch" ->
                 LET b == EvalSeq(e.args[2].v.l, for, c, out)
                 IN  IF b.kind = "throw" /\ b.tag = arg.w
                     THEN IF b.v = Unbound THEN NoneAfter(b.out)
                          ELSE For(for, ValueAfter(b.v, b.out))
                     ELSE b
          [] e.op = "apply" ->
                 IF arg.t = "word" THEN Eval([op |-> arg.w, args |-> <<>>], for, c, out)
                 ELSE EvalSeq(arg.l, for, c, out)
          [] e.op \in Macro ->
                 LET m == Call(e.op, "value", out)
                 IN  IF m.kind = "throw" THEN m
                     ELSE IF m.kind = "none" \/ m.v.t # "list" THEN ErrorAfter(m.out)
                     ELSE Run(m.v.l, for, c, m.out)
          [] OTHER -> For(for, Call(e.op, for, out))

\* All but the last for nothing.
EvalSeq(l, for, c, out) ==
    IF l = <<>> THEN NoneAfter(out)
    ELSE IF Len(l) = 1 THEN Eval(l[1], for, c, out)
    ELSE LET b == Eval(l[1], "nothing", c, out)
         IN  IF b.kind = "none" THEN EvalSeq(Tail(l), for, c, b.out) ELSE b

EvalTimes(n, l, c, out) ==
    IF n = 0 THEN NoneAfter(out)
    ELSE LET b == EvalSeq(l, "nothing", c, out)
         IN  IF b.kind = "none" THEN EvalTimes(n - 1, l, c, b.out) ELSE b

-----------------------------------------------------------------------------
\* Where the evaluator stops, it has printed what the program prints and ended as
\* the program ends: well, or with an error or a THROW nobody caught; and an error
\* has always had someone to blame.  Tail calls, lists spliced by RUN, the registers
\* calls share, and OUTPUTs passed on by several continuations do not show.
Meaning ==
    pc \in {"done", "no one to blame"} =>
        LET b == EvalSeq(prog.line, "nothing", Context("none", "nothing"), <<>>)
        IN  /\ pc = "done"
            /\ log = b.out
            /\ (sig.flag = "THROWING") = (b.kind = "throw")
            /\ sig.flag = "THROWING" => sig.tag = b.tag
=============================================================================
