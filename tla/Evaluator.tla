------------------------------- MODULE Evaluator -------------------------------
(***************************************************************************)
(* The explicit control evaluator of eval.c: registers, a stack of saved   *)
(* registers, a stack of continuations and saved numbers, and one step for *)
(* every label.  (Variables are in module Scope; there are none here.)     *)
(*                                                                         *)
(* Most of the complexity is in knowing what an expression is evaluated    *)
(* for: val_status says whether a value, an OUTPUT or a STOP is all right  *)
(* where the evaluator is; didnt_get_output, who waits for a value;        *)
(* current_unode, which procedure call is running, and output_unode, which *)
(* one an OUTPUT or STOP under way is to end.  A tail call saves nothing,  *)
(* so these registers are shared by the calls it chains together.          *)
(*                                                                         *)
(* An expression is a record with an operation and a list of arguments; a  *)
(* constant is an expression with a value.  A list is a sequence of        *)
(* expressions, so that RUN and its kin can run it.                        *)
(***************************************************************************)
EXTENDS Integers, Sequences, SequencesExt

CONSTANTS
    Program,  \* programs: a line for the top level, and procedure bodies
    Macro,    \* the names of user-defined macros
    Times     \* the first input of every REPEAT

ASSUME TimesAssumption == Times \in Nat

VARIABLES
    prog,      \* the program
    pc,        \* the label
    expresn,   \* register
    val,       \* register
    list,      \* register
    r,         \* the registers that eval_save saves
    stack,     \* control stack of registers
    cont,      \* continuation register
    numstack,  \* control stack of continuations and numbers
    sig,       \* stopping_flag, throw_node, output_node and output_unode
    unodes,    \* the number of procedure calls so far
    log        \* what has been printed

vars == <<prog, pc, expresn, val, list, r, stack, cont, numstack, sig, unodes, log>>
stacks == <<stack, cont, numstack>>

-----------------------------------------------------------------------------
(* Values and registers. *)

Unbound == [t |-> "unbound"]
Word(w) == [t |-> "word", w |-> w]
ListOf(l) == [t |-> "list", l |-> l]
ContOf(label, args) == [t |-> "cont", label |-> label, args |-> args]
Const(v) == [op |-> "const", v |-> v]
IsConst(e) == e.op = "const"

TailForm == {"output", "stop", ".maybeoutput"}
PrimMacro == {"run", "runresult", "repeat", "catch", "apply"}
Primitive == TailForm \cup PrimMacro \cup {"print", "throw"}
IsMacro(f) == f \in Macro \cup PrimMacro

\* didnt_get_output: UNBOUND (a value is not wanted), NIL (it may come or not), or
\* who wants it, with the procedure that was running.
NotWanted == [k |-> "unbound"]
MayCome == [k |-> "nil"]
Wanted(u) == [k |-> "wanted", ufun |-> u]
WantedByMacro == [k |-> "the_generation"]

NotThrowing == sig.flag # "THROWING"
Thrown(tag, v) == [sig EXCEPT !.flag = "THROWING", !.tag = tag, !.out = v]
Error == Thrown("error", Unbound)

NewCont(label) ==
    /\ cont' = label
    /\ numstack' = Append(numstack, [k |-> "cont", v |-> cont])
\* num2save, then newcont
SaveNum(nums, label) ==
    /\ cont' = label
    /\ numstack' = numstack \o nums \o <<[k |-> "cont", v |-> cont]>>
Cell(k, v) == [k |-> k, v |-> v]
Pop(s, n) == SubSeq(s, 1, Len(s) - n)
Status == [status |-> r.status, tailcall |-> r.tailcall]

Init ==
    /\ prog \in Program
    /\ pc = "begin_line"
    /\ expresn = Const(Unbound)
    /\ val = Unbound
    /\ list = prog.line
    /\ r = [argl |-> <<>>, unev |-> <<>>, fun |-> "none", ufun |-> "none",
            last_ufun |-> "none", current_unode |-> 0, didnt_get_output |-> NotWanted,
            status |-> {}, tailcall |-> 0, repcount |-> 0]
    /\ stack = <<Cell("regs", r)>>
    /\ cont = "all_done"
    /\ numstack = <<Cell("cont", "none")>>
    /\ sig = [flag |-> "RUN", tag |-> "none", out |-> Unbound, unode |-> 0]
    /\ unodes = 0
    /\ log = <<>>

-----------------------------------------------------------------------------
(* The top: a line, a sequence, the end of it. *)

FetchCont ==
    /\ pc = "fetch_cont"
    /\ pc' = cont
    /\ cont' = Last(numstack).v
    /\ numstack' = Front(numstack)
    /\ UNCHANGED <<prog, expresn, val, list, r, stack, sig, unodes, log>>

BeginLine ==
    /\ pc = "begin_line"
    /\ r' = [r EXCEPT !.status = {"NO_VALUE_OK"}]
    /\ NewCont("end_line")
    /\ pc' = "begin_seq"
    /\ UNCHANGED <<prog, expresn, val, list, stack, sig, unodes, log>>

BeginSeq ==
    /\ pc = "begin_seq"
    /\ IF list = <<>>
       THEN val' = Unbound /\ pc' = "fetch_cont" /\ UNCHANGED r
       ELSE r' = [r EXCEPT !.unev = list] /\ pc' = "eval_sequence" /\ UNCHANGED val
    /\ UNCHANGED <<prog, expresn, list, stacks, sig, unodes, log>>

EndLine ==
    /\ pc = "end_line"
    /\ sig' = IF val # Unbound /\ NotThrowing THEN Error ELSE sig
    /\ pc' = "fetch_cont"
    /\ UNCHANGED <<prog, expresn, val, list, r, stacks, unodes, log>>

AllDone ==
    /\ pc = "all_done"
    /\ r' = Last(stack).v
    /\ stack' = Front(stack)
    /\ pc' = "done"
    /\ UNCHANGED <<prog, expresn, val, list, cont, numstack, sig, unodes, log>>

-----------------------------------------------------------------------------
(* Eval: one expression. *)

EvalDispatch ==
    /\ pc = "eval_dispatch"
    /\ IF IsConst(expresn)
       THEN val' = expresn.v /\ pc' = "fetch_cont" /\ UNCHANGED r
       ELSE /\ UNCHANGED val
            /\ IF r.tailcall = 1 /\ expresn.op \in Macro
               THEN r' = [r EXCEPT !.unev = <<>>] /\ pc' = "non_tail_eval"
               ELSE /\ r' = [r EXCEPT !.fun = expresn.op, !.argl = <<>>,
                                      !.unev = expresn.args]
                    /\ pc' = "eval_arg_loop"
    /\ UNCHANGED <<prog, expresn, list, stacks, sig, unodes, log>>

EvalArgLoop ==
    /\ pc = "eval_arg_loop"
    /\ IF r.unev = <<>>
       THEN pc' = "eval_args_done" /\ UNCHANGED expresn
       ELSE pc' = "arg_from_macro" /\ expresn' = Head(r.unev)
    /\ UNCHANGED <<prog, val, list, r, stacks, sig, unodes, log>>

ArgFromMacro ==
    /\ pc = "arg_from_macro"
    /\ pc' = "eval_dispatch"
    /\ IF IsConst(expresn)
       THEN NewCont("after_const_arg") /\ UNCHANGED <<stack, r>>
       ELSE /\ NewCont("accumulate_arg")
            /\ stack' = stack \o <<Cell("regs", r), Cell("current_unode", r.current_unode)>>
            /\ r' = [r EXCEPT !.tailcall = -1, !.didnt_get_output = Wanted(r.ufun),
                              !.status = {"VALUE_OK"}]
    /\ UNCHANGED <<prog, expresn, val, list, sig, unodes, log>>

\* Back in the call u: an OUTPUT or STOP that was for another call has arrived.
\* Mutant: whoever comes first takes it.
Received_ByAnyone(u) == sig.flag \in {"OUTPUT", "STOP"}
Received(u) == u # sig.unode /\ sig.flag \in {"OUTPUT", "STOP"}
ReceivedVal(u) ==
    IF ~Received(u) THEN val ELSE IF sig.flag = "STOP" THEN Unbound ELSE sig.out
Settled(u) ==
    IF Received(u) THEN [sig EXCEPT !.flag = "RUN", !.out = ReceivedVal(u)]
    ELSE IF u # sig.unode /\ sig.flag = "RUN" THEN [sig EXCEPT !.out = Unbound] ELSE sig

\* err_logo(DIDNT_OUTPUT, NIL) looks for the procedure to blame in
\* didnt_get_output, which has to be there, and makes it ufun.
Blame(regs, next) ==
    LET d == regs.didnt_get_output
    IN  IF d.k = "wanted" THEN pc' = next /\ r' = [regs EXCEPT !.ufun = d.ufun]
                          ELSE pc' = "no one to blame" /\ r' = regs

AccumulateArg ==
    /\ pc = "accumulate_arg"
    /\ LET u == Last(stack).v
           s == Settled(u)
           v == ReceivedVal(u)
           back == r' = stack[Len(stack) - 1].v
       IN  /\ stack' = Pop(stack, 2)
           /\ val' = v
           /\ CASE s.flag \in {"OUTPUT", "STOP"} ->
                       sig' = Error /\ back /\ pc' = "after_const_arg" /\ UNCHANGED expresn
                [] s.flag = "RUN" /\ v = Unbound ->
                       /\ sig' = Error
                       /\ IF r.didnt_get_output.k = "wanted"
                          THEN back /\ pc' = "after_const_arg"
                          ELSE UNCHANGED r /\ pc' = "no one to blame"
                       /\ UNCHANGED expresn
                [] s.flag = "MACRO_RETURN" /\ Len(v.l) # 1 ->
                       sig' = Error /\ back /\ pc' = "eval_args_done" /\ UNCHANGED expresn
                [] s.flag = "MACRO_RETURN" /\ Len(v.l) = 1 ->
                       /\ back
                       /\ sig' = [s EXCEPT !.flag = "RUN"]
                       /\ expresn' = v.l[1]
                       /\ pc' = "arg_from_macro"
                [] OTHER -> sig' = s /\ back /\ pc' = "after_const_arg" /\ UNCHANGED expresn
    /\ UNCHANGED <<prog, list, cont, numstack, unodes, log>>

AfterConstArg ==
    /\ pc = "after_const_arg"
    /\ IF NotThrowing
       THEN /\ r' = [r EXCEPT !.argl = Append(@, val), !.unev = Tail(@)]
            /\ pc' = "eval_arg_loop"
       ELSE pc' = "eval_args_done" /\ UNCHANGED r
    /\ UNCHANGED <<prog, expresn, val, list, stacks, sig, unodes, log>>

EvalArgsDone ==
    /\ pc = "eval_args_done"
    /\ IF NotThrowing THEN pc' = "apply_dispatch" /\ UNCHANGED val
                      ELSE pc' = "fetch_cont" /\ val' = Unbound
    /\ UNCHANGED <<prog, expresn, list, r, stacks, sig, unodes, log>>

-----------------------------------------------------------------------------
(* Apply: a procedure or primitive to its inputs. *)

ApplyDispatch ==
    /\ pc = "apply_dispatch"
    /\ pc' = IF r.fun \in Primitive THEN "primitive_apply" ELSE "lambda_apply"
    /\ IF IsMacro(r.fun)
       THEN /\ SaveNum(<<Cell("status", Status)>>, "macro_return")
            /\ stack' = Append(stack, Cell("macro", [unode |-> r.current_unode, dgo |-> r.didnt_get_output]))
            /\ r' = [r EXCEPT !.didnt_get_output = WantedByMacro]
       ELSE UNCHANGED <<stacks, r>>
    /\ UNCHANGED <<prog, expresn, val, list, sig, unodes, log>>

\* loutput(v), with next to go to.
LOutput(v, next) ==
    IF ~NotThrowing THEN UNCHANGED <<sig, r>> /\ pc' = next
    ELSE IF r.ufun = "none" THEN sig' = Error /\ UNCHANGED r /\ pc' = next
    ELSE IF "OUTPUT_TAIL" \in r.status \/ "OUTPUT_OK" \notin r.status
    THEN /\ sig' = Error
         /\ Blame(IF r.didnt_get_output = NotWanted
                  THEN [r EXCEPT !.didnt_get_output = Wanted(r.ufun)] ELSE r, next)
    ELSE /\ sig' = [sig EXCEPT !.flag = "OUTPUT", !.out = v, !.unode = r.current_unode]
         /\ UNCHANGED r /\ pc' = next

\* lstop()
LStop(next) ==
    IF ~NotThrowing THEN UNCHANGED <<sig, r>> /\ pc' = next
    ELSE IF r.ufun = "none" THEN sig' = Error /\ UNCHANGED r /\ pc' = next
    ELSE IF "OUTPUT_TAIL" \in r.status \/ "STOP_OK" \notin r.status
    THEN sig' = Error /\ Blame(r, next)
    ELSE sig' = [sig EXCEPT !.flag = "STOP", !.unode = r.current_unode] /\ UNCHANGED r /\ pc' = next

\* lthrow: a tag, and possibly a value.
LThrow(args) ==
    IF args[1].w = "error" THEN Error
    ELSE Thrown(args[1].w, IF Len(args) = 2 THEN args[2] ELSE Unbound)

\* What the primitives that are macros return: RUN a list, the others where to
\* go on.
MacroVal(f, args) ==
    IF f = "run" THEN ListOf(args[1].l)
    ELSE ContOf(CASE f = "apply" -> "begin_apply"
                  [] f = "runresult" -> "runresult_continuation"
                  [] f = "repeat" -> "repeat_continuation"
                  [] f = "catch" -> "catch_continuation", args)

PrimitiveApply ==
    /\ pc = "primitive_apply"
    /\ val' = IF NotThrowing /\ r.fun \in PrimMacro THEN MacroVal(r.fun, r.argl) ELSE Unbound
    /\ log' = IF NotThrowing /\ r.fun = "print" THEN Append(log, r.argl[1]) ELSE log
    /\ CASE r.fun \in {"output", ".maybeoutput"} -> LOutput(r.argl[1], "fetch_cont")
         [] r.fun = "stop" -> LStop("fetch_cont")
         [] r.fun = "throw" /\ NotThrowing ->
                sig' = LThrow(r.argl) /\ UNCHANGED r /\ pc' = "fetch_cont"
         [] OTHER -> UNCHANGED <<sig, r>> /\ pc' = "fetch_cont"
    /\ UNCHANGED <<prog, expresn, list, stacks, unodes>>

\* What is all right in the body of a procedure, from who wants its output.
BodyStatus(d) ==
    CASE d = NotWanted -> {"NO_VALUE_OK", "STOP_OK", "STOP_TAIL"}
      [] d = MayCome -> {"NO_VALUE_OK", "STOP_OK", "STOP_TAIL", "OUTPUT_OK", "OUTPUT_TAIL"}
      [] OTHER -> {"OUTPUT_OK", "OUTPUT_TAIL"}

LambdaApply ==
    /\ pc = "lambda_apply"
    /\ IF ~NotThrowing
       THEN val' = Unbound /\ pc' = "fetch_cont" /\ UNCHANGED <<r, sig, unodes>>
       ELSE IF prog.body[r.fun] = <<>>
       THEN /\ r' = [r EXCEPT !.last_ufun = r.ufun, !.ufun = r.fun]
            /\ val' = Unbound /\ pc' = "fetch_cont" /\ UNCHANGED <<sig, unodes>>
       ELSE /\ unodes' = unodes + 1
            /\ r' = [r EXCEPT !.unev = prog.body[r.fun],
                              !.last_ufun = r.ufun, !.ufun = r.fun,
                              !.status = BodyStatus(r.didnt_get_output),
                              !.current_unode = unodes']
            /\ sig' = [sig EXCEPT !.flag = "RUN", !.out = Unbound]
            /\ pc' = "eval_sequence"
            /\ UNCHANGED val
    /\ UNCHANGED <<prog, expresn, list, stacks, log>>

-----------------------------------------------------------------------------
(* Eval_sequence: the next expression, and whether it is a tail call. *)

AtSequence == pc = "eval_sequence" /\ sig.flag = "RUN"
Next1 == Head(r.unev)
Popped == [r EXCEPT !.unev = Tail(@)]
TailDispatch(e, regs) ==
    /\ expresn' = e
    /\ r' = [regs EXCEPT !.tailcall = 1]
    /\ pc' = "eval_dispatch"

\* Not running: whoever comes next on the control stack has to deal with it.
SequenceCut ==
    /\ pc = "eval_sequence"
    /\ sig.flag # "RUN"
    /\ pc' = "fetch_cont"
    /\ UNCHANGED <<prog, expresn, val, list, r, stacks, sig, unodes, log>>

OutputInstr ==
    /\ AtSequence /\ Next1.op = "output"
    /\ LET e == Next1.args[1]
           wanted == [Popped EXCEPT !.didnt_get_output = Wanted(r.ufun),
                                    !.status = {"VALUE_OK"}]
       IN  IF "OUTPUT_TAIL" \in r.status
           THEN TailDispatch(e, [wanted EXCEPT !.fun = "output"])
                /\ UNCHANGED <<val, sig, stacks>>
           ELSE IF "OUTPUT_OK" \in r.status
           THEN TailDispatch(Next1, Popped) /\ UNCHANGED <<val, sig, stacks>>
           ELSE IF r.ufun = "none"
           THEN /\ sig' = Error /\ val' = Unbound /\ pc' = "fetch_cont"
                /\ r' = Popped /\ expresn' = Next1 /\ UNCHANGED stacks
           ELSE IF "STOP_OK" \in r.status
           THEN /\ expresn' = e /\ r' = wanted /\ pc' = "eval_dispatch"
                /\ NewCont("op_want_stop")
                /\ UNCHANGED <<val, sig, stack>>
           ELSE TailDispatch(Next1, Popped) /\ UNCHANGED <<val, sig, stacks>>
    /\ UNCHANGED <<prog, list, unodes, log>>

\* The error is the caller's: its line and name are blamed.
OpWantStop ==
    /\ pc = "op_want_stop"
    /\ IF NotThrowing
       THEN sig' = Error /\ r' = [r EXCEPT !.ufun = IF @ = "none" THEN @ ELSE r.last_ufun]
       ELSE UNCHANGED <<sig, r>>
    /\ pc' = "fetch_cont"
    /\ UNCHANGED <<prog, expresn, val, list, stacks, unodes, log>>

StopInstr ==
    /\ AtSequence /\ Next1.op = "stop"
    /\ val' = Unbound
    /\ expresn' = Next1
    /\ LET done == r' = Popped /\ pc' = "fetch_cont"
           unwanted == r.didnt_get_output \in {NotWanted, MayCome}
       IN  IF r.ufun = "none" THEN sig' = Error /\ done
           ELSE IF "STOP_TAIL" \in r.status THEN UNCHANGED sig /\ done
           ELSE IF "STOP_OK" \in r.status
           THEN sig' = [sig EXCEPT !.flag = "STOP", !.unode = r.current_unode] /\ done
           ELSE IF unwanted
           THEN sig' = (IF "OUTPUT_OK" \in r.status THEN sig ELSE Error) /\ done
           ELSE IF "OUTPUT_OK" \in r.status /\ IsMacro(r.fun)
           THEN sig' = Error /\ done
           ELSE sig' = Error /\ Blame(Popped, "fetch_cont")
    /\ UNCHANGED <<prog, list, stacks, unodes, log>>

\* .MAYBEOUTPUT: what it may do and who wants the value, from val_status.
MaybeOutputInstr ==
    /\ AtSequence /\ Next1.op = ".maybeoutput"
    /\ r.ufun # "none"
    /\ LET e == Next1.args[1]
           either == [Popped EXCEPT !.didnt_get_output = MayCome,
                                    !.status = {"VALUE_OK", "NO_VALUE_OK"}]
           stop == [Popped EXCEPT !.didnt_get_output = NotWanted, !.status = {"NO_VALUE_OK"}]
           output == [Popped EXCEPT !.didnt_get_output = Wanted(r.ufun), !.status = {"VALUE_OK"}]
           st == r.status
       IN  CASE "OUTPUT_TAIL" \in st ->
                    TailDispatch(e, IF "STOP_TAIL" \in st THEN either ELSE output)
                    /\ UNCHANGED stacks
             [] "OUTPUT_TAIL" \notin st /\ "OUTPUT_OK" \in st ->
                    /\ pc' = "eval_dispatch"
                    /\ IF "STOP_OK" \in st
                       THEN expresn' = e /\ r' = either /\ NewCont("after_maybeoutput")
                            /\ UNCHANGED stack
                       ELSE expresn' = Next1 /\ r' = Popped /\ UNCHANGED stacks
             [] "OUTPUT_OK" \notin st /\ "STOP_TAIL" \in st ->
                    TailDispatch(e, stop) /\ UNCHANGED stacks
             [] "OUTPUT_OK" \notin st /\ "STOP_TAIL" \notin st /\ "STOP_OK" \in st ->
                    /\ pc' = "eval_dispatch" /\ expresn' = e /\ r' = stop
                    /\ NewCont("after_maybeoutput") /\ UNCHANGED stack
             [] OTHER -> TailDispatch(Next1, Popped) /\ UNCHANGED stacks
    /\ UNCHANGED <<prog, val, list, sig, unodes, log>>

AfterMaybeoutput ==
    /\ pc = "after_maybeoutput"
    /\ IF val = Unbound THEN LStop("fetch_cont") ELSE LOutput(val, "fetch_cont")
    /\ UNCHANGED <<prog, expresn, val, list, stacks, unodes, log>>

\* next_stop_want_output: nothing is to come of the last instruction.
WantOutput(e, regs) ==
    /\ stack' = Append(stack, Cell("didnt_get_output", r.didnt_get_output))
    /\ NewCont("fall_off_want_output")
    /\ TailDispatch(e, [regs EXCEPT !.didnt_get_output = NotWanted,
                                    !.status = @ \ {"OUTPUT_TAIL"}])

\* The last expression of a sequence.
LastInstr ==
    /\ AtSequence /\ Next1.op \notin TailForm /\ Len(r.unev) = 1
    /\ IF "NO_VALUE_OK" \in r.status
       THEN TailDispatch(Next1, [Popped EXCEPT !.didnt_get_output =
                IF "VALUE_OK" \in r.status THEN MayCome ELSE NotWanted]) /\ UNCHANGED stacks
       ELSE IF "OUTPUT_OK" \in r.status /\ "VALUE_OK" \notin r.status
       THEN WantOutput(Next1, Popped)
       ELSE TailDispatch(Next1, Popped) /\ UNCHANGED stacks
    /\ UNCHANGED <<prog, val, list, sig, unodes, log>>

\* One before the last: when the next is STOP it may be the last in effect.
\* Mutant: also when that STOP would not be the end of the procedure.
OtherInstr_StopIsEnd ==
    /\ AtSequence /\ Next1.op \notin TailForm /\ Len(r.unev) > 1
    /\ IF r.unev[2].op = "stop" /\ "STOP_OK" \in r.status
       THEN TailDispatch(Next1, [Popped EXCEPT !.didnt_get_output = NotWanted])
       ELSE pc' = "non_tail_eval" /\ expresn' = Next1 /\ r' = Popped
    /\ UNCHANGED <<prog, val, list, stacks, sig, unodes, log>>
OtherInstr ==
    /\ AtSequence /\ Next1.op \notin TailForm /\ Len(r.unev) > 1
    /\ LET stopIsNext == r.unev[2].op = "stop"
       IN  IF stopIsNext /\ "STOP_TAIL" \in r.status
           THEN TailDispatch(Next1, [Popped EXCEPT !.didnt_get_output = NotWanted])
                /\ UNCHANGED stacks
           ELSE IF stopIsNext /\ "STOP_OK" \notin r.status /\ "OUTPUT_OK" \in r.status
           THEN WantOutput(Next1, Popped)
           ELSE pc' = "non_tail_eval" /\ expresn' = Next1 /\ r' = Popped /\ UNCHANGED stacks
    /\ UNCHANGED <<prog, val, list, sig, unodes, log>>

FallOffWantOutput ==
    /\ pc = "fall_off_want_output"
    /\ r' = [r EXCEPT !.didnt_get_output = Last(stack).v]
    /\ stack' = Front(stack)
    /\ sig' = IF sig.flag # "OUTPUT" /\ NotThrowing /\ val # Unbound THEN Error ELSE sig
    /\ pc' = "fetch_cont"
    /\ UNCHANGED <<prog, expresn, val, list, cont, numstack, unodes, log>>

\* Mutant: a constant saves the registers too.
NonTailEval_SaveAll ==
    /\ pc = "non_tail_eval"
    /\ pc' = "eval_dispatch"
    /\ NewCont(IF IsConst(expresn) THEN "after_constant" ELSE "eval_sequence_continue")
    /\ stack' = Append(stack, Cell("regs", r))
    /\ r' = [r EXCEPT !.didnt_get_output = NotWanted, !.tailcall = 0]
    /\ UNCHANGED <<prog, expresn, val, list, sig, unodes, log>>
NonTailEval ==
    /\ pc = "non_tail_eval"
    /\ pc' = "eval_dispatch"
    /\ IF IsConst(expresn)
       THEN NewCont("after_constant") /\ UNCHANGED <<stack, r>>
       ELSE /\ NewCont("eval_sequence_continue")
            /\ stack' = Append(stack, Cell("regs", r))
            /\ r' = [r EXCEPT !.didnt_get_output = NotWanted, !.tailcall = 0]
    /\ UNCHANGED <<prog, expresn, val, list, sig, unodes, log>>

\* eval_sequence_continue and no_reset_args, which differ in variables only.
EvalSequenceContinue ==
    /\ pc = "eval_sequence_continue"
    /\ stack' = Front(stack)
    /\ LET regs == Last(stack).v
           s == IF sig.flag = "STOP" THEN [sig EXCEPT !.flag = "RUN"] ELSE sig
           mine == regs.current_unode = s.unode
       IN  IF s.flag = "MACRO_RETURN"
           THEN LET unev == val.l \o regs.unev
                IN  /\ r' = [regs EXCEPT !.unev = unev]
                    /\ val' = Unbound
                    /\ sig' = [s EXCEPT !.flag = "RUN"]
                    /\ pc' = IF unev = <<>> THEN "fetch_cont" ELSE "after_constant"
           ELSE IF ~mine /\ s.flag = "OUTPUT"
           THEN r' = regs /\ val' = s.out /\ sig' = [s EXCEPT !.flag = "RUN"] /\ pc' = "fetch_cont"
           ELSE /\ r' = regs /\ pc' = "after_constant" /\ UNCHANGED val
                /\ sig' = IF ~mine /\ s.flag = "RUN" THEN [s EXCEPT !.out = Unbound] ELSE s
    /\ UNCHANGED <<prog, expresn, list, cont, numstack, unodes, log>>

AfterConstant ==
    /\ pc = "after_constant"
    /\ sig' = IF val # Unbound /\ NotThrowing THEN Error ELSE sig
    /\ val' = IF NotThrowing THEN Unbound ELSE val
    /\ pc' = IF sig'.flag # "THROWING" /\ r.unev = <<>> THEN "fetch_cont" ELSE "eval_sequence"
    /\ UNCHANGED <<prog, expresn, list, r, stacks, unodes, log>>

-----------------------------------------------------------------------------
(* Macros: a list to run in the place of the call, or where to go on. *)

NumTop == Last(numstack).v
Back(regs, status) == [regs EXCEPT !.status = status.status, !.tailcall = status.tailcall]
NoTails == {"STOP_TAIL", "OUTPUT_TAIL"}

MacroReturn ==
    /\ pc = "macro_return"
    /\ LET saved == Last(stack).v
           v == ReceivedVal(saved.unode)
           settled == Settled(saved.unode)
           s == IF settled.flag # "THROWING" /\ v.t \notin {"list", "cont"} THEN Error ELSE settled
           regs == [Back(r, NumTop) EXCEPT !.didnt_get_output = saved.dgo,
                                           !.current_unode = saved.unode]
       IN  /\ r' = regs
           /\ stack' = Front(stack)
           /\ IF s.flag = "THROWING"
              THEN /\ val' = Unbound /\ sig' = s /\ pc' = "fetch_cont"
                   /\ numstack' = Front(numstack) /\ UNCHANGED <<list, cont>>
              ELSE IF v.t = "cont"
              THEN /\ val' = ListOf(v.args) /\ sig' = s /\ pc' = v.label
                   /\ numstack' = Front(numstack) /\ UNCHANGED <<list, cont>>
              ELSE IF regs.tailcall <= 0
              THEN /\ val' = v /\ list' = v.l /\ pc' = "fetch_cont"
                   /\ sig' = [s EXCEPT !.flag = "MACRO_RETURN"]
                   /\ numstack' = Front(numstack) /\ UNCHANGED cont
              ELSE /\ val' = v /\ list' = v.l /\ sig' = s /\ pc' = "begin_seq"
                   /\ numstack' = Front(numstack) /\ UNCHANGED cont
    /\ UNCHANGED <<prog, expresn, unodes, log>>

RunresultContinuation ==
    /\ pc = "runresult_continuation"
    /\ list' = val.l[1].l
    /\ r' = [r EXCEPT !.status = {"VALUE_OK", "NO_VALUE_OK", "OUTPUT_OK", "STOP_OK"}]
    /\ stack' = Append(stack, Cell("current_unode", r.current_unode))
    /\ NewCont("runresult_followup")
    /\ pc' = "begin_seq"
    /\ UNCHANGED <<prog, expresn, val, sig, unodes, log>>

RunresultFollowup ==
    /\ pc = "runresult_followup"
    /\ LET u == Last(stack).v
           v == ReceivedVal(u)
           s == Settled(u)
       IN  /\ r' = [r EXCEPT !.current_unode = u]
           /\ sig' = IF s.flag \in {"STOP", "OUTPUT"} THEN Error ELSE s
           /\ val' = ListOf(IF v = Unbound THEN <<>> ELSE <<Const(v)>>)
    /\ stack' = Front(stack)
    /\ pc' = "fetch_cont"
    /\ UNCHANGED <<prog, expresn, list, cont, numstack, unodes, log>>

RepeatContinuation ==
    /\ pc = "repeat_continuation"
    /\ list' = val.l[1].l
    /\ numstack' = Append(numstack, Cell("repcount", r.repcount))
    /\ r' = [r EXCEPT !.repcount = Times]
    /\ pc' = "repeat_again"
    /\ UNCHANGED <<prog, expresn, val, stack, cont, sig, unodes, log>>

RepeatAgain ==
    /\ pc = "repeat_again"
    /\ val' = Unbound
    /\ IF r.repcount = 0
       THEN pc' = "repeat_done" /\ UNCHANGED <<r, stacks>>
       ELSE /\ stack' = Append(stack, Cell("repeat", list))
            /\ SaveNum(<<Cell("repcount", r.repcount), Cell("status", Status)>>,
                       "repeat_followup")
            /\ r' = [r EXCEPT !.status = (@ \ ({"VALUE_OK"} \cup NoTails))
                                \cup (IF r.tailcall = 0 THEN {"NO_VALUE_OK"} ELSE {})]
            /\ pc' = "begin_seq"
    /\ UNCHANGED <<prog, expresn, list, sig, unodes, log>>

\* The registers and the count of this turn come back; current_unode was not saved.
\* Mutant: the count is not taken down.
RepeatFollowup_NoCount ==
    /\ pc = "repeat_followup"
    /\ list' = Last(stack).v
    /\ stack' = Front(stack)
    /\ numstack' = Pop(numstack, 2)
    /\ sig' = IF val # Unbound /\ NotThrowing THEN Error ELSE Settled(r.current_unode)
    /\ r' = [Back(r, NumTop) EXCEPT !.repcount = numstack[Len(numstack) - 1].v]
    /\ val' = IF Received(r.current_unode) THEN ReceivedVal(r.current_unode) ELSE Unbound
    /\ pc' = IF ~Received(r.current_unode) /\ sig'.flag = "RUN" THEN "repeat_again" ELSE "repeat_done"
    /\ UNCHANGED <<prog, expresn, cont, unodes, log>>
RepeatFollowup ==
    /\ pc = "repeat_followup"
    /\ LET before == IF val # Unbound /\ NotThrowing THEN Error ELSE sig
           received == r.current_unode # before.unode /\ before.flag \in {"OUTPUT", "STOP"}
           n == numstack[Len(numstack) - 1].v
           regs == Back(r, NumTop)
       IN  /\ list' = Last(stack).v
           /\ stack' = Front(stack)
           /\ numstack' = Pop(numstack, 2)
           /\ sig' = IF val # Unbound /\ NotThrowing THEN Error ELSE Settled(r.current_unode)
           /\ IF received
              THEN /\ val' = ReceivedVal(r.current_unode)
                   /\ r' = [regs EXCEPT !.repcount = n]
                   /\ pc' = "repeat_done"
              ELSE /\ val' = Unbound
                   /\ r' = [regs EXCEPT !.repcount = n - 1]
                   /\ pc' = IF before.flag = "RUN" THEN "repeat_again" ELSE "repeat_done"
    /\ UNCHANGED <<prog, expresn, cont, unodes, log>>

RepeatDone ==
    /\ pc = "repeat_done"
    /\ r' = [r EXCEPT !.repcount = NumTop]
    /\ numstack' = Front(numstack)
    /\ pc' = "fetch_cont"
    /\ UNCHANGED <<prog, expresn, val, list, stack, cont, sig, unodes, log>>

CatchContinuation ==
    /\ pc = "catch_continuation"
    /\ list' = val.l[2].l
    /\ stack' = Append(stack, Cell("catch", [dgo |-> r.didnt_get_output,
                                unode |-> r.current_unode, tag |-> val.l[1].w]))
    /\ SaveNum(<<Cell("status", Status)>>, "catch_followup")
    /\ r' = [r EXCEPT !.status = @ \ NoTails]
    /\ pc' = "begin_seq"
    /\ UNCHANGED <<prog, expresn, val, sig, unodes, log>>

CatchFollowup ==
    /\ pc = "catch_followup"
    /\ LET saved == Last(stack).v
           regs == [Back(r, NumTop) EXCEPT !.didnt_get_output = saved.dgo,
                                           !.current_unode = saved.unode]
           settled == Settled(saved.unode)
           v == ReceivedVal(saved.unode)
           unwanted == v # Unbound /\ "VALUE_OK" \notin regs.status
                         /\ settled.flag # "THROWING" /\ ~Received(saved.unode)
           s == IF unwanted THEN Error ELSE settled
           caught == s.flag = "THROWING" /\ s.tag = saved.tag
       IN  /\ r' = regs
           /\ sig' = IF caught THEN [s EXCEPT !.flag = "RUN", !.tag = "none"] ELSE s
           /\ val' = IF caught THEN s.out ELSE v
    /\ stack' = Front(stack)
    /\ numstack' = Front(numstack)
    /\ pc' = "fetch_cont"
    /\ UNCHANGED <<prog, expresn, list, cont, unodes, log>>

\* APPLY of a name or of a list with question marks.
BeginApply ==
    /\ pc = "begin_apply"
    /\ val' = Unbound
    /\ LET template == val.l[1]
           empty == template = ListOf(<<>>)
       IN  /\ IF r.tailcall <= 0 /\ ~empty
              THEN stack' = Append(stack, Cell("var", "var_stack")) /\ NewCont("after_lambda")
              ELSE UNCHANGED stacks
           /\ IF template.t = "word"
              THEN r' = [r EXCEPT !.fun = template.w, !.argl = <<>>] /\ pc' = "apply_dispatch"
              ELSE IF empty THEN UNCHANGED r /\ pc' = "fetch_cont"
              ELSE /\ r' = [r EXCEPT !.argl = <<>>, !.unev = template.l,
                            !.status = IF r.tailcall <= 0 THEN @ \ NoTails ELSE @]
                   /\ pc' = "eval_sequence"
    /\ UNCHANGED <<prog, expresn, list, sig, unodes, log>>

AfterLambda ==
    /\ pc = "after_lambda"
    /\ stack' = Front(stack)
    /\ pc' = "fetch_cont"
    /\ UNCHANGED <<prog, expresn, val, list, r, cont, numstack, sig, unodes, log>>

-----------------------------------------------------------------------------
(* The whole evaluator. *)

Stopped ==
    /\ pc \in {"done", "no one to blame"}
    /\ UNCHANGED vars

Next ==
    \/ FetchCont \/ BeginLine \/ BeginSeq \/ EndLine \/ AllDone
    \/ EvalDispatch \/ EvalArgLoop \/ ArgFromMacro \/ AccumulateArg \/ AfterConstArg
    \/ EvalArgsDone \/ ApplyDispatch \/ PrimitiveApply \/ LambdaApply
    \/ SequenceCut \/ OutputInstr \/ OpWantStop \/ StopInstr
    \/ MaybeOutputInstr \/ AfterMaybeoutput \/ LastInstr \/ OtherInstr
    \/ FallOffWantOutput \/ NonTailEval \/ EvalSequenceContinue \/ AfterConstant
    \/ MacroReturn \/ RunresultContinuation \/ RunresultFollowup
    \/ RepeatContinuation \/ RepeatAgain \/ RepeatFollowup \/ RepeatDone
    \/ CatchContinuation \/ CatchFollowup \/ BeginApply \/ AfterLambda
    \/ Stopped

Spec == Init /\ [][Next]_vars
FairSpec == Spec /\ WF_vars(Next)

-----------------------------------------------------------------------------
(* Types. *)

Labels == {"fetch_cont", "begin_line", "begin_seq", "end_line", "all_done", "done",
           "eval_dispatch", "eval_arg_loop", "arg_from_macro", "accumulate_arg",
           "after_const_arg", "eval_args_done", "apply_dispatch", "primitive_apply",
           "lambda_apply", "eval_sequence", "op_want_stop", "after_maybeoutput",
           "fall_off_want_output", "non_tail_eval", "eval_sequence_continue",
           "after_constant", "macro_return", "runresult_continuation",
           "runresult_followup", "repeat_continuation", "repeat_again", "repeat_followup",
           "repeat_done", "catch_continuation", "catch_followup", "begin_apply",
           "after_lambda", "no one to blame"}

\* The registers' types, and REPEAT's count within its bounds.
TypeOK ==
    /\ pc \in Labels
    /\ cont \in Labels \cup {"none"}
    /\ val.t \in {"unbound", "word", "list", "cont"}
    /\ sig.flag \in {"RUN", "STOP", "OUTPUT", "THROWING", "MACRO_RETURN"}
    /\ sig.unode \in 0 .. unodes
    /\ r.status \subseteq {"VALUE_OK", "NO_VALUE_OK", "OUTPUT_OK", "STOP_OK",
                          "OUTPUT_TAIL", "STOP_TAIL"}
    /\ r.tailcall \in {-1, 0, 1}
    /\ r.current_unode \in 0 .. unodes
    /\ r.didnt_get_output.k \in {"unbound", "nil", "wanted", "the_generation"}
    /\ r.repcount \in 0 .. Times

-----------------------------------------------------------------------------
(* The stacks. *)

\* What a continuation takes off the two stacks.
Saved(label) ==
    CASE label \in {"all_done", "eval_sequence_continue"} -> <<"regs">>
      [] label = "accumulate_arg" -> <<"regs", "current_unode">>
      [] label = "fall_off_want_output" -> <<"didnt_get_output">>
      [] label = "macro_return" -> <<"macro">>
      [] label = "runresult_followup" -> <<"current_unode">>
      [] label = "repeat_followup" -> <<"repeat">>
      [] label = "catch_followup" -> <<"catch">>
      [] label = "after_lambda" -> <<"var">>
      [] OTHER -> <<>>
SavedNums(label) ==
    CASE label \in {"macro_return", "catch_followup"} -> <<"status">>
      [] label = "repeat_followup" -> <<"repcount", "repcount", "status">>
      [] label \in {"repeat_again", "repeat_done"} -> <<"repcount">>
      [] OTHER -> <<>>

Kinds(s) == [i \in DOMAIN s |-> s[i].k]

\* What is on the two stacks when label is to come after what s has.
With(s, label) ==
    IF label = "none" THEN s
    ELSE [regs |-> s.regs \o Saved(label), nums |-> Append(s.nums \o SavedNums(label), "cont")]
\* The continuations to come are saved in numstack, but for the next one, cont.
Expected(nums) ==
    LET upTo[i \in 0 .. Len(nums)] ==
            IF i = 0 THEN [regs |-> <<>>, nums |-> <<>>]
            ELSE IF nums[i].k = "cont" THEN With(upTo[i - 1], nums[i].v) ELSE upTo[i - 1]
    IN  upTo[Len(nums)]

\* The two stacks hold what the continuations to come take off them, in order and
\* no more: each instruction, input, macro or list that ends early (by an error, a
\* THROW, an OUTPUT or a STOP, from any depth) leaves the stacks as its continuation
\* expects them, and nothing is left when the line is done.  (save and restore in
\* eval.c are macros that check nothing.)
StacksMatch ==
    LET held == With(Expected(numstack), cont)
    IN  /\ Kinds(stack) = held.regs \o Saved(pc)
        /\ Kinds(numstack) = held.nums \o SavedNums(pc)

\* The evaluator comes to the end of the line, whichever way the expressions in it
\* end: no REPEAT goes on after its count, and no continuation puts itself back for
\* ever.  (Meaning says nothing of a program that does not end.)
Terminates == <>(pc = "done")

\* The types, and the stacks as the continuations will take them (eval.c:133).
EvalInv == TypeOK /\ StacksMatch
=============================================================================
