--------------------------------- MODULE Scope ---------------------------------
(***************************************************************************)
(* Shallow binding in eval.c: one global table holds the value every name  *)
(* has now (valnode), and var_stack holds the values that local variables  *)
(* have pushed aside.  The register var marks where the current frame      *)
(* begins on var_stack; the evaluator's control stack saves and restores   *)
(* it, and reset_args pops var_stack back to it.                           *)
(*                                                                         *)
(* env is a history variable: the environment the manual describes, a      *)
(* stack of frames that looks names up from the innermost frame outward.   *)
(* It is pushed by every procedure call and cut back when the construct    *)
(* that made the frame ends; the program has nothing like it.  Agrees says *)
(* that the two implement the same variables.                              *)
(*                                                                         *)
(* Instructions are what a running program may do next: any of the actions *)
(* below.  A statement that is not the last of its list is evaluated with  *)
(* its registers saved; the last one is a tail call and saves nothing.     *)
(***************************************************************************)
EXTENDS Integers, Sequences, FiniteSets

CONSTANTS
    Name,        \* variable names
    Value,       \* Logo values
    UNBOUND,     \* the value of a name that has none
    ERRACT,      \* the name of the variable ERRACT
    Tag,         \* tags of CATCH and THROW
    Construct,   \* the constructs the programs under study use
    CatchTail,   \* may a CATCH list end in a call of a procedure?
    MaxDepth,    \* bound: entries on the control stack
    MaxFrames,   \* bound: frames in env
    MaxBindings  \* bound: entries on var_stack

ASSUME UnboundAssumption == UNBOUND \notin Value
ASSUME ErractAssumption == ERRACT \in Name
ASSUME ConstructAssumption ==
    Construct \subseteq {"default", "repeat", "apply", "catch", "evaluator", "throw"}
ASSUME CatchTailAssumption == CatchTail \in BOOLEAN
ASSUME BoundAssumption == MaxDepth \in Nat /\ MaxFrames \in Nat /\ MaxBindings \in Nat

Thing == Value \cup {UNBOUND}
Cont == {"all_done", "eval_sequence_continue", "set_args_continue",
         "repeat_followup", "after_lambda", "catch_followup"}
NoTag == "no tag"

VARIABLES
    valnode,          \* the value of every name
    is_local,         \* flag IS_LOCAL_VALUE of every name
    has_global,       \* flag HAS_GLOBAL_VALUE of every name
    var_stack,        \* saved bindings, the head of the list at the end
    var,              \* where the current frame starts on var_stack
    vsp,              \* var_stack when lambda_apply began; 0 when it is over
    formals,          \* formals lambda_apply has still to bind
    stack,            \* the evaluator's control stack
    binding,          \* inside the loop of lambda_apply
    throwing,         \* the tag of the throw under way, or NoTag
    env               \* history variable: the environment of the manual

vars == <<valnode, is_local, has_global, var_stack, var, vsp, formals, stack,
          binding, throwing, env>>

-----------------------------------------------------------------------------
(* The environment of the manual. *)

\* The innermost frame that has a variable n; frame 1 is the global one.
Innermost(n) ==
    CHOOSE i \in DOMAIN env :
        n \in DOMAIN env[i] /\ \A j \in DOMAIN env : n \in DOMAIN env[j] => j <= i

\* THING: "if there is more than one such variable, the innermost is chosen".
Lookup(n) == env[Innermost(n)][n]

EmptyFrame == [n \in {} |-> UNBOUND]
With(frame, n, v) == [m \in DOMAIN frame \cup {n} |-> IF m = n THEN v ELSE frame[m]]
PushFrame(frame) == env' = Append(env, frame)
BindInTop(n, v) == env' = [env EXCEPT ![Len(env)] = With(@, n, v)]
AssignInnermost(n, v) == env' = [env EXCEPT ![Innermost(n)] = With(@, n, v)]
CutBack(k) == env' = SubSeq(env, 1, k)

-----------------------------------------------------------------------------
(* The primitives of shallow binding. *)

\* not_local(name, sp): name has no saved binding from sp down to var.
\* Mutant: it looks through the frames of all callers.
NotLocal_AllFrames(n, sp) == \A i \in 1 .. sp : var_stack[i].name # n
NotLocal(n, sp) == \A i \in var + 1 .. sp : var_stack[i].name # n

\* The entry pushed for n; LOCALSAVE when the value pushed aside is itself local.
SavedBinding(n) == [name |-> n, old |-> valnode[n], localsave |-> is_local[n]]

\* Push n's binding aside unless the frame has done so already.
PushLocal(n, sp) ==
    IF NotLocal(n, sp)
    THEN /\ var_stack' = Append(var_stack, SavedBinding(n))
         /\ is_local' = [is_local EXCEPT ![n] = TRUE]
    ELSE UNCHANGED <<var_stack, is_local>>

\* The oldest entry for n above position k: the last one reset_args pops.
Saved(n, k) == {i \in k + 1 .. Len(var_stack) : var_stack[i].name = n}
Oldest(n, k) == CHOOSE i \in Saved(n, k) : \A j \in Saved(n, k) : i <= j

\* Mutants: reset_args does not look at LOCALSAVE; reset_args forgets the flag.
FlagAfterReset_Kept(n, k) == is_local[n]
FlagAfterReset_Cleared(n, k) == IF Saved(n, k) = {} THEN is_local[n] ELSE FALSE
FlagAfterReset(n, k) ==
    IF Saved(n, k) = {} THEN is_local[n] ELSE var_stack[Oldest(n, k)].localsave

\* reset_args(old_stack): pop var_stack back to position k.
ResetArgs(k) ==
    /\ var_stack' = SubSeq(var_stack, 1, k)
    /\ valnode' = [n \in Name |-> IF Saved(n, k) = {} THEN valnode[n]
                                  ELSE var_stack[Oldest(n, k)].old]
    /\ is_local' = [n \in Name |-> FlagAfterReset(n, k)]

\* eval_save with the continuation that will come back to it: the registers, and
\* for the history variable the number of frames to keep and ERRACT's value.
Entry(cont, tag) == [cont |-> cont, var |-> var, vsp |-> vsp, formals |-> formals,
                     tag |-> tag, frames |-> Len(env), erract |-> UNBOUND]
Top == stack[Len(stack)]
Push(cont, tag) == stack' = Append(stack, Entry(cont, tag))
Pop == stack' = SubSeq(stack, 1, Len(stack) - 1)

\* An instruction is about to be evaluated.
Running == stack # <<>> /\ ~binding /\ throwing = NoTag
Room == Len(stack) < MaxDepth
RoomForFrame == Len(env) < MaxFrames
RoomFor(k) == Len(var_stack) + k <= MaxBindings

-----------------------------------------------------------------------------
Init ==
    /\ valnode = [n \in Name |-> UNBOUND]
    /\ is_local = [n \in Name |-> FALSE]
    /\ has_global = [n \in Name |-> FALSE]
    /\ var_stack = <<>>
    /\ var = 0
    /\ vsp = 0
    /\ formals = {}
    /\ stack = <<>>
    /\ binding = FALSE
    /\ throwing = NoTag
    /\ env = <<[n \in Name |-> UNBOUND]>>

\* evaluator(): the top level, an ERRACT list or PAUSE starts a new evaluation on
\* top of whatever is going on.
Evaluator ==
    /\ stack = <<>> \/ (Running /\ Room /\ RoomForFrame /\ "evaluator" \in Construct)
    /\ Push("all_done", NoTag)
    /\ var' = Len(var_stack)
    /\ PushFrame(EmptyFrame)
    /\ UNCHANGED <<valnode, is_local, has_global, var_stack, vsp, formals, binding,
                   throwing>>

\* lambda_apply for a procedure with formals S: not called in tail position.
\* (non_tail_eval and eval_arg_loop set var; the frame of env is the callee's.)
Call(S) ==
    /\ Running /\ Room /\ RoomForFrame /\ RoomFor(Cardinality(S))
    /\ Push("eval_sequence_continue", NoTag)
    /\ var' = Len(var_stack)
    /\ vsp' = Len(var_stack)
    /\ formals' = S
    /\ binding' = TRUE
    /\ PushFrame(EmptyFrame)
    /\ UNCHANGED <<valnode, is_local, has_global, var_stack, throwing>>

\* The last instruction of a list calls a procedure: nothing is saved and var
\* still marks the frame of the caller.
TailCall(S) ==
    /\ Running /\ RoomForFrame /\ RoomFor(Cardinality(S))
    /\ Top.cont # "catch_followup" \/ CatchTail
    /\ vsp' = Len(var_stack)
    /\ formals' = S
    /\ binding' = TRUE
    /\ PushFrame(EmptyFrame)
    /\ UNCHANGED <<valnode, is_local, has_global, var_stack, var, stack, throwing>>

\* lambda_apply binds one formal to its actual; with too few actuals it binds the
\* formal to UNBOUND and the error throws when the loop is over.
BindFormal(n, arg) ==
    /\ binding
    /\ n \in formals
    /\ throwing = NoTag \/ arg = UNBOUND
    /\ formals' = formals \ {n}
    /\ PushLocal(n, vsp)
    /\ valnode' = [valnode EXCEPT ![n] = arg]
    /\ throwing' = IF arg = UNBOUND THEN "error" ELSE throwing
    /\ BindInTop(n, arg)
    /\ UNCHANGED <<has_global, var, vsp, stack, binding>>

\* An optional formal without an actual: its binding is pushed aside, and then
\* its default expression is evaluated with the registers saved (when a throw is
\* under way nothing is evaluated, and set_args_continue gives the call up).
BindDefault(n) ==
    /\ "default" \in Construct
    /\ binding /\ n \in formals
    /\ Room /\ RoomForFrame
    /\ PushLocal(n, vsp)
    /\ stack' = Append(stack, [Entry("set_args_continue", n)
                                   EXCEPT !.formals = formals \ {n}])
    /\ var' = Len(var_stack')
    /\ binding' = FALSE
    /\ env' = Append([env EXCEPT ![Len(env)] = With(@, n, valnode[n])], EmptyFrame)
    /\ vsp' = 0
    /\ formals' = {}
    /\ UNCHANGED <<valnode, has_global, throwing>>

BindDone ==
    /\ binding /\ formals = {}
    /\ binding' = FALSE
    /\ vsp' = 0
    /\ UNCHANGED <<valnode, is_local, has_global, var_stack, var, formals, stack,
                   throwing, env>>

-----------------------------------------------------------------------------
(* The primitives that deal with variables. *)

\* lmake
Make(n, v) ==
    /\ Running
    /\ valnode' = [valnode EXCEPT ![n] = v]
    /\ has_global' = IF is_local[n] THEN has_global ELSE [has_global EXCEPT ![n] = TRUE]
    /\ AssignInnermost(n, v)
    /\ UNCHANGED <<is_local, var_stack, var, vsp, formals, stack, binding, throwing>>

\* llocal, not in tail position (there it returns at once).
Local(n) ==
    /\ Running /\ RoomFor(1)
    /\ PushLocal(n, Len(var_stack))
    /\ valnode' = [valnode EXCEPT ![n] = UNBOUND]
    /\ BindInTop(n, UNBOUND)
    /\ UNCHANGED <<has_global, var, vsp, formals, stack, binding, throwing>>

\* lglobal
Global(n) ==
    /\ Running
    /\ has_global' = [has_global EXCEPT ![n] = TRUE]
    /\ UNCHANGED <<valnode, is_local, var_stack, var, vsp, formals, stack, binding,
                   throwing, env>>

\* lerase of a variable
EraseName(n) ==
    /\ Running
    /\ valnode' = [valnode EXCEPT ![n] = UNBOUND]
    /\ has_global' = IF is_local[n] THEN has_global ELSE [has_global EXCEPT ![n] = FALSE]
    /\ AssignInnermost(n, UNBOUND)
    /\ UNCHANGED <<is_local, var_stack, var, vsp, formals, stack, binding, throwing>>

\* erall_helper for the names that are not buried: the flags stay.
EraseNames(S) ==
    /\ Running
    /\ valnode' = [n \in Name |-> IF n \in S THEN UNBOUND ELSE valnode[n]]
    /\ env' = [i \in DOMAIN env |-> [n \in DOMAIN env[i] |->
                   IF n \in S /\ i = Innermost(n) THEN UNBOUND ELSE env[i][n]]]
    /\ UNCHANGED <<is_local, has_global, var_stack, var, vsp, formals, stack, binding,
                   throwing>>

-----------------------------------------------------------------------------
(* Constructs that run an instruction list. *)

\* repeat_again, and begin_apply with a template: var is saved and set.
RunList(cont) ==
    /\ Running /\ Room /\ RoomForFrame
    /\ Push(cont, NoTag)
    /\ var' = Len(var_stack)
    /\ PushFrame(EmptyFrame)
    /\ UNCHANGED <<valnode, is_local, has_global, var_stack, vsp, formals, binding,
                   throwing>>

Repeat == "repeat" \in Construct /\ RunList("repeat_followup")
Apply == "apply" \in Construct /\ RunList("after_lambda")

\* catch_continuation for an ordinary tag: var stays, so that LOCAL in the list
\* makes a variable of the procedure around the CATCH.
Catch(t) ==
    /\ "catch" \in Construct
    /\ t # "error"
    /\ Running /\ Room
    /\ Push("catch_followup", t)
    /\ UNCHANGED <<valnode, is_local, has_global, var_stack, var, vsp, formals,
                   binding, throwing, env>>

\* catch_continuation for CATCH "ERROR also binds ERRACT to nothing, each time
\* with an entry of its own.
CatchError ==
    /\ "catch" \in Construct
    /\ "error" \in Tag
    /\ Running /\ Room
    /\ RoomFor(1)
    /\ stack' = Append(stack, [Entry("catch_followup", "error")
                                   EXCEPT !.erract = Lookup(ERRACT)])
    /\ var_stack' = Append(var_stack, SavedBinding(ERRACT))
    /\ is_local' = [is_local EXCEPT ![ERRACT] = TRUE]
    /\ valnode' = [valnode EXCEPT ![ERRACT] = UNBOUND]
    /\ AssignInnermost(ERRACT, UNBOUND)
    /\ UNCHANGED <<has_global, var, vsp, formals, binding, throwing>>

\* lthrow, or an error
Throw(t) ==
    /\ "throw" \in Construct
    /\ Running
    /\ throwing' = t
    /\ UNCHANGED <<valnode, is_local, has_global, var_stack, var, vsp, formals, stack,
                   binding, env>>

-----------------------------------------------------------------------------
(* Continuations: the instruction list at hand ends or is cut short by a throw. *)

Ending(cont) == stack # <<>> /\ ~binding /\ Top.cont = cont

\* all_done, eval_sequence_continue (and accumulate_arg), after_lambda and
\* repeat_followup: reset_args(var), then var as it was.
EndReset(cont) ==
    /\ cont \in {"all_done", "eval_sequence_continue", "after_lambda", "repeat_followup"}
    /\ Ending(cont)
    /\ ResetArgs(var)
    /\ var' = Top.var
    /\ vsp' = Top.vsp
    /\ formals' = Top.formals
    /\ Pop
    /\ CutBack(Top.frames)
    /\ throwing' = IF Len(stack) = 1 THEN NoTag ELSE throwing
    /\ UNCHANGED <<has_global, binding>>

\* repeat_followup when another round follows (repeat_again).
RepeatAgain ==
    /\ Ending("repeat_followup")
    /\ throwing = NoTag
    /\ ResetArgs(var)
    /\ env' = Append(SubSeq(env, 1, Top.frames), EmptyFrame)
    /\ UNCHANGED <<has_global, var, vsp, formals, stack, binding, throwing>>

\* set_args_continue: the default expression has a value, and the loop goes on.
\* With a throw the call is given up.
EndDefault(arg) ==
    /\ Ending("set_args_continue")
    /\ arg # UNBOUND
    /\ LET n == Top.tag
           reset == [m \in Name |-> IF Saved(m, var) = {} THEN valnode[m]
                                    ELSE var_stack[Oldest(m, var)].old]
       IN  /\ valnode' = IF throwing = NoTag THEN [reset EXCEPT ![n] = arg] ELSE reset
           /\ env' = IF throwing = NoTag
                     THEN [SubSeq(env, 1, Top.frames) EXCEPT ![Top.frames] = With(@, n, arg)]
                     ELSE SubSeq(env, 1, Top.frames)
    /\ var_stack' = SubSeq(var_stack, 1, var)
    /\ is_local' = [m \in Name |-> FlagAfterReset(m, var)]
    /\ var' = Top.var
    /\ vsp' = Top.vsp
    /\ formals' = IF throwing = NoTag THEN Top.formals ELSE {}
    /\ binding' = (throwing = NoTag)
    /\ Pop
    /\ UNCHANGED <<has_global, throwing>>

\* catch_followup, then no_reset_args: var_stack is left alone.  A throw with the
\* same tag ends here.  (In the manual's environment ERRACT has its value again.)
EndCatch ==
    /\ Ending("catch_followup")
    /\ throwing' = IF throwing = Top.tag THEN NoTag ELSE throwing
    /\ Pop
    /\ env' = LET back == SubSeq(env, 1, Top.frames)
                  i == CHOOSE i \in DOMAIN back : /\ ERRACT \in DOMAIN back[i]
                                                 /\ \A j \in DOMAIN back :
                                                        ERRACT \in DOMAIN back[j] => j <= i
              IN  IF Top.tag = "error"
                  THEN [back EXCEPT ![i] = With(@, ERRACT, Top.erract)] ELSE back
    /\ UNCHANGED <<valnode, is_local, has_global, var_stack, var, vsp, formals, binding>>

-----------------------------------------------------------------------------
Variables ==
    \/ \E n \in Name, v \in Value : Make(n, v)
    \/ \E n \in Name : Local(n) \/ Global(n) \/ EraseName(n)
    \/ \E S \in SUBSET Name : EraseNames(S)

Calls ==
    \/ \E S \in SUBSET Name : Call(S) \/ TailCall(S)
    \/ \E n \in Name, arg \in Thing : BindFormal(n, arg)
    \/ \E n \in Name : BindDefault(n)
    \/ BindDone

Lists ==
    \/ Evaluator \/ Repeat \/ Apply \/ CatchError
    \/ \E t \in Tag : Catch(t) \/ Throw(t)

Continuations ==
    \/ \E cont \in Cont : EndReset(cont)
    \/ RepeatAgain
    \/ \E arg \in Thing : EndDefault(arg)
    \/ EndCatch

Next == Variables \/ Calls \/ Lists \/ Continuations

Spec == Init /\ [][Next]_vars

-----------------------------------------------------------------------------
(* Properties. *)

Frame == UNION {[S -> Thing] : S \in SUBSET Name}

\* Types, and the register var and every saved copy of it are positions that are
\* still on var_stack, outer ones below inner ones: reset_args, which pops until
\* it meets the position, always meets it.
TypeOK ==
    /\ valnode \in [Name -> Thing]
    /\ is_local \in [Name -> BOOLEAN]
    /\ has_global \in [Name -> BOOLEAN]
    /\ \A i \in DOMAIN var_stack :
           var_stack[i] \in [name : Name, old : Thing, localsave : BOOLEAN]
    /\ binding \in BOOLEAN
    /\ formals \subseteq Name
    /\ \A i \in DOMAIN stack : stack[i].cont \in Cont /\ stack[i].frames \in DOMAIN env
    /\ \A i \in DOMAIN env : env[i] \in Frame
    /\ var \in 0 .. Len(var_stack)
    /\ \A i \in DOMAIN stack : stack[i].var \in 0 .. var
    /\ \A i, j \in DOMAIN stack : i <= j => stack[i].var <= stack[j].var

\* Shallow binding is dynamic scope: at every moment, under every nesting of
\* calls, tail calls, default values, REPEAT, templates, CATCH and throws, the
\* one value the table holds for a name is the one the innermost variable of
\* that name has.  Not ERRACT, which stays unbound after a CATCH "ERROR.
Agrees == \A n \in Name \ {ERRACT} : valnode[n] = Lookup(n)

\* The flag IS_LOCAL_VALUE of a name is set exactly as long as var_stack holds a
\* binding of it, through recursion and unwinding.
LocalFlag == \A n \in Name : is_local[n] <=> \E i \in DOMAIN var_stack : var_stack[i].name = n

\* A name whose global variable has a value has HAS_GLOBAL_VALUE, also while a
\* local variable hides it: SETXYZ may be used for it once the local is gone.
GlobalFlag == \A n \in Name \ {ERRACT} : env[1][n] # UNBOUND => has_global[n]

\* Back at the top level nothing of any call is left.
CleanTopLevel == stack = <<>> =>
    var_stack = <<>> /\ var = 0 /\ Len(env) = 1 /\ throwing = NoTag

\* The types; the flags that let SETxyz assign are those of the bindings there are;
\* the top level finds everything undone.
ScopeInv == TypeOK /\ LocalFlag /\ GlobalFlag /\ CleanTopLevel
=============================================================================
