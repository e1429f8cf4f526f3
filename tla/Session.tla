------------------------------ MODULE Session ------------------------------
(***************************************************************************)
(* The loops that read instructions and what breaks into them: the top     *)
(* level of main.c, LOAD (files.c), PAUSE, err_logo with its ERRACT        *)
(* handler (error.c), interrupts put off by collections and saves, and the *)
(* button and key actions that run between two instructions (eval.c:888).  *)
(*                                                                         *)
(* levels is the C stack: one record for each of these functions that has  *)
(* not returned.  What a program does between two such calls is a choice   *)
(* of instructions (ProgramStep).                                          *)
(***************************************************************************)
EXTENDS Naturals, FiniteSetsExt, SequencesExt

CONSTANTS
    MaxLevels,     \* bound on the depth of the C stack
    FileLines,     \* lines of a file that is loaded
    Breaks,        \* bound on the interrupts
    Recoverable,   \* errors that a value of ERRACT may mend
    Fatal          \* the other ones a program may meet (STOP_ERROR is "stop")

ASSUME SessionAssumption ==
    /\ MaxLevels \in Nat \ {0} /\ FileLines \in Nat /\ Breaks \in Nat
    /\ Recoverable \cap Fatal = {} /\ "stop" \notin Recoverable \cup Fatal

VARIABLES
    levels,        \* functions that have not returned, main first
    stopping,      \* stopping_flag: "run" or "throw" (STOP, OUTPUT: see Evaluator)
    throw_node,    \* tag of the throw
    err_mesg,      \* the error whose message is still to be printed
    erract,        \* value of ERRACT: "nil", or a list to run
    erract_errtype,
    loadstream,    \* 0: stdin; n: the file of levels[n]
    masked,        \* inside_gc or in_eval_save
    int_during_gc,
    eval_buttonact,
    breaks,        \* interrupts so far (bounds the model)
    owed           \* history: an interrupt has come and is not yet acted on

vars == <<levels, stopping, throw_node, err_mesg, erract, erract_errtype,
          loadstream, masked, int_during_gc, eval_buttonact, breaks, owed>>
flow == <<stopping, throw_node>>
errs == <<err_mesg, erract, erract_errtype>>
ints == <<masked, int_during_gc, eval_buttonact, breaks, owed>>

Errors == Recoverable \cup Fatal \cup {"stop", "nocatch"}
Tags == {"error", "toplevel", "pause", "foo"}
Kinds == {"top", "load", "startup", "pause", "err_logo", "erract", "button"}

(* A level: phase is "read" when the next thing it does is read a line,    *)
(* left the lines left in a file, hold the loadstream to go back to, what  *)
(* the error of err_logo or the value of ERRACT to go back to, own that    *)
(* the instructions of a handler have given ERRACT a value.                *)
Level == [kind : Kinds, phase : {"read", "run"}, left : 0 .. FileLines,
          hold : 0 .. MaxLevels, what : Errors \cup {"nil", "act"},
          rec : BOOLEAN, own : BOOLEAN]

NewLevel(k, ph) == [kind |-> k, phase |-> ph, left |-> 0, hold |-> 0,
                    what |-> "nil", rec |-> FALSE, own |-> FALSE]

Cur == Last(levels)
StackRoom == Len(levels) < MaxLevels
Push(l) == levels' = Append(levels, l)
Pop == levels' = Front(levels)
Phase(ph) == levels' = [levels EXCEPT ![Len(levels)].phase = ph]
Become(l) == levels' = [levels EXCEPT ![Len(levels)] = l]

Throw(tag) == stopping' = "throw" /\ throw_node' = tag
Resume == stopping' = "run" /\ UNCHANGED throw_node

Throwing == stopping = "throw" /\ ~masked
Running == stopping = "run" /\ ~masked /\ Cur.phase = "run" /\ Cur.kind # "err_logo"

Init ==
    /\ levels = <<NewLevel("top", "read")>>
    /\ stopping = "run" /\ throw_node = "error"
    /\ err_mesg = "nil" /\ erract = "nil" /\ erract_errtype = "fatal"
    /\ loadstream = 0
    /\ masked = FALSE /\ int_during_gc = 0 /\ eval_buttonact = FALSE
    /\ breaks = 0 /\ owed = FALSE

---------------------------------------------------------------------------
(* Reading.  Only reader(stdin) resets erract_errtype.                     *)

Prompt ==
    /\ Cur.kind \in {"top", "pause"} /\ Cur.phase = "read"
    /\ stopping = "run" /\ ~masked
    /\ Phase("run") /\ erract_errtype' = "fatal"
    /\ UNCHANGED <<flow, err_mesg, erract, loadstream, ints>>

LoadLine ==
    /\ Cur.kind = "load" /\ Cur.phase = "read" /\ Cur.left > 0
    /\ stopping = "run" /\ ~masked
    /\ Become([Cur EXCEPT !.phase = "run", !.left = @ - 1])
    /\ UNCHANGED <<flow, errs, loadstream, ints>>

EndLine ==
    /\ Running
    /\ \/ Cur.kind \in {"top", "load", "pause"} /\ Phase("read")
       \/ Cur.kind = "button" /\ Pop
    /\ UNCHANGED <<flow, errs, loadstream, ints>>

(* READWORD and its like, from the keyboard.                               *)
Read ==
    /\ Running /\ erract_errtype' = "fatal"
    /\ UNCHANGED <<levels, flow, err_mesg, erract, loadstream, ints>>

(* TO takes its lines from loadstream up to END or the end of the file. It *)
(* is refused inside a procedure only at the keyboard.                     *)
To ==
    /\ Running /\ Cur.kind \in {"top", "load", "pause"}
    /\ IF loadstream = 0
         THEN erract_errtype' = "fatal" /\ UNCHANGED levels
         ELSE /\ UNCHANGED erract_errtype
              /\ \E n \in 0 .. levels[loadstream].left :
                     levels' = [levels EXCEPT ![loadstream].left = n]
    /\ UNCHANGED <<flow, err_mesg, erract, loadstream, ints>>

---------------------------------------------------------------------------
(* LOAD.  The loop ends at the end of the file and on a throw; STARTUP is  *)
(* run, if it is new, before loadstream is given back.                     *)

Load ==
    /\ Running /\ StackRoom
    /\ Push([NewLevel("load", "read") EXCEPT !.left = FileLines, !.hold = loadstream])
    /\ loadstream' = Len(levels) + 1
    /\ UNCHANGED <<flow, errs, ints>>

(* Mutant: a throw leaves by an early return, as in an error path.         *)
UnloadNotOnThrow ==
    /\ Pop /\ loadstream' = (IF stopping = "throw" THEN loadstream ELSE Cur.hold)
    /\ UNCHANGED <<flow, errs, ints>>

Unload == Pop /\ loadstream' = Cur.hold /\ UNCHANGED <<flow, errs, ints>>

RunStartup ==
    Become([Cur EXCEPT !.kind = "startup", !.phase = "run"]) /\ UNCHANGED <<flow, errs, loadstream, ints>>

LoadEnd ==
    /\ Cur.kind = "load" /\ ~masked
    /\ \/ stopping = "throw" /\ Unload
       \/ stopping = "run" /\ Cur.phase = "read" /\ Cur.left = 0 /\ (Unload \/ RunStartup)

StartupEnd ==
    /\ Cur.kind = "startup" /\ ~masked
    /\ Unload

---------------------------------------------------------------------------
(* Errors.  err_logo builds its message (Error pushes it), and may be      *)
(* interrupted there; the rest is ErrAct or ErrThrow.                      *)

Err(e) == Push([NewLevel("err_logo", "run") EXCEPT !.what = e])

Error ==
    /\ Running /\ StackRoom
    /\ \E e \in Recoverable \cup Fatal : Err(e)
    /\ UNCHANGED <<flow, errs, loadstream, ints>>

(* Mutant: the handler runs with ERRACT still set.                         *)
ErrActSet ==
    /\ Cur.kind = "err_logo" /\ ~masked
    /\ erract # "nil" /\ Cur.what # erract_errtype
    /\ err_mesg' = Cur.what /\ erract_errtype' = Cur.what
    /\ Become([NewLevel("erract", "run") EXCEPT !.what = erract, !.rec = Cur.what \in Recoverable])
    /\ UNCHANGED <<erract, flow, loadstream, ints>>

(* There is a handler: it runs with ERRACT empty.                          *)
ErrAct ==
    /\ Cur.kind = "err_logo" /\ ~masked
    /\ erract # "nil" /\ Cur.what # erract_errtype
    /\ err_mesg' = Cur.what /\ erract_errtype' = Cur.what
    /\ Become([NewLevel("erract", "run") EXCEPT !.what = erract, !.rec = Cur.what \in Recoverable])
    /\ erract' = "nil"
    /\ UNCHANGED <<flow, loadstream, ints>>

(* There is none, or the same error has come twice: Erract loop.           *)
ErrThrow ==
    /\ Cur.kind = "err_logo" /\ ~masked
    /\ erract = "nil" \/ Cur.what = erract_errtype
    /\ Throw(IF erract = "nil" THEN "error" ELSE "toplevel")
    /\ err_mesg' = Cur.what /\ Pop
    /\ UNCHANGED <<erract, erract_errtype, loadstream, ints>>

(* The handler has ended with a value or none, or by a throw.  A throw to  *)
(* any tag becomes a throw to ERROR.                                       *)
ErrActEnd ==
    /\ Cur.kind = "erract" /\ ~masked
    /\ erract' = Cur.what /\ Pop
    /\ \/ Throw("error")
       \/ /\ stopping = "run"
          /\ IF Cur.rec THEN Resume ELSE Throw("toplevel")
       \/ /\ stopping = "throw" /\ throw_node = "error"   \* val is what an interrupt left
          /\ ~Cur.rec /\ Throw("toplevel")
    /\ UNCHANGED <<err_mesg, erract_errtype, loadstream, ints>>

(* The program's own use of all this.                                      *)
MakeErract ==
    /\ Running
    /\ \E v \in {"nil", "act"} : v # erract /\ erract' = v
    /\ levels' = [i \in DOMAIN levels |->
                    IF levels[i].kind = "erract" THEN [levels[i] EXCEPT !.own = TRUE] ELSE levels[i]]
    /\ UNCHANGED <<flow, err_mesg, erract_errtype, loadstream, ints>>

ErrorPrimitive ==
    /\ Running /\ err_mesg # "nil" /\ err_mesg' = "nil"
    /\ UNCHANGED <<levels, flow, erract, erract_errtype, loadstream, ints>>

ThrowTag ==
    /\ Running
    /\ \E t \in {"toplevel", "pause", "foo"} : Throw(t)    \* "pause": CONTINUE
    /\ UNCHANGED <<levels, errs, loadstream, ints>>

(* A CATCH in the instructions being run.                                  *)
Catch ==
    /\ Throwing /\ Cur.phase = "run" /\ Cur.kind # "err_logo"
    /\ throw_node \in {"error", "foo"}
    /\ Resume
    /\ UNCHANGED <<levels, errs, loadstream, ints>>

---------------------------------------------------------------------------
(* PAUSE, and the ends of the loops at the keyboard.                       *)

Pause ==
    /\ Running /\ StackRoom
    /\ Push(NewLevel("pause", "read")) /\ err_mesg' = "nil"    \* printed
    /\ UNCHANGED <<flow, erract, erract_errtype, loadstream, ints>>

(* Mutant: a pause takes every throw but its own for an error.             *)
PauseCatchesAll ==
    /\ Cur.kind = "pause" /\ Throwing
    /\ \/ throw_node = "pause" /\ Pop /\ Resume /\ UNCHANGED err_mesg
       \/ throw_node # "pause" /\ Phase("read") /\ Resume /\ err_mesg' = "nil"
    /\ UNCHANGED <<erract, erract_errtype, loadstream, ints>>

PauseThrow ==
    /\ Cur.kind = "pause" /\ Throwing
    /\ \/ throw_node = "pause" /\ Pop /\ Resume /\ UNCHANGED err_mesg
       \/ throw_node = "error" /\ Phase("read") /\ Resume /\ err_mesg' = "nil"
       \/ throw_node \notin {"pause", "error"} /\ Pop /\ UNCHANGED <<flow, err_mesg>>
    /\ UNCHANGED <<erract, erract_errtype, loadstream, ints>>

(* A tag nobody has caught is an error of its own; as this err_logo runs   *)
(* while throwing, its handler does nothing.                               *)
TopThrow ==
    /\ Cur.kind = "top" /\ Throwing /\ Phase("read") /\ Resume
    /\ IF throw_node = "toplevel" THEN UNCHANGED err_mesg ELSE err_mesg' = "nil"
    /\ erract_errtype' = IF throw_node \in {"pause", "foo"} /\ erract # "nil"
                           THEN "nocatch" ELSE erract_errtype
    /\ UNCHANGED <<erract, loadstream, ints>>

ButtonThrow ==
    /\ Cur.kind = "button" /\ Throwing /\ Pop
    /\ UNCHANGED <<flow, errs, loadstream, ints>>

---------------------------------------------------------------------------
(* Interrupts.  Mask is the beginning of do_gc, eval_save or eval_restore, *)
(* which may come anywhere, in err_logo too.                               *)

Mask ==
    /\ ~masked
    /\ masked' = TRUE /\ int_during_gc' = 0
    /\ UNCHANGED <<levels, flow, errs, loadstream, eval_buttonact, breaks, owed>>

Interrupt ==
    /\ breaks < Breaks /\ breaks' = breaks + 1
    /\ IF masked
         THEN StackRoom /\ int_during_gc' = 1 /\ owed' = TRUE /\ UNCHANGED levels
         ELSE StackRoom /\ Err("stop") /\ UNCHANGED <<int_during_gc, owed>>
    /\ UNCHANGED <<flow, errs, loadstream, masked, eval_buttonact>>

(* Mutant: delayed_int is called only if the program is not reading.       *)
UnmaskRunning ==
    /\ masked /\ masked' = FALSE
    /\ IF int_during_gc = 1 /\ Cur.phase = "run"
         THEN StackRoom /\ Err("stop") /\ owed' = FALSE
         ELSE UNCHANGED <<levels, owed>>
    /\ UNCHANGED <<flow, errs, loadstream, int_during_gc, eval_buttonact, breaks>>

(* delayed_int                                                             *)
Unmask ==
    /\ masked /\ masked' = FALSE
    /\ IF int_during_gc = 1
         THEN StackRoom /\ Err("stop") /\ owed' = FALSE
         ELSE UNCHANGED <<levels, owed>>
    /\ UNCHANGED <<flow, errs, loadstream, int_during_gc, eval_buttonact, breaks>>

(* A click: its list waits for the next instruction if the evaluator runs, *)
(* else it is run at once, in the middle of reading a line.                *)
Click ==
    /\ ~masked /\ Cur.kind # "err_logo"
    /\ IF Len(levels) = 1 /\ Cur.phase = "read"
         THEN StackRoom /\ stopping = "run" /\ Push(NewLevel("button", "run")) /\ UNCHANGED eval_buttonact
         ELSE eval_buttonact' = TRUE /\ UNCHANGED levels
    /\ UNCHANGED <<flow, errs, loadstream, masked, int_during_gc, breaks, owed>>

RunButton ==
    /\ Running /\ eval_buttonact /\ eval_buttonact' = FALSE
    /\ UNCHANGED <<levels, flow, errs, loadstream, masked, int_during_gc, breaks, owed>>

ProgramStep == Read \/ To \/ Load \/ Error \/ MakeErract \/ ErrorPrimitive \/ ThrowTag \/ Pause

Next ==
    \/ Prompt \/ LoadLine \/ EndLine \/ ProgramStep
    \/ LoadEnd \/ StartupEnd \/ ErrAct \/ ErrThrow \/ ErrActEnd
    \/ Catch \/ PauseThrow \/ TopThrow \/ ButtonThrow
    \/ Mask \/ Interrupt \/ Unmask \/ Click \/ RunButton

(* A collection ends: it is a loop of one thread over the heap.            *)
Spec == Init /\ [][Next]_vars /\ WF_vars(Unmask)

---------------------------------------------------------------------------
(* Properties                                                              *)

TypeOK ==
    /\ levels \in Seq(Level) /\ Len(levels) \in 1 .. MaxLevels
    /\ stopping \in {"run", "throw"} /\ throw_node \in Tags
    /\ err_mesg \in Errors \cup {"nil"} /\ erract \in {"nil", "act"}
    /\ erract_errtype \in Errors \cup {"fatal"}
    /\ loadstream \in 0 .. MaxLevels
    /\ {masked, eval_buttonact, owed} \subseteq BOOLEAN
    /\ int_during_gc \in {0, 1} /\ breaks \in 0 .. Breaks

(* TO and the parser read the file of the innermost LOAD, and the keyboard *)
(* when there is none, whatever errors, throws and pauses ended the loads  *)
(* in between (files.c, lload's loadstream and tmp).                       *)
LoadstreamIsInnermost ==
    loadstream = Max({0} \cup {i \in DOMAIN levels : levels[i].kind \in {"load", "startup"}})

(* An error in the instructions of a handler does not start a handler,     *)
(* unless they, or the user at a pause in them, gave ERRACT a value        *)
(* (docs/ucblogo.texi:7528; error.c:209).                                  *)
NoHandlerInHandler ==
    \A i, j \in DOMAIN levels :
        i < j /\ levels[i].kind = "erract" /\ levels[j].kind = "erract" => levels[i].own

(* An interrupt that comes during a collection is remembered until the     *)
(* collection ends (mem.c:235).                                            *)
BreakKept == owed => masked /\ int_during_gc = 1

(* ... and it is acted on.                                                 *)
BreakHeeded == owed ~> ~owed

(* THROW "TOPLEVEL ends all loads and pauses up to the top level, if there *)
(* is no handler and no interrupt on the way.                              *)
Home == stopping = "throw" /\ throw_node = "toplevel"
            /\ \A i \in DOMAIN levels : levels[i].kind \notin {"erract", "err_logo"}
ToplevelIsReached ==
    [][Home => \/ Home'
               \/ Len(levels) = 1 /\ stopping' = "run"
               \/ breaks' # breaks \/ (masked /\ ~masked')]_vars

(* The types; loadstream and the interrupts owed are what the C stack      *)
(* says, whatever error, throw or pause is on it.                          *)
SessionInv == TypeOK /\ LoadstreamIsInnermost /\ BreakKept
=============================================================================
