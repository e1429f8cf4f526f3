# UCBLogo in TLA+

A verification development kept beside the UCBLogo interpreter: TLA+ modules
translated from its C sources, TLC configurations that check them on small
instances, and theorems proved by TLAPS. Line numbers below are those of the
files at the top of the repository (`mem.c`, `eval.c`, ...).

Everything in the interpreter runs in one thread. What makes it hard is not
parallelism but interleaving of another kind: a garbage collection may happen
inside any allocation, an error may end any step, a procedure may be redefined
while it runs, and an explicit control stack in `eval.c` replaces C's, so that
every construct has to save and restore by hand what C would have kept for it.

## 1. Inventory

| Component | State | Operations | Talks to | Hard behaviour | What makes it correct |
|---|---|---|---|---|---|
| Memory manager (`mem.c`) | segments, `free_list`, `generation[]`, `oldyoungs`, `reserve_tank`, thresholds | `newnode`, `setcar`/`setcdr`/`setobject`, `gc`, `addseg`, `fill_reserve_tank`, `.SETSEGSIZE` | called by everything; throws through `err_logo` | collections in any allocation, partial collections, promotion half way, overflow of `gcstack`, `malloc` failing | nothing reachable is freed; a full collection frees the rest; no allocation waits for ever |
| Symbol table (`intern.c`, GCTWA in `mem.c`) | `hash_table`, objects, caseobjs | `intern`, worthless-atom collection | reader, memory manager | a collection between lookup and entry | one symbol per word; no value lost |
| Variables (`eval.c`, `wrksp.c`) | values and flags of names, `var_stack`, register `var` | binding of inputs, LOCAL, MAKE, GLOBAL, ERASE, `reset_args` | evaluator | unwinding by errors, tail calls that save nothing | dynamic scope |
| Procedure bodies (`paren.c`, `wrksp.c`) | trees of lines and bodies, `the_generation`, arities | `make_tree`, `make_tree_from_body`, `untreeify`, DEFINE, TO, COPYDEF, ERASE | evaluator, parser | redefinition while running, errors in the parser | a line is run with the parse its procedures have now |
| Evaluator (`eval.c`, `coms.c`) | registers, control stack, `numstack`, `stopping_flag` | about fifty labels; RUN, REPEAT, CATCH, OUTPUT, GOTO, macros | all | tail calls, values wanted or not, throws through half-evaluated inputs | OUTPUT, STOP and THROW reach what they are for |
| Errors, PAUSE, signals (`error.c`, `main.c`) | `throw_node`, `err_mesg`, `erract_errtype`, `inside_gc`, `int_during_gc` | `err_logo`, ERRACT, `lpause`, interrupt handlers | evaluator, memory manager | signals during a collection, errors inside ERRACT | no interrupt lost, no recursion without end |
| Files (`files.c`) | `file_list`, reader, writer, dribble, LOAD's saved state | OPEN..., CLOSE, SETREAD, SETWRITE, LOAD, SAVE | evaluator, reader | errors in the middle of LOAD, closing what is being read | streams return to what they were |
| Workspace (`wrksp.c`) | definitions, bury, trace and step flags | DEFINE, TEXT, EDIT, PO..., BURY, TRACE | parser, files | an error in an edited buffer | flags belong to names |
| Object Logo (`obj.c`) | classes, instances, parents | KINDOF, SOMETHING, ASK, EXIST, HAVE | variables, evaluator | only with `--enable-objects` | inheritance order |
| Reader and parser (`parse.c`, `paren.c`) | input line, quoting state | `reader`, `parser`, `runparse`, infix | files, symbol table | bars, backslashes, continuation lines | what is printed reads back |
| Data (`lists.c`, `logodata.c`) | lists, arrays, property lists | list primitives, SETITEM, PPROP, the dotted primitives | memory manager | shared conses, circular data | lists behave as values, no circle made by safe primitives |
| Arithmetic (`math.c`) | none | `binary`, `unary`, predicates | evaluator | overflow noticed after it happened, rounding | exact or near, never wrapped |
| Printing (`print.c`) | the writer, `print_stringptr`, limits | PRINT, SHOW, TYPE, FULLPRINTP | files | strings as writers | inside the string; SAVE's lists read back |
| Graphics (`graphics.c`, `wxTurtleGraphics.cpp`, `xgraphics.c`) | turtle, pen, mode, `wanna`, record of drawing commands | FORWARD, SETPOS, WRAP, FENCE, WINDOW, FILLED, LABEL, SAVEPICT, LOADPICT | terminal | record full, redraw, picture replaced under a command | redraw shows what was drawn; the record fits; motions end |
| Terminal (`term.c`, `wx*.cpp`, `TextEditor.cpp`) | cursor, input and output buffers, history | window events | `main.c`, `files.c` | producer and consumer in two threads of control | no character lost |
| Initialisation, localisation, help (`init.c`, `libloc.c`, `makehelp.c`) | tables | built once | all | none | - |
| Library and tests (`logolib/`, `tests/`, `csls/`) | Logo programs | - | - | - | - |

`PROJECT.json` gives the status of each, and lists the hazards of the code,
each at the line where it bites, with the properties that watch it.

## 2. Modules

| Module | Models |
|---|---|
| `LogoHeap` | the generational collector of `mem.c` and the mutator above it |
| `LogoStore` | the abstract specification of `LogoHeap`: a store without a collector |
| `LogoHeapStore` | the refinement mapping from `LogoHeap` to `LogoStore`, the properties that need reachability |
| `MCLogoHeap` | small heaps |
| `LogoHeapProofs` | the inductive invariant of the collector, its theorems, the refinement; the theorems of `Data` |
| `Scope`, `MCScope`, `ScopeProofs` | shallow binding, `var_stack`, and what each continuation does to them |
| `ProcTrees`, `MCProcTrees`, `ProcTreesProofs` | treeified bodies and `the_generation` |
| `Oblist`, `MCOblist`, `NamesProofs` | `intern` and worthless-atom collection |
| `Evaluator`, `EvaluatorProofs` | the labels of `evaluator()`, its registers and its two stacks |
| `EvalMeaning`, `MCEvaluator` | what a program means, recursively; the small programs compared |
| `Session`, `MCSession`, `SessionProofs` | top level, LOAD, PAUSE, errors and ERRACT, interrupts, clicks: the loops that read instructions |
| `Files`, `MCFiles`, `FilesProofs` | open files, string writers, the reader and the writer |
| `Text` | from characters to lists (`reader`, `parser`) and back (printing with FULLPRINTP) |
| `Workspace`, `MCWorkspace`, `NamesProofs` | definitions, bury flags, contents lists, ERASE, SAVE, LOAD, EDIT, the library |
| `Data`, `MCData`, `LogoHeapProofs` | lists, arrays, property lists on a heap with sharing |
| `Arithmetic`, `SessionProofs` | integers of a fixed width, overflow to floating point, rounding |
| `Infix` | from words to expression trees: priorities, parentheses, unary minus |
| `Turtle`, `TurtleProofs`, `MCTurtle` | motion in three modes, the record of commands, redraw, pictures |

`MCData` composes `Data` with `Arithmetic`, `MCProcTrees` `ProcTrees` with `Infix`,
`MCFiles` `Files` with `Text`: the second ones are operators without state, which the
run evaluates over their bounded inputs in its first state.

### LogoHeap

One step of the model is one step of a loop of `gc()`: a node taken off
`gcstack` (`MarkNode`), a member of `oldyoungs` scanned (`InterGenMark`), a node
of a generation's list kept, promoted or freed (`SweepKeep`, `SweepPromote`,
`SweepFree`). The mutator moves only between collections, as in the program,
but the invariants are required at every step in between. `StartGc` is the root
marking at the beginning of `gc()`. `GcEndAddSeg`, `GcEndOutOfMem` and
`GcEndReturn` are the three ends of it: `addseg` succeeds, it fails and
`err_logo(OUT_OF_MEM)` spills the reserve tank and throws, or enough was freed.
`GcStackOverflow` is `gc_inc` failing to enlarge `gcstack`, `GcAbandon` and
`GcAfterOverflow` what `gc()` does from then on.

Linked lists whose order no property depends on are sets; the model allows every
order. The globals, the evaluator's registers and the C stack are one set,
`regs`. `pending` says that the program is inside the `while` loop of `newnode`.
Strings and arrays: a kind of node is its set of pointer fields.

### Scope

`valnode`, `is_local`, `has_global`, `var_stack` and `var` are the program's own
state. `env` is a history variable: the environment the manual describes,
innermost variable first. Every action changes both, the first as the C code
does and the second as the manual says, and `Agrees` compares them. `stack` is
the control stack, restricted to the continuations that touch variables:
`eval_sequence_continue` (also `accumulate_arg`, which does the same),
`set_args_continue`, `repeat_followup`, `after_lambda`, `catch_followup`,
`all_done`. A tail call pushes nothing. `throwing` stands for `stopping_flag`
and `throw_node` together.

### ProcTrees

A line list has a tree (`parse`, the number of inputs each call was given), a
flag `fresh` (its generation pair is `the_generation`), and `next`, the tree that
`make_tree_from_body` appended to it. A call on `stack` has the trees that
remain to be run (`rest`, the register `unev`), which may no longer be the
body's trees (`own` false) when an inner call parsed the body again. `silent` is a
history variable, the names that were erased or defined in a way that leaves
`the_generation` as it is: by ERPS or ERALL, or after their line was parsed with
the one input that an undefined SETxyz name is given.
`RepairLine` is the test at `eval.c:898`, `TreeifyLine`, `TreeifyError` and
`TreeifyDone` the loop of `make_tree_from_body`, `Define`, `EraseProcs` and
`EraseAll` the ways arities change. A rejected line is one that gets no tree; a line
that gets one without a generation along with its error (`paren.c:96-108`, `132-136`)
is not told apart from it.

### Oblist

`Intern` goes up to its first allocation, `MakeCase`, `MakeObject` and `Push` are
the rest, and `Gc` may come between any of them, also inside `make_case`, where the
object that was found or just made is on no list the collector marks. The history
variable `unlinked` has the objects that a collection took out of the table there.
Its `OblistInit`, `OblistNext` and so on have the
module's name in theirs because `NamesProofs` extends `Workspace` too.

### Evaluator

`pc` is the label of `evaluator()`; `r` the registers that `eval_save` saves as one
block (`struct registers`), `stack` and `numstack` the control stacks, each cell
with the kind of what was saved in it, `sig` the globals `stopping_flag`,
`throw_node`, `output_node` and `output_unode`. There is one action for a label, and
six for `eval_sequence`: OUTPUT, STOP, .MAYBEOUTPUT, another last instruction,
another instruction, not running. A program has no variables (that is `Scope`'s
part) and is parsed (`ProcTrees`'s), so an instruction is a tree. The state
"no one to blame" is the place where `err_logo` takes the `car` of something that
is not a list. `EvalMeaning` defines the same language recursively: an expression
is evaluated for a value, for nothing, or for either, in a call whose caller is
after one of these, and becomes a value, nothing, an OUTPUT, a STOP or a THROW. It
has no tail calls, no val_status and no marks of calls. Because of its RECURSIVE
operators it is a module of its own, so that `Evaluator` can be proved about.

### Session

`levels` is the C stack, one record for every `main`, `lload`, `lpause`,
`err_logo` or `silent_load` that has not returned: its kind, its phase (reading,
running, ended) and what it saved on the way in. `stopping`, `throw_node`,
`err_mesg`, `erract`, `erract_errtype` and `loadstream` are the globals of these
names. `Mask` is the start of a region in which `inside_gc` (or
`inside_evaluator`'s counterpart in a save) defers interrupts to `int_during_gc`,
`Unmask` its end with `delayed_int`. `owed` is a history variable: an interrupt
that came and was not acted on. What a program does between calls of these
functions is a choice of instructions.

### Files

`file_list` newest first, `writestream` and `writer_name`, `reader_name` (with
`readstream`), and for strings being written the buffers `buf` and the pointer
`print_string` into one of them. `printed`, `got` and `whole` are history: what
was printed to a string since it was made, what was read in order. The reader may be
set to the list of an open string, as `lsetread` takes it for a file; reading then is
undefined and left out. A call that
the code answers with an error is in the model when it changes something
(SETWRITE that fails closes the string being written).

### Text

A character is a letter or one of the special ones, with its parity (`setparity`).
`ReadChar1` is one turn of reader's loop, with the state between turns: inside
bars, open parentheses and brackets, inside a comment, after a backslash, after a
tilde. `Parse1` is one turn of `parser_iterate`'s; the recursion into a list is a
stack. A word's characters are what `mend_strnzcpy` copies (`Mended`), which is given
the word's beginning and parser's count of its characters and looks for the bars,
comments and continuations a second time; `WordsAreWhole` compares it with what parser
passed. `PrintWord` and `PrintNode` are
`real_print_node`.

### Workspace

Definitions of the three kinds are functions from names; `flags` the bury, trace
and step bits of each. A text is a sequence of instructions, which `Run` runs, so
that SAVE followed by LOAD in a fresh Logo is an operator on states and
`SaveRestores` can compare. A library procedure is loaded when it is named.

### Data, Arithmetic, Infix

`Data` has a heap of conses and array cells with sharing; `ListsAreValues` and
`OpsAreMeant` compare every primitive with the same operation on values (`Shape` is
the value that a node stands for). Loops over cdrs, copying, EQUALP and `Shape` are
recursive functions over 0 .. the number of nodes, which proofs can unfold, and what
is reached from a node is the least closed set. `PlistIsPrivate` says that no value
leads to a cons of the property list: PLIST copies them, so that not even .SETBF can
write there.
`DataInv` holds the comparisons on a state, `ValuesStay` those between a state and
the next.
`Arithmetic` computes as `math.c` does - wrapped sums, tests on the wrapped
result, products through floating point - and compares with exact fractions. A float
is a multiple of 1/`Unit` with `Precision` significant bits, and every operation on
floats, the `fval += 0.5` of ROUND too, rounds to the nearest of them, ties to even
(`Rounded`). The powers of two are a recursive function (`TwoTo`), for the proofs; the
floats that the comparisons try are a parameter (`Fractions`).
`Infix` has the mutual recursion of `paren_expr`, `paren_infix` and `gather_args`
over a line, and compares with trees written out with the least parentheses.

### Turtle

`rec` is the record: its buffers, the index in the current one, the entries with
the sizes in bytes that the code gives them. `drawn` is what the device was asked
to draw since it was last cleared. A FORWARD or SETPOS is several steps
(`Advance`), one for each line up to an edge, as `wraploop` makes them.
`RedrawFaithful` compares `drawn` with what `redraw_graphics` makes of `rec` at
every moment at which a redraw may come.

## 3. Runs

A module's type invariant and its smaller invariants are checked as one, the
conjunction of the named parts: `ScopeInv`, `OblistInv`, `EvalInv`,
`BodiesAreWhole`, `SessionInv`, `FilesInv`, `WorkspaceInv`, `DataInv`, `TurtleInv`,
at the end of each module; `NumbersAreRight`, `LinesAreTrees` and `TextsComeBack`
are those of the modules without state, checked in the first state of a run.

| Run | Instance | Shows |
|---|---|---|
| `heap_all` | two nodes in two segments, three generations, age threshold 2, two kinds | partition of the heap, memory safety, remembered set, exactness of a full collection, refinement of `LogoStore`, every allocation answered |
| `scope_all` | names `x` and ERRACT, one value, control stack of 3, 4 frames, 2 entries of `var_stack`, all constructs | dynamic scope, flags, clean top level |
| `trees_nested` | two bodies of two lines, two procedures of one or two inputs, recursion, ERPS, a procedure with a SET name; 40000 infix expressions, lines of up to 5 tokens | no line begins with a wrong tree; expressions read back |
| `trees_recursive` | two bodies of three lines, recursion, ERPS, a rejected second line | a body is its lines; appending ends |
| `oblist_gctwa` | four objects, words `foo` (two spellings), `bar`, `true`, collections anywhere in `intern` | one symbol per word, no value lost, but for objects unlinked in `make_case` |
| `eval_all` | about 17000 programs: a line, procedures `f` and `g`, a macro `m`, lists of up to two expressions in up to two constructs | each program prints and ends as it means, the stacks match, each ends |
| `eval_stop` (violation) | STOP in the list of a REPEAT | the procedure goes on |
| `session_all` | four levels, files of one line, two interrupts, one error that can be mended and one that cannot | loads give back their stream, handlers are not nested, interrupts are kept and acted on, THROW "TOPLEVEL arrives |
| `files_all` | two files, two lists naming one variable, 7 calls; texts of up to 5 characters or pieces, bare tildes too | no stream used after its end, no text lost or over the end of a string, reads in order; lists read back, reader and parser agree on lines and words |
| `workspace_all` | a plain name, a library procedure, a primitive, three variables, one property list, 4 commands | SAVE and LOAD, EDIT, ERALL, burying, contents lists |
| `data_all` | two variables, four nodes, one property list, 4 calls; integers of 6 bits, floats of 4 significant bits | lists as values, no circles, properties; arithmetic |
| `turtle_all` | a screen of 5 by 3, record buffers of three or four commands, 4 commands | the turtle on the screen, the record in its buffers, redraw, pictures, FORWARD ends |

Why these bounds. A generational collector goes wrong with one old and one young
node; three generations and an age threshold above
one are what an off-by-one in `inter_gen_mark` needs, and the theorems cover the
heaps with more nodes. Two segments let `addseg` both
succeed and fail. In `Scope`, three entries of the control stack allow a
construct inside a construct inside a procedure; two saved bindings allow one
name to be bound twice, or two names once; one value and UNBOUND are enough to tell
right from wrong. `ProcTrees` needs two lines, because the test that repairs a
body looks at the next one, and three for lines that come before a rejected one to
have been appended to each other. Four objects allow three words and a duplicate.
In `Evaluator`, an expression's treatment depends on whether it is last, on what
is next, on the construct around it and on what the caller wants: three lines that
call `f` for nothing, for a value and in a spliced list (a fourth, for either, by
RUNRESULT), lists of two, and what may follow the construct (nothing, an
instruction, STOP) give every combination of them, and `g` a second call that ends
in each of the ways there are. The programs leave out what section 4 says goes wrong:
STOP in the list of a REPEAT or CATCH, .MAYBEOUTPUT there (but for a call whose
construct is the procedure's last instruction), a macro as the input of OUTPUT, and a value as the last expression of a procedure called by
RUNRESULT.

In `Session` four levels are a program in a file
that is loaded by a program in a file, with an error and its handler on top, or
the same with a pause; two interrupts can come in one collection. In `Files` seven
calls open, select, write, fail, select again, close and look; two lists for one
variable are what name equality and identity differ on. In `Workspace` four
commands are a definition, a flag, an erasure and a SAVE or EDIT. In `Data` four
nodes hold a list that two others share and its copy; variables and nodes are
interchangeable (`SYMMETRY`, sound as there is no liveness property). The 6 bits of
`Arithmetic` and its floats of 4 keep the order of the code's limits: SAFEINT
(2^14 - 1), 2^31 - 1, the precision of a float and the width of an integer; with them
the run tries all pairs of integers and the floats nearest to every n/1024 up to
2^4, and some above (`MCFractions`): so the float just below a half, those with no bit
to spare and every tie are tried. `Turtle`'s buffers are
filled by the fourth command at the latest, and a motion of 5 steps crosses the
screen more than once. Text has a list, a word, a bar, an escape and one more
character in five.

`CHECK_DEADLOCK FALSE` is set where the model may stop: the heap in the state
`exit` (Logo has left for lack of memory), and the models of programs at their
bound on the calls.

Fairness is used where the code is one thread of straight-line C without a wait:
`Terminates` assumes that the evaluator takes its next step; `AllocAnswered` weak
fairness of the collector's steps while it runs, and of the step in which `newnode`
takes the node; `BreakHeeded` that a collection ends (`WF_vars(Unmask)`);
`ForwardEnds` that `wraploop` goes on (`WF_vars(Advance)`). Nothing is assumed of
the program that is run, of the user or of the mutator.

The violation run leaves out the assumption of the passing run beside it, that no
STOP is in the list of a REPEAT, and stops at its counterexample.

## 4. What goes wrong

`eval_stop` is the finding: `to f / repeat 2 [stop] / print 9 / end`: `f` prints 9
(`eval.c:1125`). When `f`'s output is wanted the STOP is ignored altogether
(`eval.c:980`) and FOREVER [STOP] does not end; as the last instruction of a
procedure called last in another REPEAT's list it ends that REPEAT as well
(`eval.c:1281` does not restore `current_unode`). Reproduced with a build.

Each of these is one constant or one hypothesis away from a passing run; the
main ones are also among the hazards of `PROJECT.json`:

* *A tail call in a CATCH list overwrites a local variable* (`eval.c:1313`):
  `CatchTail = TRUE` in `scope_all` violates `Agrees`. Reproduced with a build.
* *Two symbols for a word* (`intern.c:60`): a collection inside `make_case` takes the
  object out of the table and the word's next reading makes another. The model has
  it; the properties except the objects in `unlinked` by name.
* *A stale tree after recursion and redefinition* (`eval.c:898`), "not enough
  inputs" for a procedure that has them: the outer call's trees, which an inner call
  replaced, are not the body's any more (`own`) and are not parsed again. In the model,
  and excepted in `LineIsRight`. *A hang after a rejected line* (`paren.c:106`): a
  `BadLine` after two good ones in `trees_recursive` violates `BodiesAreWhole` (its
  part `AppendEnds`). Both
  reproduced.
* ERPS and ERALL leave `the_generation` alone; an undefined SETxyz name is parsed with
  one input and its line counts as fresh, until something else changes the generation.
  In the model; `LineIsRight` and `FreshIsRight` except the names in `silent`. With
  `.SETSEGSIZE 1` or `2` `freed_threshold` is 0 and `newnode` collects for ever
  (`FreedThreshold = 0` violates `AllocAnswered`).
* In the evaluator: .MAYBEOUTPUT in the list of a REPEAT or CATCH may find no one
  to blame and crash (`show runresult [h]` with `repeat 2 [.maybeoutput 3]` in
  `h`); `output run [g]` in a procedure whose output is not wanted may report
  `[[g]]` and not run `g` (`eval.c:957`); a procedure called by RUNRESULT outputs
  its last expression's value without OUTPUT (`eval.c:1064`). CATCH "ERROR leaves
  ERRACT unbound until the surrounding procedure ends (`eval.c:1301`), and its
  entries pile up on `var_stack` in a tail-recursive loop.
* A throw to TOPLEVEL out of an ERRACT handler becomes a throw to ERROR
  (`error.c:222`), which a CATCH "ERROR takes. TO at a PAUSE inside a LOAD reads
  its body from the file (`wrksp.c:443`).
* A turtle at the edge of a fenced screen goes round to the other side
  (`graphics.c:364`); a label of 128 characters breaks the record
  (`graphics.c:1784`). After LOADPICT a move may step back 24 bytes from the end of
  the old picture's last command (`graphics.c:1714`, where `last_recorded` is stale).
* A last line without newline is dropped by READLIST and READWORD, although EOFP
  was FALSE (`files.c:534`). SAVE of a list with a quoted bar or backslash, or of a
  word that mixes bars and plain special characters, does not read back, and what
  comes after it in the file is lost (`print.c:300`); the same for a variable whose
  name needs bars (`wrksp.c:1307`). `||` before a continuation disappears
  (`parse.c:355`). All seen with the interpreter.
* A bar right after a tilde is copied by reader without entering bars
  (`parse.c:217-237`), and parser enters them (`parse.c:341`): the line ends for reader
  inside bars that parser never leaves. A tilde in a comment that is not at the
  end of the line ends the comment for parser (`parse.c:333`) and not for reader. Named
  `TildeMisread`, and excepted in `StopsWhole`.
* SETREAD of the list of an open string writer makes a stream of a character pointer
  (`files.c:363`); SETWRITEPOS while a string is written is an `fseek` of no stream
  (`files.c:744`); OPENWRITE of the list that WRITER outputs opens it again
  (`files.c:227`). The first is in the model up to the reading; the others are not.
* A redefined primitive makes a saved workspace that cannot be loaded
  (`wrksp.c:378`); ERASE keeps the bury flag, so that a procedure typed under the
  name of an erased library procedure is never saved (`wrksp.c:1369`); property
  lists come back reversed. Seen with the interpreter.
* LESSP subtracts and is wrong for integers far apart; MINUS of the least integer
  wraps; MODULO 6 -3 is -3 (`math.c`). ROUND adds a half first, which is rounded
  (`math.c:261`): 9007199254740991.0 becomes ...992, and 0.49999999999999994
  becomes 1. Named `RoundMisses`: there ROUND may be off by one, elsewhere by a half.

## 5. Proofs

TLC checks the instances of section 3; the theorems hold for every value of the
constants. The assumptions on constants are those named in the modules
(`NilAssumption`, `LinesAssumption`, `UnboundAssumption`, ...), and say no more than
what kind of thing a constant is. Where a theorem needs more, it is a hypothesis
of the theorem, and section 4 shows what the code does without it:

| Hypothesis | Theorems | Without it |
|---|---|---|
| `CatchTail = FALSE`: no list of a CATCH ends in a call of a procedure | `DynamicScope`, `ScopeIsKept` | the caller's local is overwritten (`eval.c:1313`) |
| `Language`: the inputs of RUN, RUNRESULT, REPEAT, CATCH, APPLY and THROW are written in the program, of the type they need | the theorems of `EvaluatorProofs` | an error for the wrong type (an input that was computed and fits changes nothing) |
| `ShortLabels`: no label has more than 127 characters | the theorems of `TurtleProofs` | a redraw goes on from the wrong entry (`graphics.c:1784`) |
| `BigBuffers`: a record buffer has 308 bytes or more | the theorems of `TurtleProofs` | the margin of 300 bytes is larger than the buffer (GR_SIZE is 60000) |
| `Early(b)`: a line the parser rejects is one of the first two | `BodiesStayWhole` | appending does not end (`paren.c:106`) |

`BigBuffers` is true of the code; each of the others is false of some programs and true
of most; a passing run whose property needs one makes it too. All other theorems are
unconditional.

### The memory manager (`LogoHeapProofs`)

For every set of nodes, kinds and fields, any number of generations, any age and
thresholds, and any division into segments: `TypeCorrect`, `PartitionHolds`,
`MemorySafety`, `RememberedSetComplete`, from `HeapInvariant` - `Spec => []HeapInv`.

`NoDangling` is not inductive: that a node is not marked at the end of the mark
phase means that it is garbage only because of what the marking owes in between.
`MarkInv` says it: what is reached in one step from a register, a marked node, or
a remembered node already scanned, is marked or queued. With an empty queue and
nothing left to scan it gives closure of the marked nodes under pointers, and for
the generations that are not collected the completeness of `oldyoungs` does, which
is why `OldYoungComplete` is part of the induction and not an optimisation's
detail. `SweepInv` carries the result through the sweep: what is condemned is on a
list the loop has still to walk. Overflow of `gcstack` voids `MarkInv` and, with
it, the sweep: `GcAbandon` is the only way on.

`CollectorIsInvisible` - `Spec => Store!Spec` - is the refinement: a step of a
collection is a stutter of `LogoStore`, and every step of the mutator is the
store's. Reachability in `LogoStore` is the intersection of the sets that hold the
roots and are closed under pointers, so that an inclusion is proved by exhibiting
a closed set, where a definition by paths would need an induction over them.

`FullCollectionIsExact` - `Spec => []FullGcExact` - is the other direction:
nothing unreachable survives a full collection. Its invariant, `Exact`, says that
what is marked or queued is reached, and that in a full collection every node in
use is of a generation that is collected, or was marked and promoted; `Counted`
that `mem_nodes` is the number of nodes in use and that none is older than
`max_gen`. `heap_all` checks both.

### Scope (`ScopeProofs`)

For any names, values, nesting and depth: `TypeCorrect`, `FlagsFollowBindings`
(`[]LocalFlag`) and `NothingIsLeft` (`[]CleanTopLevel`) for all programs,
`DynamicScope` (`[]Agrees`) and `ScopeIsKept` (`[]ScopeInv`).

`Agrees` speaks of the value cells now; what `reset_args` will put in them later is
on `var_stack`. The invariant says that the control stack divides `var_stack` at
the positions its continuations will pop to, and the environment at the frames
they will cut back to; between two such points the names saved are the names
bound (`Shape`), and the oldest saved value of a name above a point is its value
in the frames below it (`Meaning`). A list of CATCH that ends in a call breaks
`Meaning` only: hence the hypothesis.

### Bodies (`ProcTreesProofs`)

For every set of procedures, bodies, lines and calls: `TypeCorrect`;
`FreshTreesAreRight` (`[]FreshIsRight`), a line of the current generation is
parsed as it would be now; `ParsedBodiesAreTheirLines`, a body that counts as
parsed is its lines in order, for all programs, recursive ones too; `BodiesStayWhole`
(`[]BodiesAreWhole`), which adds that appending ends; `BegunLinesAreRight`
(`LineIsRight`), that no line begins to run with a tree that a redefinition made
wrong, with recursion, undefined SET names, ERPS and ERALL. What the program gets
wrong there is excepted where it happens and nowhere else: the names in `silent`, and
the calls whose trees are not their body's any more (`own`).

A body is parsed line by line, and the parser's errors and inner calls leave it
half done. `BodyInv` has the three shapes a body may have: not parsed, being
parsed by the call at the top of the stack (its first lines appended to each
other up to that call's line), or whole. `LineInv` says of a call between lines
that the trees that remain are its body's own, in order, so that the test of
`eval.c:898` looks at the line that is run next.

### The evaluator (`EvaluatorProofs`)

`StacksAlwaysMatch` - `Language => (Spec => []EvalInv)` - is for any set of programs
whose lines and bodies are sequences of expressions, of any length and nesting, with
any procedures and macros. `Language` says what an expression is and that an
operation has the inputs it takes; the model has no errors for inputs of the wrong
type, and it takes RUN's list and CATCH's tag from literals so that these errors do
not come up. `Exp` and `Val` may be infinite (the finite trees over any words are an
example), and the programs TLC runs are in the language.

A match of kinds is not inductive: a continuation puts what it takes off into the
registers, so that what was saved has to be of the right sort too, and two kinds of
frame need more than a type. The frame of an input being evaluated holds a call
whose inputs fit its operation, and the frame of a macro says whether its list may
be returned under MACRO_RETURN, which depends on the continuation *below* it
(`MacroGoesTo`). `Frame` states all that; `Good` is the least set of stacks that
contains the empty ones and is closed under pushing a frame, as the intersection of
all such sets, so that popping needs no induction (as with reachability in
`LogoStore`). `Stacked` says that the stacks are good, with the frame of the label
itself on top while the evaluator is there; `Valued`, `Flagged` and `Inputting` what
val, the stopping flag and the inputs are at each label. Every action then pushes or
pops one frame, and `Returns`, `Begins`, `Dispatches` are the ways a step may end.
`Expected` in `EvalInv` is a recursive function: `ExpectedAppend` gives it by one
cell, from which `GoodMatches` shows that good stacks match.

`MacroListsAreTaken` is read off the same invariant: a list under MACRO_RETURN is
seen by five continuations only. (Two of them take it for the value: section 4.)

### Symbols, loops, files (`NamesProofs`, `SessionProofs`, `FilesProofs`)

`NamesProofs`, for any words, spellings and objects: types, one object for a word
(`OneSymbolForAWord`), an object with a value is in the table
(`ValuesStayInTheTable`), and a collection that takes objects out of the table
takes no value away (`CollectionKeepsValues`), wherever in `intern` a collection comes;
what one inside `make_case` took out (`unlinked`) is excepted. The induction needs
`HeldIsInTable`, that what the program or a step of `intern` holds is in the table or
`unlinked`, and `NewIsNew`,
that between the lookup that fails and the entry no other object of that word
came.

`SessionProofs`, for any depth, files, tags and handlers: `SessionIsKept`
(`[]SessionInv`: `loadstream` is the file of the innermost LOAD, no deferred
interrupt is forgotten), `NoHandlerFromAHandler`, `ToplevelReached` (an action
property). `Structure` adds what every LOAD has saved (where the one below it
is), and that a handler with a handler above it has given ERRACT a value itself.

`FilesProofs`, for any files, lists, texts and number of calls: `FilesAreSound`
(`[]FilesInv`), `ReadingIsInOrder` (`[]ReadsInOrder`), `StringsAreMade`
(`StringIsMade`, an action property). The induction needs that a name is in
`file_list` once, that a stream opened for reading does not print, so that what was
read stays what is in the file, and that the room of the string being written is
what its text has left.

### The turtle and its record (`TurtleProofs`)

For any screen, any steps, coordinates and number of commands: `RecordIsWithin`
(`[]RecordFits`), `TurtleInvHolds` (`[]TurtleInv`), `RedrawIsFaithful`
(`[]RedrawFaithful`) and `PicturesComeBack` (the action property
`PictureComesBack`). They follow from one invariant, `TurtleSound`, of four parts.

* `Base`: the record is `Good` (the buffers before the current one end in
  NEXTBUFFER, the current one and its count are those of its entries) and `Fits`
  (every buffer of the chain, also one that is left from a longer picture, ends
  before its last 156 bytes: an entry is begun below GrSize - 300, and the largest, a
  label of 127 characters, has 144). While FILLED runs, `FilledAt`
  says that STARTFILL is at the place that `lfilled` has kept, in whatever buffer
  that is by then.
* `Bounded`: a turtle in WRAP or FENCE mode is on the screen; in the middle of a walk,
  what is left of a SETPOS leads to the torus image of its target (`Reaches`; `WrapIs`:
  a wrap is one turn round the torus).
* `Faith`: `Same(drawn, Replay(rec, orig_vis).out)` is not inductive. What the next
  entry shows depends on the pen, the place and the mode the redraw has come to,
  so `Told` gives them too. A move takes the place of the move before it in the record, and a
  move leaves the pen, the mode and the colours as they are (`MoveLast`,
  `ToldAgain`). During FILLED the record has a STARTFILL whose colour is written
  when it ends, so `Midway` says that the rest of the record reads the same with
  the colour in it.
* `FileFaith`: the entries that SAVEPICT wrote are the record's, and were faithful.

`Replay`, `Entries` and `Bytes` are functions on the number of entries. The library's
induction takes an operator as its parameter, which the provers cannot instantiate;
`Least` (a set of naturals has a least element) and `Upward` (a set with 0 that goes
on from each number to the next has all of them up to n) are induction on sets, and
`RecursionExists` is the function a recursion defines.

### The workspace (`NamesProofs`)

For any finite sets of names, any values, properties and lists of names, and any
number of commands: `WorkspaceIsRight` (`[]WorkspaceInv`), `SavedWorkspaceComesBack`
(`[]SaveRestores`) and `EditingKeeps` (`[]EditKeeps`). They follow from `Sound`,
which says what kind of thing a workspace and a saved file are (in a file, all
procedures before the first name or property: one loaded MAKE "UNBURYONEDIT must not
come between them), that a buried procedure was hidden by the program or by its
library file, and that a library procedure which the program did not show is
buried. The last two need to be told apart from what a text does: `Effect` says what
loading one leaves of the flags and of the procedures that it does not define,
`Autoloads` what printing one may bring in from the library.

The three statements about texts are no consequence of `Sound` alone, since each is
about a load that has not happened. `SavedComesBack` follows the text of SAVE through
a fresh Logo, first the procedures, each defined once and none of them a primitive
(`ProcsRestored`), then the values (`VarsRestored`), then the properties, each put
before those already there, so that a list comes back turned round (`PutBackwards`,
`PlistsRestored`). `EditedComesBack` needs less: every instruction that EDIT printed
says what is so already (`Says`), and what is so stays so when it is run (`LoadKeeps`).
`ErallErases` compares the two ways to erase. `MergeSortSorts` is the sort of the
contents lists for a list of any length: a merge keeps its two lists above the one
it has made (`Merging`), and a round keeps the sum, over the lists, of every measure
that a merge keeps (`Weight`), such as the length and how often a word occurs.

### Lists, arrays and property lists (`LogoHeapProofs`)

For any finite heap, any words and variables and any number of calls: `DataTypes`,
`DataAcyclic` (`SafeIsAcyclic`), `PropsKept` (`PropsAreKept`), `DataStays`
(`ValuesStay`) and `DataIsRight` (`[]DataInv`). The inductive invariant is
`DataTypeOK /\ PlistIsPrivate`; the rest follows from it, on a state (`DataInv`) or
on a step.

Every call ends in `Swept`, so that two heaps are compared: the one a primitive has
made, and what is left of it. `Right(g, x, p, c, I)` holds of both. It says that the
variables `x` lead to nothing but `I`, a closed set of nodes in use that has none of
the conses `c` of the property list `p`, though what those hold. A primitive that
outputs something adds fresh nodes that lead to `I` and to each other only
(`Output`, `OutputRight`); one that writes, writes in `I` (`WriteValue`), or writes
one property (`WriteProperty`, `CutRight`); `FromRight` goes back to the invariant
when the heap has been swept.

Acyclicity: `Found(h, S)` is the least closed set round `S`, so that a closed set
without a node shows that the node is not found (`FoundLeast`). Fresh conses have such
a set each (`AcyclicFresh`), and SETITEM has looked for the array in all of its new
member (`AcyclicWrite`). `PropsKept` follows, for one name, its first place in the
list (`PropIn`) through each of the writes. `DataStays` is that `Shape` agrees on
heaps that are alike where it looks (`ShapesAlike`), by induction on its depth.

For `DataIsRight`, on values that do not go round, a loop over the cdrs meets all of a
list (`TidySpine`: a cons met twice would lead to itself), and an element leads to
fewer nodes than the list (`DepthIs`). So as many rounds as there are nodes are enough
for `Shape` (`ShapeStable`, `ShapeOfList`) and for EQUALP (`EqualpMeant`), and what a
primitive builds, whose conses are fresh ones before those of a tail it shares
(`CopiedConses`), is the list of what the elements were in the heap before
(`OutputExtends`, `CopiedShape`).

### Arithmetic (`SessionProofs`)

`NumbersStayRight` (`[]NumbersAreRight`) is for any width of the integers, any
precision of three bits or more that is smaller by more than one bit (64 and 53 in the
code), any range of exponents that reaches below the last bit of a quotient of two
integers, any SAFEINT and MAXLOGOINT with SAFEINT^2 <= MAXLOGOINT < 2^precision, and
any floats. These are what the code's bounds have to satisfy:
MAXLOGOINT < 2^precision is what makes an integer of a product that went through
floating point (`ProductSmall`).

Rounding is all that has to be known of a float. `Rounded` goes to a multiple of a
power of two, 2^k units, that is not further than half of it; the number is smaller
than 2^(precision + k) and, but for k = 0, at least half of that (`RoundsIs`). Three
facts follow and the rest uses no other. The error is one part in 2^precision
(`ErrorRounds`); what has the precision is kept and never passed, so that what is
above it rounds to what is not below (`RoundedKept`, `FloatKept`); and integers up to
2^precision stay what they are (`SmallKept`). `FloatKept` is why LESSP of an integer
and a float cannot be turned round by the rounding of the integer (`OrderWithFloat`).
The errors of two roundings and of the rounding of the sum, product or quotient add up
to less than four parts (`SumError`, `ProductError`, `QuotientNear`), also when a third
input follows (`ThreeError`). `PlusIs`: the test on the wrapped sum is true exactly
when the sum does not fit. Division of integers is from the one property of C's
quotient and remainder (`QuotRem`).

ROUND adds a half and rounds the sum (`HalfUp`). The last bit of the sum is finer than
a half, and the rounding does no harm unless it reaches the next integer, which it does
for the float just below a half (`FineHalf`); or it is one half or one, and the sum is
a tie that goes to the even side (`EvenHalf`); or it is more, and the half is lost
(`CoarseHalf`). `RoundMisses` has the two cases in which the outcome is not the nearest.

### Only model-checked

* Liveness, which is out of the prover's reach: `AllocAnswered`, `BreakHeeded`,
  `Terminates`, `ForwardEnds`.
* What `Text` (`TextsComeBack`), `Infix` (`LinesAreTrees`) and `EvalMeaning`
  (`Meaning`) compute: recursion over data. Their modules have RECURSIVE operators,
  which leave the prover no SMT backend.

## 6. Not modelled

* `gcstack`'s ring buffer and the pointer tests of the conservative stack scan (a
  word that looks like a node only adds a root); string blocks and their reference
  counts; hashing; the text of messages.
* Object Logo, which is off in the default build. LOCAL in tail position returns
  without doing anything and is not in `Scope`.
* Of the evaluator: GOTO, tracing, WITHOBJECT, default inputs (in `Scope` as to
  variables), templates with parameters, FOREVER; IF, TEST and the library's
  iteration, which return lists as RUN does.
* Of files: OPENUPDATE, PREFIX, DRIBBLE, ERASEFILE; errors inside SAVE whose handler
  prints; OPENWRITE of WRITER's list, SETWRITEPOS on a string. Of the reader: the
  prompt, END and the end of the file inside a line. Of the parser: braces; runparse but
  for the minus sign. Of printing: numbers, arrays and the limits of depth and width.
* Of procedures' trees: errors that leave the rejected line a tree. Of the workspace:
  the procedure that a contents list may load from the library when it looks a name up
  (`wrksp.c:858`); macros, TEXT and FULLTEXT, POT, HELP, EDITFILE. Of data: the
  letters of words, array origins, errors that ERRACT answers. Of arithmetic:
  infinities and not-a-number, the mathematical library, RANDOM, formatting.
* Of graphics: the turtle's picture, palettes, scrunch, headings other than the four
  axes, the bytes of the move that is taken back after LOADPICT (the model takes the
  whole entry) and LOADPICT's errors, split screens, the mouse, EPSPICT, the devices
  other than wxWidgets.
* The terminal and the editor windows (`wxTerminal.cpp`, `TextEditor.cpp`), which
  draw and handle keys; initialisation, localisation and help, which build tables
  once; the Logo library and tests, which are programs in Logo.

## 7. Plan

1. `Evaluator`: GOTO, FOREVER and templates.
2. `GcStack`: the ring buffer of `gc_inc`, and that it implements the queue of
   `LogoHeap`.
3. `Objects`: parents, method and variable lookup. `Terminal`: the input and output
   buffers between the interpreter and the window.
