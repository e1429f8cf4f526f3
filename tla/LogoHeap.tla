------------------------------- MODULE LogoHeap -------------------------------
(***************************************************************************)
(* The generational mark-sweep collector of mem.c and the mutator that     *)
(* runs on top of it.                                                      *)
(*                                                                         *)
(* A collection is one uninterrupted call of gc() in the program (signals  *)
(* are deferred while inside_gc is set), but it is long; here every visit  *)
(* of a node by the mark loop, by inter_gen_mark and by the sweep loop is  *)
(* a step of its own, so that the invariants see the heap half marked and  *)
(* half swept.                                                             *)
(*                                                                         *)
(* Linked lists whose order no property depends on are sets: free_list,    *)
(* generation[g], oldyoungs, reserve_tank, and the queue gcstack of nodes  *)
(* still to be marked.  The order of the program is one of the orders the  *)
(* model allows.  Worthless-atom collection (gctwa) only removes roots and *)
(* marks again; it is the subject of another module.                       *)
(***************************************************************************)
EXTENDS Integers, FiniteSets

CONSTANTS
    Node,           \* the nodes of all the segments malloc can ever deliver
    NIL,            \* the null pointer
    Kind,           \* node types, told apart by which fields are pointers
    CONS,           \* the type of a pair
    Field,          \* names of the pointer fields of a node
    PtrFields,      \* the fields the collector follows in a node of a kind
    Segment,        \* the segments, in the order in which addseg gets them
    NumGens,        \* NUM_GENS
    AgeThreshold,   \* gc_age_threshold
    FreedThreshold, \* freed_threshold
    MinFreed,       \* the 50 of "num_freed < 50"
    TankSize        \* the 50 of fill_reserve_tank

NTFREE == "NTFREE"
Gen == 0 .. NumGens - 1

ASSUME NilAssumption == NIL \notin Node
ASSUME KindAssumption == NTFREE \notin Kind /\ CONS \in Kind
ASSUME PtrFieldsAssumption == PtrFields \in [Kind -> SUBSET Field]
ASSUME SegmentAssumption ==
    /\ DOMAIN Segment \subseteq Nat
    /\ \A i \in DOMAIN Segment : Segment[i] \subseteq Node
    /\ \A i, j \in DOMAIN Segment : i # j => Segment[i] \cap Segment[j] = {}
ASSUME NumGensAssumption == NumGens \in Nat \ {0}
ASSUME AgeAssumption == AgeThreshold \in Nat \ {0}
ASSUME ThresholdAssumption ==
    FreedThreshold \in Nat /\ MinFreed \in Nat \ {0} /\ TankSize \in Nat

VARIABLES
    kind,          \* node_type of each node, NTFREE when it is not in use
    ptr,           \* the pointer fields of each node
    my_gen,        \* the generation a node belongs to
    gen_age,       \* collections left before the node is promoted
    generation,    \* the nodes on each generation's list
    free_list,     \* nodes ready for newnode
    oldyoungs,     \* remembered set: nodes that may point to younger ones
    reserve_tank,  \* nodes kept aside for the out-of-memory handler
    segs,          \* the segments on segment_list
    mem_nodes,     \* nodes in use, as the NODES primitive reports them
    regs,          \* nodes held by interpreter globals, registers, C stack
    pc,            \* "run" (the mutator), "mark" or "sweep" (gc), "exit"
    pending,       \* newnode is inside its while loop
    throwing,      \* stopping_flag = THROWING
    gc_overflow_flag,
    full,          \* the no_error argument of gc()
    gen_gc,        \* oldest generation this collection looks at
    next_gen_gc,
    max_gen,
    marked,        \* nodes whose mark_gc equals current_gc
    gray,          \* nodes queued on gcstack
    scan,          \* members of oldyoungs that inter_gen_mark has yet to visit
    loop,          \* the generation the sweep loop is at
    todo,          \* nodes of that generation the sweep loop has yet to visit
    num_freed

heapVars == <<kind, ptr, my_gen, gen_age, generation, free_list, oldyoungs,
              reserve_tank, segs, mem_nodes, regs>>
ctlVars == <<pc, pending, throwing, gc_overflow_flag>>
gcVars == <<full, gen_gc, next_gen_gc, max_gen, marked, gray, scan, loop, todo,
            num_freed>>
vars == <<heapVars, ctlVars, gcVars>>

-----------------------------------------------------------------------------
(* The heap as the collector reads it. *)

\* Nodes on some generation's list: what newnode handed out and gc kept.
InUse == UNION {generation[g] : g \in Gen}

\* valid_pointer: a node of some segment whose type is not NTFREE.
Valid(n) == n # NIL /\ n \in UNION {Segment[i] : i \in segs} /\ kind[n] # NTFREE

\* The nodes that the pointer fields of n reach, as the switch statements of
\* mark, inter_gen_mark and gc enumerate them.
Children(n) == {m \in {ptr[n][f] : f \in PtrFields[kind[n]]} : Valid(m)}

\* mark() queues a node unless it is invalid, too old, or already marked.
Markable(S, done) == {n \in S : my_gen[n] <= gen_gc /\ n \notin done}

\* The remembered set after check_valid_oldyoung(old, new).
\* Mutant: a store that leaves out the test.
Remember_NoBarrier(old, new) == oldyoungs
Remember(old, new) ==
    IF new # NIL /\ my_gen[new] < my_gen[old] THEN oldyoungs \cup {old} ELSE oldyoungs

-----------------------------------------------------------------------------
(* main() calls addseg once; everything else starts empty. *)

FirstSegment == {i \in DOMAIN Segment : \A j \in DOMAIN Segment : i <= j}

Init ==
    /\ kind = [n \in Node |-> NTFREE]
    /\ ptr = [n \in Node |-> [f \in Field |-> NIL]]
    /\ my_gen = [n \in Node |-> 0]
    /\ gen_age = [n \in Node |-> AgeThreshold]
    /\ generation = [g \in Gen |-> {}]
    /\ segs = FirstSegment
    /\ free_list = UNION {Segment[i] : i \in FirstSegment}
    /\ oldyoungs = {}
    /\ reserve_tank = {}
    /\ mem_nodes = 0
    /\ regs = {}
    /\ pc = "run"
    /\ pending = FALSE
    /\ throwing = FALSE
    /\ gc_overflow_flag = FALSE
    /\ full = FALSE
    /\ gen_gc = 0
    /\ next_gen_gc = 0
    /\ max_gen = 0
    /\ marked = {}
    /\ gray = {}
    /\ scan = {}
    /\ loop = 0
    /\ todo = {}
    /\ num_freed = 0

-----------------------------------------------------------------------------
(* The mutator: primitives and the evaluator, between two collections. *)

Mutating == pc = "run" /\ ~pending

\* newnode sets n_car, n_cdr and n_obj to NIL.
\* Mutant: a recycled node keeps the fields it had.
Cleared_Not(n) == ptr[n]
Cleared(n) == [f \in Field |-> NIL]

\* newnode takes a free node and clears it.  (With no free node while a throw is
\* under way gc() would return at once, so newnode hands out the static node
\* phony, which is outside the heap: a stuttering step here.)
NewNode(n, k) ==
    /\ pc = "run"
    /\ n \in free_list
    /\ free_list' = free_list \ {n}
    /\ kind' = [kind EXCEPT ![n] = k]
    /\ ptr' = [ptr EXCEPT ![n] = Cleared(n)]
    /\ my_gen' = [my_gen EXCEPT ![n] = 0]
    /\ gen_age' = [gen_age EXCEPT ![n] = AgeThreshold]
    /\ generation' = [generation EXCEPT ![0] = @ \cup {n}]
    /\ mem_nodes' = mem_nodes + 1
    /\ regs' = regs \cup {n}
    /\ pending' = FALSE
    /\ UNCHANGED <<oldyoungs, reserve_tank, segs, pc, throwing,
                   gc_overflow_flag, gcVars>>

\* setcar, setcdr, setobject: store, then check_valid_oldyoung.
SetField(n, f, v) ==
    /\ Mutating
    /\ n \in regs
    /\ f \in PtrFields[kind[n]]
    /\ v \in regs \cup {NIL}
    /\ ptr' = [ptr EXCEPT ![n][f] = v]
    /\ oldyoungs' = Remember(n, v)
    /\ UNCHANGED <<kind, my_gen, gen_age, generation, free_list, reserve_tank,
                   segs, mem_nodes, regs, ctlVars, gcVars>>

\* A register is loaded from a field of a node another register holds.
Load(n, f) ==
    /\ Mutating
    /\ n \in regs
    /\ f \in PtrFields[kind[n]]
    /\ ptr[n][f] # NIL
    /\ regs' = regs \cup {ptr[n][f]}
    /\ UNCHANGED <<kind, ptr, my_gen, gen_age, generation, free_list, oldyoungs,
                   reserve_tank, segs, mem_nodes, ctlVars, gcVars>>

\* The last register that held n is overwritten or goes out of scope.
Drop(n) ==
    /\ Mutating
    /\ n \in regs
    /\ regs' = regs \ {n}
    /\ UNCHANGED <<kind, ptr, my_gen, gen_age, generation, free_list, oldyoungs,
                   reserve_tank, segs, mem_nodes, ctlVars, gcVars>>

\* The top level of main(): a throw that got this far ends.
TopLevelRecover ==
    /\ Mutating
    /\ throwing
    /\ throwing' = FALSE
    /\ UNCHANGED <<heapVars, pc, pending, gc_overflow_flag, gcVars>>

\* check_reserve_tank, before the top level reads an instruction: when the tank
\* is empty, up to TankSize free nodes go into it, outside every generation.
\* (The cdr chain that holds the tank together is the set itself.)
FillReserveTank(S) ==
    /\ Mutating
    /\ ~throwing
    /\ reserve_tank = {}
    /\ S \subseteq free_list /\ S # {}
    /\ Cardinality(S) = TankSize \/ (Cardinality(S) < TankSize /\ S = free_list)
    /\ free_list' = free_list \ S
    /\ reserve_tank' = S
    /\ kind' = [n \in Node |-> IF n \in S THEN CONS ELSE kind[n]]
    /\ ptr' = [n \in Node |-> IF n \in S THEN [f \in Field |-> NIL] ELSE ptr[n]]
    /\ UNCHANGED <<my_gen, gen_age, generation, oldyoungs, segs, mem_nodes,
                   regs, ctlVars, gcVars>>

-----------------------------------------------------------------------------
(* gc(): the mark phase. *)

GcVarsReset ==
    /\ marked' = {}
    /\ gray' = {}
    /\ scan' = {}
    /\ todo' = {}
    /\ loop' = 0
    /\ num_freed' = 0

\* The deepest generation this collection looks at.
\* Mutant: the argument of gc() is ignored.
GenToCollect_NotFull(no_error) == next_gen_gc
GenToCollect(no_error) == IF no_error THEN max_gen ELSE next_gen_gc

\* gc() up to the end of its root marking calls: every global, register and
\* stack slot is passed to mark().
StartGc(no_error) ==
    /\ full' = no_error
    /\ gen_gc' = GenToCollect(no_error)
    /\ pc' = "mark"
    /\ marked' = {}
    /\ gray' = {n \in regs : my_gen[n] <= gen_gc'}
    /\ scan' = oldyoungs
    /\ todo' = {}
    /\ loop' = 0
    /\ num_freed' = 0
    /\ UNCHANGED <<heapVars, throwing, gc_overflow_flag, next_gen_gc, max_gen>>

\* newnode finds the free list empty and calls do_gc(FALSE), again if need be.
NewNodeGc ==
    /\ pc = "run" /\ free_list = {} /\ ~throwing /\ ~gc_overflow_flag
    /\ pending' = TRUE
    /\ StartGc(FALSE)

\* The GC and NODES primitives call do_gc themselves.
GcCommand(no_error) ==
    /\ Mutating /\ ~throwing /\ ~gc_overflow_flag
    /\ pending' = pending
    /\ StartGc(no_error)

\* mark()'s loop takes one node off gcstack, marks it and queues its children.
MarkNode(n) ==
    /\ pc = "mark"
    /\ n \in gray
    /\ marked' = marked \cup {n}
    /\ gray' = (gray \ {n}) \cup Markable(Children(n), marked \cup {n})
    /\ UNCHANGED <<heapVars, ctlVars, full, gen_gc, next_gen_gc, max_gen, scan,
                   loop, todo, num_freed>>

\* gc_inc cannot enlarge gcstack: the marking that is left is abandoned.
GcStackOverflow ==
    /\ pc = "mark"
    /\ gray # {}
    /\ gc_overflow_flag' = TRUE
    /\ gray' = {}
    /\ UNCHANGED <<heapVars, pc, pending, throwing, full, gen_gc, next_gen_gc,
                   max_gen, marked, scan, loop, todo, num_freed>>

\* Mutant: children that are young but not collected this time do not count.
Younger_OnlyCollected(n) == {m \in Children(n) : my_gen[m] <= gen_gc}
Younger(n) == {m \in Children(n) : my_gen[m] < my_gen[n]}

\* inter_gen_mark: a remembered node of a generation that is not collected
\* passes its younger children to mark(); one that has none is forgotten.
InterGenMark(n) ==
    /\ pc = "mark"
    /\ gray = {}
    /\ n \in scan
    /\ scan' = scan \ {n}
    /\ IF my_gen[n] <= gen_gc
       THEN UNCHANGED <<gray, oldyoungs>>
       ELSE /\ gray' = IF gc_overflow_flag THEN {} ELSE Markable(Younger(n), marked)
            /\ oldyoungs' = IF Younger(n) = {} THEN oldyoungs \ {n} ELSE oldyoungs
    /\ UNCHANGED <<kind, ptr, my_gen, gen_age, generation, free_list,
                   reserve_tank, segs, mem_nodes, regs, ctlVars, full, gen_gc,
                   next_gen_gc, max_gen, marked, loop, todo, num_freed>>

\* gc() returns after the mark phase when gcstack overflowed: nothing is freed.
GcAbandon ==
    /\ pc = "mark"
    /\ gray = {} /\ scan = {}
    /\ gc_overflow_flag
    /\ pc' = "run"
    /\ GcVarsReset
    /\ UNCHANGED <<heapVars, pending, throwing, gc_overflow_flag, full, gen_gc,
                   next_gen_gc, max_gen>>

-----------------------------------------------------------------------------
(* gc(): the sweep phase, from generation gen_gc down to 0. *)

StartSweep ==
    /\ pc = "mark"
    /\ gray = {} /\ scan = {}
    /\ ~gc_overflow_flag
    /\ pc' = "sweep"
    /\ loop' = gen_gc
    /\ todo' = generation[gen_gc]
    /\ UNCHANGED <<heapVars, pending, throwing, gc_overflow_flag, full, gen_gc,
                   next_gen_gc, max_gen, marked, gray, scan, num_freed>>

\* A marked node has survived.  In the oldest generation gen_age goes on falling
\* without effect; the model stops it at 0.
Aged(n) == IF gen_age[n] = 0 THEN 0 ELSE gen_age[n] - 1
\* Mutant: the oldest generation is promoted as well.
Promotable_Oldest(n) == Aged(n) = 0
Promotable(n) == Aged(n) = 0 /\ loop < NumGens - 1

SweepKeep(n) ==
    /\ pc = "sweep"
    /\ n \in todo /\ n \in marked
    /\ ~Promotable(n)
    /\ todo' = todo \ {n}
    /\ gen_age' = [gen_age EXCEPT ![n] = Aged(n)]
    /\ UNCHANGED <<kind, ptr, my_gen, generation, free_list, oldyoungs,
                   reserve_tank, segs, mem_nodes, regs, ctlVars, full, gen_gc,
                   next_gen_gc, max_gen, marked, gray, scan, loop, num_freed>>

\* check_oldyoung of a node of generation g just promoted and all its children.
RememberPromoted(n, g) ==
    IF \E m \in Children(n) \ {n} : my_gen[m] < g THEN oldyoungs \cup {n} ELSE oldyoungs

\* Promotion: the node may now be older than its children.
SweepPromote(n) ==
    /\ pc = "sweep"
    /\ n \in todo /\ n \in marked
    /\ Promotable(n)
    /\ todo' = todo \ {n}
    /\ generation' = [generation EXCEPT ![loop] = @ \ {n}, ![loop + 1] = @ \cup {n}]
    /\ my_gen' = [my_gen EXCEPT ![n] = loop + 1]
    /\ gen_age' = [gen_age EXCEPT ![n] = AgeThreshold]
    /\ max_gen' = IF max_gen = loop THEN loop + 1 ELSE max_gen
    /\ oldyoungs' = RememberPromoted(n, loop + 1)
    /\ UNCHANGED <<kind, ptr, free_list, reserve_tank, segs, mem_nodes, regs,
                   ctlVars, full, gen_gc, next_gen_gc, marked, gray, scan, loop,
                   num_freed>>

SweepFree(n) ==
    /\ pc = "sweep"
    /\ n \in todo /\ n \notin marked
    /\ todo' = todo \ {n}
    /\ num_freed' = num_freed + 1
    /\ mem_nodes' = mem_nodes - 1
    /\ generation' = [generation EXCEPT ![loop] = @ \ {n}]
    /\ oldyoungs' = oldyoungs \ {n}
    /\ kind' = [kind EXCEPT ![n] = NTFREE]
    /\ free_list' = free_list \cup {n}
    /\ UNCHANGED <<ptr, my_gen, gen_age, reserve_tank, segs, regs, ctlVars, full,
                   gen_gc, next_gen_gc, max_gen, marked, gray, scan, loop>>

SweepNextGen ==
    /\ pc = "sweep"
    /\ todo = {}
    /\ loop > 0
    /\ loop' = loop - 1
    /\ todo' = generation[loop - 1]
    /\ UNCHANGED <<heapVars, ctlVars, full, gen_gc, next_gen_gc, max_gen, marked,
                   gray, scan, num_freed>>

-----------------------------------------------------------------------------
(* gc(): after the sweep. *)

NextSegment == {i \in DOMAIN Segment \ segs :
                    \A j \in DOMAIN Segment \ segs : i <= j}

\* addseg: malloc delivers another segment, and gc() returns.
AddSeg ==
    /\ NextSegment # {}
    /\ segs' = segs \cup NextSegment
    /\ free_list' = free_list \cup UNION {Segment[i] : i \in NextSegment}
    /\ pc' = "run"
    /\ UNCHANGED <<kind, ptr, my_gen, gen_age, generation, oldyoungs,
                   reserve_tank, mem_nodes, regs, throwing>>

\* use_reserve_tank makes the nodes of the tank free nodes again.
\* Mutant: they keep their type.
TankFreed_KeepType == kind
TankFreed == [n \in Node |-> IF n \in reserve_tank THEN NTFREE ELSE kind[n]]

\* addseg fails: err_logo(OUT_OF_MEM) empties the reserve tank into the free
\* list and throws; with no free node even then, Logo exits.
OutOfMem ==
    /\ free_list' = free_list \cup reserve_tank
    /\ reserve_tank' = {}
    /\ kind' = TankFreed
    /\ throwing' = TRUE
    /\ pc' = IF free_list' = {} THEN "exit" ELSE "run"
    /\ UNCHANGED <<ptr, my_gen, gen_age, generation, oldyoungs, segs, mem_nodes,
                   regs>>

\* Mutant: the collection never goes deeper.
NextGenGc_Shallow == 0
NextGenGc == IF num_freed <= FreedThreshold /\ gen_gc < max_gen THEN gen_gc + 1 ELSE 0

\* After the sweep of generation 0: the next collection goes one generation
\* deeper when this one freed little.
GcEnd ==
    /\ pc = "sweep" /\ todo = {} /\ loop = 0
    /\ next_gen_gc' = NextGenGc
    /\ GcVarsReset
    /\ UNCHANGED <<full, gen_gc, max_gen, gc_overflow_flag, pending>>

TooFewFreed == num_freed < FreedThreshold
Exhausted == num_freed < MinFreed /\ gen_gc = max_gen /\ ~full

GcEndAddSeg == GcEnd /\ TooFewFreed /\ AddSeg
GcEndOutOfMem == GcEnd /\ TooFewFreed /\ Exhausted /\ OutOfMem

\* Enough nodes were freed, or addseg failed and gc() returns without an error.
GcEndReturn ==
    /\ GcEnd
    /\ TooFewFreed => ~Exhausted
    /\ pc' = "run"
    /\ UNCHANGED <<heapVars, throwing>>

\* Once gcstack has overflowed gc() only tries to add a segment.
GcAfterOverflow ==
    /\ pc = "run"
    /\ gc_overflow_flag
    /\ Mutating \/ free_list = {}
    /\ ~throwing
    /\ AddSeg \/ OutOfMem
    /\ pending' = (free_list = {})
    /\ UNCHANGED <<gc_overflow_flag, gcVars>>

-----------------------------------------------------------------------------
Mutator ==
    \/ \E n \in Node, k \in Kind : NewNode(n, k)
    \/ \E n \in Node, f \in Field, v \in Node \cup {NIL} : SetField(n, f, v)
    \/ \E n \in Node, f \in Field : Load(n, f)
    \/ \E n \in Node : Drop(n)
    \/ TopLevelRecover
    \/ \E S \in SUBSET Node : FillReserveTank(S)
    \/ \E no_error \in BOOLEAN : GcCommand(no_error)

Collector ==
    \/ NewNodeGc
    \/ \E n \in Node : MarkNode(n)
    \/ GcStackOverflow
    \/ \E n \in Node : InterGenMark(n)
    \/ GcAbandon
    \/ StartSweep
    \/ \E n \in Node : SweepKeep(n) \/ SweepPromote(n) \/ SweepFree(n)
    \/ SweepNextGen
    \/ GcEndAddSeg \/ GcEndOutOfMem \/ GcEndReturn
    \/ GcAfterOverflow

Next == Mutator \/ Collector

Spec == Init /\ [][Next]_vars

\* gc() is a C function that runs to its end, and newnode goes on from there.
Fairness ==
    /\ WF_vars(Collector /\ (pending \/ pc # "run"))
    /\ WF_vars(pending /\ \E n \in Node, k \in Kind : NewNode(n, k))

FairSpec == Spec /\ Fairness

-----------------------------------------------------------------------------
(* Properties. *)

TypeOK ==
    /\ kind \in [Node -> Kind \cup {NTFREE}]
    /\ ptr \in [Node -> [Field -> Node \cup {NIL}]]
    /\ my_gen \in [Node -> Gen]
    /\ gen_age \in [Node -> Nat]
    /\ generation \in [Gen -> SUBSET Node]
    /\ free_list \subseteq Node
    /\ oldyoungs \subseteq Node
    /\ reserve_tank \subseteq Node
    /\ segs \subseteq DOMAIN Segment
    /\ mem_nodes \in Int
    /\ regs \subseteq Node
    /\ pc \in {"run", "mark", "sweep", "exit"}
    /\ pending \in BOOLEAN
    /\ throwing \in BOOLEAN
    /\ gc_overflow_flag \in BOOLEAN
    /\ full \in BOOLEAN
    /\ gen_gc \in Gen
    /\ next_gen_gc \in Gen
    /\ max_gen \in Gen
    /\ marked \subseteq Node
    /\ gray \subseteq Node
    /\ scan \subseteq Node
    /\ loop \in Gen
    /\ todo \subseteq Node
    /\ num_freed \in Nat

\* Every node of every segment is in exactly one place: on the free list, in the
\* reserve tank, or on the list of the one generation its my_gen names.
HeapPartition ==
    /\ UNION {Segment[i] : i \in segs} = free_list \cup reserve_tank \cup InUse
    /\ free_list \cap reserve_tank = {}
    /\ InUse \cap (free_list \cup reserve_tank) = {}
    /\ \A g \in Gen : \A n \in generation[g] : my_gen[n] = g
    /\ \A n \in Node : kind[n] # NTFREE <=> n \in InUse \cup reserve_tank

\* Nodes the collection under way has found to be garbage and will free.
Condemned == IF pc = "sweep"
             THEN {n \in InUse : my_gen[n] <= gen_gc /\ n \notin marked} ELSE {}

Kept == InUse \ Condemned

\* Memory safety of the collector: whatever the mutator can get at by following
\* pointers from its registers, in however many steps, is in use and stays in
\* use.  A node that is freed while some register or some kept node still points
\* to it would be handed out again by newnode and break this.
NoDangling ==
    /\ regs \subseteq Kept
    /\ \A n \in Kept : \A f \in PtrFields[kind[n]] : ptr[n][f] \in Kept \cup {NIL}

\* The remembered set is complete: a node that points to a node of a younger
\* generation is on the oldyoungs list, at every moment, although setcar and its
\* fellows, the promotion in the sweep and inter_gen_mark all edit that list.
OldYoungComplete ==
    \A n \in Kept : \A m \in Children(n) : my_gen[m] < my_gen[n] => n \in oldyoungs

-----------------------------------------------------------------------------
(* The inductive invariant behind NoDangling and OldYoungComplete. *)

\* While the marking goes on without overflow, the nodes of the generations being
\* collected that are reached in one step from a register, from a marked node or
\* from an older node already scanned are marked or wait on gcstack.
MarkInv ==
    pc = "mark" /\ ~gc_overflow_flag =>
        /\ \A n \in regs : my_gen[n] <= gen_gc => n \in marked \cup gray
        /\ \A n \in InUse : \A f \in PtrFields[kind[n]] :
             /\ n \in marked \/ (my_gen[n] > gen_gc /\ n \notin scan)
             /\ ptr[n][f] # NIL
             /\ my_gen[ptr[n][f]] <= gen_gc
             => ptr[n][f] \in marked \cup gray

\* The sweep goes down the generations: what is condemned is on a list that it
\* still has to walk.
SweepInv ==
    pc = "sweep" =>
        /\ loop <= gen_gc
        /\ todo \subseteq generation[loop]
        /\ \A n \in Condemned : my_gen[n] < loop \/ n \in todo

HeapInv == TypeOK /\ HeapPartition /\ NoDangling /\ OldYoungComplete
           /\ MarkInv /\ SweepInv
=============================================================================
