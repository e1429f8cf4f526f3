---------------------------- MODULE LogoHeapStore ----------------------------
(***************************************************************************)
(* The heap of LogoHeap as the store of LogoStore: the refinement mapping, *)
(* and the properties that speak of what the registers can reach.          *)
(***************************************************************************)
EXTENDS LogoHeap

\* The store the mutator sees: only what its registers reach.
AllCells == [n \in InUse |-> [kind |-> kind[n], ptr |-> ptr[n]]]
Abstract == INSTANCE LogoStore WITH held <- regs, cells <- <<>>
Reached == Abstract!Reach(AllCells, regs)
Visible == [n \in Reached |-> AllCells[n]]

Store == INSTANCE LogoStore WITH held <- regs, cells <- Visible

\* Refinement: no step of a collection, no promotion and no reuse of a node can
\* be observed through the registers.  In particular newnode never returns a node
\* that is still in sight, and the fields of nodes in sight never change behind
\* the mutator's back.
CollectorInvisible == Store!Spec

\* A full collection is exact: when it ends, the nodes in use are those the
\* registers reach, cycles and old garbage included, and mem_nodes is their
\* number ("get real in-use figures", says lnodes).
FullGcExact ==
    pc = "sweep" /\ todo = {} /\ loop = 0 /\ full =>
        /\ InUse = DOMAIN Visible
        /\ mem_nodes = Cardinality(InUse)

-----------------------------------------------------------------------------
(* The inductive invariant behind FullGcExact. *)

\* mem_nodes counts, and the ages of the nodes stay below max_gen.
Counted ==
    /\ IsFiniteSet(InUse) /\ mem_nodes = Cardinality(InUse)
    /\ \A n \in InUse : my_gen[n] <= max_gen
    /\ next_gen_gc <= max_gen
    /\ oldyoungs \subseteq InUse

\* A collection looks at nodes in use only, no older than any there are.  A full
\* one looks at all nodes, marks only what the registers reach, and promotes only
\* what it marked.
Exact ==
    pc \in {"mark", "sweep"} =>
        /\ gen_gc <= max_gen
        /\ pc = "mark" => scan \subseteq InUse
        /\ full =>
            /\ marked \cup gray \subseteq Reached
            /\ \A n \in InUse : my_gen[n] <= gen_gc \/ (pc = "sweep" /\ n \in marked)
=============================================================================
