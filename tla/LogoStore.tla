------------------------------ MODULE LogoStore ------------------------------
(***************************************************************************)
(* What the memory manager promises the rest of the interpreter: pairs can *)
(* be made, changed, followed and forgotten, and nothing else ever happens *)
(* to them.  There is no free list, no generation and no collection here;  *)
(* the store holds exactly the nodes the registers can reach.              *)
(***************************************************************************)
CONSTANTS Node, NIL, Kind, Field, PtrFields

VARIABLES
    held,   \* the nodes registers hold
    cells   \* type and fields of every node that can be reached from held

vars == <<held, cells>>

Cell == [kind : Kind, ptr : [Field -> Node \cup {NIL}]]

\* The pointers of the nodes in the domain of c.
Points(c, n) == {c[n].ptr[f] : f \in PtrFields[c[n].kind]} \ {NIL}

\* From the nodes of C the pointers lead to nodes of C only.
Closed(c, C) == \A n \in C \cap DOMAIN c : Points(c, n) \subseteq C

\* The nodes reached from S: those of every closed set around S.
Reach(c, S) == {n \in Node : \A C \in SUBSET Node : S \subseteq C /\ Closed(c, C) => n \in C}

\* What is left of c when only the nodes in S are held.
Prune(c, S) == [n \in Reach(c, S) |-> c[n]]

Init == held = {} /\ cells = <<>>

\* A new node, different from all nodes in sight, with empty fields.
Make(n, k) ==
    /\ n \notin DOMAIN cells
    /\ held' = held \cup {n}
    /\ cells' = [m \in DOMAIN cells \cup {n} |->
                    IF m = n THEN [kind |-> k, ptr |-> [f \in Field |-> NIL]]
                    ELSE cells[m]]

Set(n, f, v) ==
    /\ n \in held /\ v \in held \cup {NIL}
    /\ f \in PtrFields[cells[n].kind]
    /\ held' = held
    /\ cells' = Prune([cells EXCEPT ![n].ptr[f] = v], held)

Follow(n, f) ==
    /\ n \in held
    /\ f \in PtrFields[cells[n].kind]
    /\ cells[n].ptr[f] # NIL
    /\ held' = held \cup {cells[n].ptr[f]}
    /\ cells' = cells

Forget(n) ==
    /\ n \in held
    /\ held' = held \ {n}
    /\ cells' = Prune(cells, held')

Next ==
    \/ \E n \in Node, k \in Kind : Make(n, k)
    \/ \E n \in Node, f \in Field, v \in Node \cup {NIL} : Set(n, f, v)
    \/ \E n \in Node, f \in Field : Follow(n, f)
    \/ \E n \in Node : Forget(n)

Spec == Init /\ [][Next]_vars
=============================================================================
