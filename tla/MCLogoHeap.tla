------------------------------ MODULE MCLogoHeap ------------------------------
(***************************************************************************)
(* Small heaps for TLC.                                                    *)
(***************************************************************************)
EXTENDS LogoHeapStore, TLC

CONSTANTS n1, n2

Field1 == {"cdr"}
MixedFields == [k \in {"CONS", "INTT"} |-> IF k = "CONS" THEN Field1 ELSE {}]

SmallSegments == 1 :> {n1} @@ 2 :> {n2}

\* newnode always comes back: its loop of collections ends with a node, or with
\* the exit for lack of memory.
AllocAnswered == pending ~> (~pending \/ pc = "exit")
=============================================================================
