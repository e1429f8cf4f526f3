----------------------------- MODULE MCWorkspace -----------------------------
(* A plain name, one that the library has, and a primitive; one variable   *)
(* besides the two of Logo; one property list with two properties.         *)
EXTENDS Workspace

CONSTANTS p, lib, prim, redefp, unburyonedit, x, b

None == [k \in Kind |-> {}]
SomeArgs ==
    {[None EXCEPT !.proc = {n}] : n \in Proc} \cup
    {[None EXCEPT !.proc = {lib, prim}, !.val = {x}], [None EXCEPT !.proc = {p}, !.val = {x, unburyonedit}, !.plist = {x}]}
TwoProps == {<<"x", 1>>, <<"y", 1>>}
=============================================================================
