------------------------------- MODULE MCOblist -------------------------------
(* Three words, one of them spelled in two ways and one of Logo's own. *)
EXTENDS Oblist, TLC

CONSTANTS o1, o2, o3, o4

LowerCase(s) == IF s = "Foo" THEN "foo" ELSE s
Permute == Permutations(Obj)
=============================================================================
