------------------------------- MODULE MCData -------------------------------
(* Two variables, a heap of four nodes, one word in two cases.  The        *)
(* variables are interchangeable, and so are the nodes: a new one is any   *)
(* free one, and nothing asks which.                                       *)
EXTENDS Data, Arithmetic

LowerCase(w) == IF w = "AB" THEN "ab" ELSE w
(* All floats up to 2 ^ Precision, and some above.                         *)
MCFractions == {<<n, 1024>> : n \in -16383 .. 16383} \cup {<<n, 1>> : n \in {-63, -31, 17, 26, 31, 35, 126, 1000}}

(* The properties of Arithmetic are about no state; they are checked in    *)
(* the first one, before any call.                                         *)
Once(P) == ops = 0 => P
(* SUM, DIFFERENCE and PRODUCT are exact or near (math.c:304-381),         *)
(* QUOTIENT, REMAINDER and MODULO fit each other (328-352), LESSP and      *)
(* EQUALP keep the order of the numbers (563-590), INT, ROUND and          *)
(* integer_arg keep the value (255, and lists.c:496).                      *)
NumbersAreRight == Once(SumsAreExact /\ DivisionAgrees /\ OrderIsKept /\ ConversionsKeepValue)

Symmetry == Permutations(Var) \cup Permutations(NODE)
=============================================================================
