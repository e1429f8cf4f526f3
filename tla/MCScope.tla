-------------------------------- MODULE MCScope --------------------------------
(* Small programs for TLC: which constructs they use. *)
EXTENDS Scope

CONSTANTS x, erract, v

Everything == {"default", "repeat", "apply", "catch", "evaluator", "throw"}
=============================================================================
