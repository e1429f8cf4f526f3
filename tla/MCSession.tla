----------------------------- MODULE MCSession -----------------------------
(* A small session for TLC.                                                *)
EXTENDS Session
=============================================================================
