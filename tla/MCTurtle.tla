------------------------------ MODULE MCTurtle ------------------------------
(* A screen of five by three pixels; a record buffer of 380 bytes takes    *)
(* three or four commands before the next one is chained to it.            *)
EXTENDS Turtle

Small == {-2, 1, 3}
Columns == {0, 3}
Rows == {1}
=============================================================================
