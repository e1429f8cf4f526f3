------------------------------ MODULE MCProcTrees ------------------------------
(* Two bodies of two or three lines that call one or two procedures, and   *)
(* beside them how a line of words becomes trees (make_tree, paren.c).     *)
EXTENDS ProcTrees, Infix

CONSTANTS p, q, b1, b2

SecondCalls == [b \in Body |-> [i \in Line |-> IF i = 2 THEN Proc ELSE {}]]
AllCalled == [b \in Body |-> [i \in Line |-> IF i = 1 THEN {p} ELSE Proc]]
NoBadLine == {}
SecondIsBad == {<<b1, 2>>}

Operators4 == {"-", "+", "*", "="}
PriorityOf(op) == CASE op = "*" -> 3 [] op \in {"+", "-"} -> 2 [] op = "=" -> 1
TwoProcs == [first |-> <<1, 1, 1>>, sum |-> <<0, 2, -1>>]

(* Infix is about no state: it is checked in the one in which nothing is   *)
(* defined yet.                                                            *)
Once(P) == Init /\ (\A f \in Proc : arity[f] = UNDEFINED) => P
(* An expression written with the least parentheses reads back, and a line *)
(* that is accepted is all in its trees (paren.c:233-480).                 *)
LinesAreTrees == Once(TreesComeBack /\ \A length \in 0 .. 5 : NothingLost(length))
=============================================================================
