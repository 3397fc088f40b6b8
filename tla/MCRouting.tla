----------------------------- MODULE MCRouting -----------------------------
(* Small instances of Routing for TLC: a bridge b1, its successor b2 in the *)
(* same thread, resumed in another directory, and b3 of another thread.     *)
EXTENDS Routing

CONSTANTS b1, b2, b3, x, w1, w2

MCThread == [i \in Bridges |-> IF i = b3 THEN 2 ELSE 1]
MCPid    == [i \in Bridges |-> i]
NotInB1  == [i \in Bridges |-> IF i = b1 THEN {} ELSE {x}]
InB1     == [i \in Bridges |-> {x}]
=============================================================================
