------------------------------ MODULE MCOutbox ------------------------------
(* Outbox for TLC: two clients, and two bridges one after the other.        *)
EXTENDS Outbox

CONSTANTS r1, r2
=============================================================================
