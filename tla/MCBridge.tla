------------------------------ MODULE MCBridge ------------------------------
(* Small instances of Bridge for TLC: two messages, one or two subscribers. *)
EXTENDS Bridge, TLC

CONSTANTS m1, m2, c1, c2

OwnShortId  == [m \in Msgs |-> {m}]        \* short ids that differ
SameShortId == [m \in Msgs |-> Msgs]       \* short ids that collide
OwnSock     == [c \in Subs |-> c]          \* every subscriber at its own socket
SharedSock  == [c \in Subs |-> "sock"]     \* both subscriptions of one session
Answers     == {"answer"}
OftenAnswers == {"answer", "interrupted"}
QueuedOrLate == {"queued", "late"}
QueuedOnly  == {"queued"}
NeverLate   == {"queued", "refused", "raised"}
MayRefuse   == {"queued", "refused"}
NeverFails  == {"queued", "raised"}

Symmetric == Permutations(Msgs) \cup Permutations(Subs)
=============================================================================
