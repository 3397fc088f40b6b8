---------------------------- MODULE RequestLedger ----------------------------
(***************************************************************************)
(* What a Claude session that sends requests to a cxpeer bridge may count  *)
(* on, without threads, locks, hooks or `codex queue`: each request it can *)
(* be answered on is answered after a turn that worked on it, or declined  *)
(* with a note before any turn did, once, and not after the bridge is gone.*)
(***************************************************************************)
CONSTANT Requests

VARIABLES request, \* the state of each request
          up       \* the bridge is there

Init == request = [r \in Requests |-> "absent"] /\ up = TRUE

Move(r, from, to) ==
    /\ up /\ request[r] = from
    /\ request' = [request EXCEPT ![r] = to]
    /\ UNCHANGED up

Open(r)    == Move(r, "absent", "open")
Work(r)    == Move(r, "open", "working")
Answer(r)  == Move(r, "working", "answered")
Decline(r) == Move(r, "open", "declined")

GoDown == up /\ up' = FALSE /\ UNCHANGED request

Next == (\E r \in Requests : Open(r) \/ Work(r) \/ Answer(r) \/ Decline(r)) \/ GoDown

Spec == Init /\ [][Next]_<<request, up>>
=============================================================================
