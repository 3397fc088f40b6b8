----------------------------- MODULE SendLedger -----------------------------
(***************************************************************************)
(* What a Codex session that sends from its sandbox may count on, without  *)
(* files, renames, polls or bridges that come and go: a text is handed     *)
(* over to its peer once at most, and arrives then, later or never; success *)
(* is reported after it was handed over, whether or not it arrives, and a  *)
(* failure only if it never was and never will be; a request taken back in *)
(* time never is.  What becomes of one that was left at a time-out, or     *)
(* whose sender has died, nobody can tell.                                 *)
(***************************************************************************)
CONSTANT Requests

VARIABLES outcome,  \* how each request ended for its sender
          sent,     \* how often the text of each was handed over to its peer
          arrived   \* how often the peer has taken it

Init == /\ outcome = [r \in Requests |-> "open"]
        /\ sent = [r \in Requests |-> 0]
        /\ arrived = [r \in Requests |-> 0]

\* Nothing is handed over of which it is known how it ended.
HandOver(r) ==
    /\ sent[r] = 0 /\ outcome[r] \in {"open", "unknown"}
    /\ sent' = [sent EXCEPT ![r] = 1]
    /\ UNCHANGED <<outcome, arrived>>

\* The peer takes it, before or after the sender is told, or never does.
Arrive(r) ==
    /\ sent[r] = 1 /\ arrived[r] = 0
    /\ arrived' = [arrived EXCEPT ![r] = 1]
    /\ UNCHANGED <<outcome, sent>>

End(r, how) ==
    /\ outcome[r] = "open"
    /\ outcome' = [outcome EXCEPT ![r] = how]
    /\ UNCHANGED <<sent, arrived>>

Succeed(r)  == sent[r] = 1 /\ End(r, "success")
Fail(r)     == sent[r] = 0 /\ End(r, "failure")
TakeBack(r) == sent[r] = 0 /\ End(r, "taken back")
Lose(r)     == End(r, "unknown")

Next == \E r \in Requests : \/ HandOver(r) \/ Arrive(r) \/ Succeed(r)
                            \/ Fail(r) \/ TakeBack(r) \/ Lose(r)

Spec == Init /\ [][Next]_<<outcome, sent, arrived>>
=============================================================================
