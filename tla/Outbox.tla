------------------------------- MODULE Outbox -------------------------------
(***************************************************************************)
(* The file outbox of cxpeer: how `cxpeer send` reaches a peer from inside *)
(* Codex's sandbox.  The client (client._send_via_outbox) drops a request  *)
(* file into the bridge's outbox directory and polls for a result file;    *)
(* the bridge claims requests by renaming them, relays each in a thread of *)
(* its own and writes the result; at exit it empties the directory.        *)
(*                                                                         *)
(* Client and bridge share nothing but the directory.  An action is one    *)
(* file-system call, or the relay between two of them.  The bridge may be  *)
(* stopped or killed anywhere and a hook may start the next one, which     *)
(* serves the same directory.                                              *)
(***************************************************************************)
EXTENDS Naturals

CONSTANTS Reqs,       \* send requests, one client process each
          MaxStarts   \* bound: how many bridges serve the directory in turn

ASSUME StartsAssumption == MaxStarts \in Nat

VARIABLES
    dir,       \* whether the outbox directory is there or missing
    files,     \* what is in it: the kinds of file there are of each request
    content,   \* what the result file of a request says
    client,    \* where the client is, or what it reported
    worker,    \* where the request's relay thread is
    verdict,   \* on_relay's answer, held by that thread
    main,      \* where the bridge's main thread is
    listed,    \* _drain_outbox's local `requests`, what is left of it
    doomed,    \* _remove_outbox's directory listing, what is left of it
    starts,    \* how many bridges have been started
    sent,      \* history: how often the request's text was handed over
    arrived,   \* history: how often the peer it was handed to has taken it
    withdrawn  \* history: requests their client took back unclaimed

bridge == <<worker, verdict, main, listed, doomed, starts, sent>>
vars == <<dir, files, content, client, withdrawn, arrived, bridge>>

Kinds == {"tmp", "json", "claimed", "result.tmp", "result"}
Alive == main # "down"
DirExists == dir = "there"
NoFiles == [r \in Reqs |-> {}]
File(r, kind) == kind \in files[r]
Added(r, kind) == [files EXCEPT ![r] = @ \cup {kind}]
Removed(r, kind) == [files EXCEPT ![r] = @ \ {kind}]
Renamed(r, from, to) == [files EXCEPT ![r] = (@ \ {from}) \cup {to}]

Init ==
    /\ dir = "missing" /\ files = NoFiles
    /\ content = [r \in Reqs |-> "none"]
    /\ client  = [r \in Reqs |-> "new"]
    /\ worker  = [r \in Reqs |-> "none"]
    /\ verdict = [r \in Reqs |-> "none"]
    /\ main = "down" /\ listed = {} /\ doomed = NoFiles /\ starts = 0
    /\ sent = [r \in Reqs |-> 0] /\ arrived = [r \in Reqs |-> 0]
    /\ withdrawn = {}

-----------------------------------------------------------------------------
(* The client.                                                             *)

WriteTmp(r) ==
    /\ client[r] = "new"
    /\ IF DirExists
       THEN /\ client' = [client EXCEPT ![r] = "writing"]
            /\ files' = Added(r, "tmp")
       ELSE /\ client' = [client EXCEPT ![r] = "error"]
            /\ files' = files
    /\ UNCHANGED <<dir, content, withdrawn, arrived, bridge>>

\* os.replace; a bridge that cleans up may have swept the file away.
Publish(r) ==
    /\ client[r] = "writing"
    /\ IF File(r, "tmp")
       THEN /\ client' = [client EXCEPT ![r] = "waiting"]
            /\ files' = Renamed(r, "tmp", "json")
       ELSE /\ client' = [client EXCEPT ![r] = "error"]
            /\ files' = files
    /\ UNCHANGED <<dir, content, withdrawn, arrived, bridge>>

ReadResult(r) ==
    /\ client[r] = "waiting" /\ File(r, "result")
    /\ client' = [client EXCEPT ![r] = content[r]]
    /\ files' = Removed(r, "result")
    /\ UNCHANGED <<dir, content, withdrawn, arrived, bridge>>

\* Six seconds without a result: take the request back, report a failure.
GiveUp(r) ==
    /\ client[r] = "waiting"
    /\ client' = [client EXCEPT ![r] = "gave up"]
    /\ files' = Removed(r, "json")
    /\ withdrawn' = IF File(r, "json") THEN withdrawn \cup {r} ELSE withdrawn
    /\ UNCHANGED <<dir, content, arrived, bridge>>

\* Codex kills the shell command `cxpeer send` runs in; its file stays.
Abandon(r) ==
    /\ client[r] \in {"writing", "waiting"}
    /\ client' = [client EXCEPT ![r] = "killed"]
    /\ UNCHANGED <<dir, files, content, withdrawn, arrived, bridge>>

-----------------------------------------------------------------------------
(* The bridge's main thread: list the requests, claim them one by one.     *)

Start ==
    /\ main = "down" /\ starts < MaxStarts
    /\ main' = "loop" /\ starts' = starts + 1
    /\ dir' = "there"
    /\ UNCHANGED <<files, content, client, withdrawn, arrived, worker, verdict,
                   listed, doomed, sent>>

ListRequests ==
    /\ main = "loop"
    /\ listed' = {r \in Reqs : File(r, "json")}
    /\ listed' # {}
    /\ main' = "draining"
    /\ UNCHANGED <<dir, files, content, client, withdrawn, arrived, worker,
                   verdict, doomed, starts, sent>>

\* Mutant: the listing is trusted, a request withdrawn since is relayed too.
Claim_Trusts(r) ==
    /\ main = "draining" /\ r \in listed
    /\ listed' = listed \ {r}
    /\ main' = IF listed' = {} THEN "loop" ELSE "draining"
    /\ files' = Renamed(r, "json", "claimed")
    /\ worker' = [worker EXCEPT ![r] = "claimed"]
    /\ UNCHANGED <<dir, content, client, withdrawn, arrived, verdict, doomed,
                   starts, sent>>

\* Mutant: the request file stays where it is until it has been relayed.
Claim_Leaves(r) ==
    /\ main = "draining" /\ r \in listed
    /\ listed' = listed \ {r}
    /\ main' = IF listed' = {} THEN "loop" ELSE "draining"
    /\ IF File(r, "json")
       THEN /\ files' = Added(r, "claimed")
            /\ worker' = [worker EXCEPT ![r] = "claimed"]
       ELSE UNCHANGED <<files, worker>>
    /\ UNCHANGED <<dir, content, client, withdrawn, arrived, verdict, doomed,
                   starts, sent>>

\* Mutant: a request that is gone ends the round, the others are forgotten.
Claim_Stops(r) ==
    /\ main = "draining" /\ r \in listed
    /\ listed' = listed \ {r}
    /\ main' = IF listed' = {} \/ ~File(r, "json") THEN "loop" ELSE "draining"
    /\ IF File(r, "json")
       THEN /\ files' = Renamed(r, "json", "claimed")
            /\ worker' = [worker EXCEPT ![r] = "claimed"]
       ELSE UNCHANGED <<files, worker>>
    /\ UNCHANGED <<dir, content, client, withdrawn, arrived, verdict, doomed,
                   starts, sent>>

\* os.rename; it fails, and the request is skipped, when the file is gone.
Claim(r) ==
    /\ main = "draining" /\ r \in listed
    /\ listed' = listed \ {r}
    /\ main' = IF listed' = {} THEN "loop" ELSE "draining"
    /\ IF File(r, "json")
       THEN /\ files' = Renamed(r, "json", "claimed")
            /\ worker' = [worker EXCEPT ![r] = "claimed"]
       ELSE UNCHANGED <<files, worker>>
    /\ UNCHANGED <<dir, content, client, withdrawn, arrived, verdict, doomed,
                   starts, sent>>

-----------------------------------------------------------------------------
(* A relay thread.                                                         *)

WorkerStep(r, from, to) ==
    /\ Alive /\ worker[r] = from
    /\ worker' = [worker EXCEPT ![r] = to]
    /\ UNCHANGED <<dir, client, withdrawn, arrived, main, listed, doomed,
                   starts>>

\* Cleanup may have swept the claimed file: the request is then dropped.
ReadRequest(r) ==
    /\ WorkerStep(r, "claimed", IF File(r, "claimed") THEN "read" ELSE "none")
    /\ UNCHANGED <<files, content, verdict, sent>>

\* Mutant: a failed relay raises and ends the thread.
Relay_Raises(r) ==
    /\ \/ /\ WorkerStep(r, "read", "relayed")
          /\ verdict' = [verdict EXCEPT ![r] = "ok"]
          /\ sent' = [sent EXCEPT ![r] = @ + 1]
       \/ /\ WorkerStep(r, "read", "none")
          /\ UNCHANGED <<verdict, sent>>
    /\ UNCHANGED <<files, content>>

\* on_relay finds the peer and hands the text over, or says why it could not.
\* "ok" is all that a sendall that has returned can mean: the text is in the
\* peer's socket.  One that raises has left the end of the line behind.
Relay(r) ==
    /\ WorkerStep(r, "read", "relayed")
    /\ \/ /\ verdict' = [verdict EXCEPT ![r] = "ok"]
          /\ sent' = [sent EXCEPT ![r] = @ + 1]
       \/ /\ verdict' = [verdict EXCEPT ![r] = "failed"]
          /\ UNCHANGED sent
    /\ UNCHANGED <<files, content>>

\* _write_json_atomic.  Without the directory, or when cleanup has swept the
\* temporary file, the result cannot be written; that is logged only.
BeginResult(r) ==
    /\ WorkerStep(r, "relayed", IF DirExists THEN "writing" ELSE "written")
    /\ files' = IF DirExists THEN Added(r, "result.tmp") ELSE files
    /\ UNCHANGED <<content, verdict, sent>>

\* Mutant: the result is written without asking what on_relay said.
PutResult_Ok(r) ==
    /\ WorkerStep(r, "writing", "written")
    /\ IF File(r, "result.tmp")
       THEN /\ files' = Renamed(r, "result.tmp", "result")
            /\ content' = [content EXCEPT ![r] = "ok"]
       ELSE UNCHANGED <<files, content>>
    /\ UNCHANGED <<verdict, sent>>

PutResult(r) ==
    /\ WorkerStep(r, "writing", "written")
    /\ IF File(r, "result.tmp")
       THEN /\ files' = Renamed(r, "result.tmp", "result")
            /\ content' = [content EXCEPT ![r] = verdict[r]]
       ELSE UNCHANGED <<files, content>>
    /\ UNCHANGED <<verdict, sent>>

Unclaim(r) ==
    /\ WorkerStep(r, "written", "none")
    /\ files' = Removed(r, "claimed")
    /\ UNCHANGED <<content, verdict, sent>>

\* External: the peer takes what is in its socket, however late and whatever
\* has become of the bridge.  It need not: one that drops the connection for a
\* bad token, or dies before it reads, never does.
Arrive(r) ==
    /\ arrived[r] < sent[r]
    /\ arrived' = [arrived EXCEPT ![r] = @ + 1]
    /\ UNCHANGED <<dir, files, content, client, withdrawn, bridge>>

-----------------------------------------------------------------------------
(* The end of a bridge: cleanup's _remove_outbox, or death on the spot.    *)

BeginCleanup ==
    /\ main = "loop"
    /\ main' = "removing"
    /\ doomed' = files
    /\ UNCHANGED <<dir, files, content, client, withdrawn, arrived, worker,
                   verdict, listed, starts, sent>>

Remove(r, kind) ==
    /\ main = "removing" /\ kind \in doomed[r]
    /\ doomed' = [doomed EXCEPT ![r] = @ \ {kind}]
    /\ files' = Removed(r, kind)
    /\ UNCHANGED <<dir, content, client, withdrawn, arrived, worker, verdict,
                   main, listed, starts, sent>>

\* rmdir fails, and that is logged only, when a file has come since.
RemoveDir ==
    /\ main = "removing" /\ doomed = NoFiles
    /\ main' = "closing"
    /\ dir' = IF files = NoFiles THEN "missing" ELSE dir
    /\ UNCHANGED <<files, content, client, withdrawn, arrived, worker, verdict,
                   listed, doomed, starts, sent>>

\* The process ends and its threads with it; the files stay.
Die ==
    /\ main' = "down"
    /\ worker' = [r \in Reqs |-> "none"]
    /\ verdict' = [r \in Reqs |-> "none"]
    /\ listed' = {} /\ doomed' = NoFiles
    /\ UNCHANGED <<dir, files, content, client, withdrawn, arrived, starts,
                   sent>>

Exit  == main = "closing" /\ Die
Crash == main \in {"loop", "draining", "removing"} /\ Die

-----------------------------------------------------------------------------
ClientStep(r) == WriteTmp(r) \/ Publish(r) \/ ReadResult(r) \/ GiveUp(r) \/ Abandon(r)
RelayStep(r) == \/ ReadRequest(r) \/ Relay(r) \/ BeginResult(r)
                \/ PutResult(r) \/ Unclaim(r)
MainStep == \/ Start \/ ListRequests \/ BeginCleanup \/ RemoveDir \/ Exit \/ Crash
            \/ \E r \in Reqs : Claim(r)
            \/ \E r \in Reqs, kind \in Kinds : Remove(r, kind)

Next == (\E r \in Reqs : ClientStep(r) \/ RelayStep(r) \/ Arrive(r)) \/ MainStep

Spec == Init /\ [][Next]_vars

(* Fairness: a running bridge keeps polling and its relays return: the     *)
(* connection has a time-out, the ps of the lookup before it has none and  *)
(* is taken to end.  A waiting client polls.  Nobody must start or stop,   *)
(* and no peer must take what it was sent.                                 *)
FairSpec ==
    /\ Spec
    /\ WF_vars(ListRequests)
    /\ \A r \in Reqs : /\ WF_vars(Claim(r)) /\ WF_vars(RelayStep(r))
                       /\ WF_vars(ReadResult(r))

-----------------------------------------------------------------------------
(* What the outbox promises.                                               *)

\* Every variable holds a value the program can give it, and the main thread
\* holds a list of requests exactly while it works through it.
TypeOK ==
    /\ dir \in {"there", "missing"} /\ files \in [Reqs -> SUBSET Kinds]
    /\ content \in [Reqs -> {"none", "ok", "failed"}]
    /\ client \in [Reqs -> {"new", "writing", "waiting", "ok", "failed",
                            "gave up", "killed", "error"}]
    /\ worker \in [Reqs -> {"none", "claimed", "read", "relayed", "writing",
                            "written"}]
    /\ verdict \in [Reqs -> {"none", "ok", "failed"}]
    /\ main \in {"loop", "draining", "removing", "closing", "down"}
    /\ listed \subseteq Reqs /\ (listed # {} <=> main = "draining")
    /\ doomed \in [Reqs -> SUBSET Kinds]
    /\ (doomed # NoFiles => main = "removing")
    /\ starts \in 0..MaxStarts
    /\ sent \in [Reqs -> Nat] /\ arrived \in [Reqs -> Nat]
    /\ withdrawn \subseteq Reqs

\* _drain_outbox: "atomic: a request is relayed at most once", whichever
\* bridge of the directory relays it and wherever one of them dies.
RelayedAtMostOnce == \A r \in Reqs : sent[r] <= 1

\* A client that reports success has had its text handed over to a peer's
\* socket (whether the peer takes it, nobody tells the client), and where the
\* relay's failure is reported no peer has had the text or ever will, not even
\* from a bridge that died after it had relayed it (one that gave up does not
\* know).
ReportsAreTrue ==
    \A r \in Reqs : /\ client[r] = "ok" => sent[r] = 1
                    /\ client[r] = "failed" => sent[r] = 0 /\ arrived[r] = 0

\* A request its client took back before it was claimed is never relayed,
\* though the main thread may still have it on its list.
WithdrawnIsNotRelayed == \A r \in withdrawn : sent[r] = 0

\* A dropped request gets an answer as long as the bridge keeps running,
\* even if it was dropped for a bridge that has died since.
DroppedIsAnswered ==
    \A r \in Reqs : File(r, "json") ~>
        client[r] # "waiting" \/ main \notin {"loop", "draining"}

-----------------------------------------------------------------------------
(* The outbox implements SendLedger, as its senders see it.                *)

\* What a client reports says how its request ended.  One that gives up
\* reports the same whether it could take the request back or not.
Outcome(r) ==
    CASE client[r] \in {"new", "writing", "waiting"} -> "open"
      [] client[r] = "ok"                           -> "success"
      [] client[r] \in {"failed", "error"}          -> "failure"
      [] client[r] = "gave up" /\ r \in withdrawn   -> "taken back"
      [] OTHER                                      -> "unknown"

Ledger == INSTANCE SendLedger
            WITH Requests <- Reqs, outcome <- [r \in Reqs |-> Outcome(r)]

\* Every step of clients, relay threads, bridges and peers, deaths included,
\* is a step of the ledger or none: no text is handed over or arrives twice,
\* or after its client has reported a failure or has taken it back, and none
\* is handed over after its client has reported success, whoever relays it.
ImplementsSends == Ledger!Spec
=============================================================================
