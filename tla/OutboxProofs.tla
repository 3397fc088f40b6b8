---------------------------- MODULE OutboxProofs ----------------------------
(***************************************************************************)
(* What TLAPS proves about the file outbox: for any number of clients and  *)
(* of bridges that follow each other, the types of its state, that a       *)
(* request is relayed at most once, truthfully reported and, once taken    *)
(* back, never relayed, that the whole implements SendLedger, and that a   *)
(* bridge that keeps running drops no request on the way to its answer.    *)
(*                                                                         *)
(* The invariant follows one request through the directory: as long as its *)
(* .json file is there nobody works on it and nothing has been handed over *)
(* to a peer; whoever claims it holds the only licence to relay it; and a  *)
(* result that exists agrees with what was handed over.                    *)
(***************************************************************************)
EXTENDS Outbox, TLAPS

\* The directories there can be: which files there are of each request.
Directories == [Reqs -> SUBSET Kinds]

\* Nobody has touched the request: it is all its client's.
Untouched(r) == worker[r] = "none" /\ sent[r] = 0 /\ content[r] = "none"

\* The verdict held or published for r agrees with what was sent.
Truthful(r, v) == /\ v = "ok" => sent[r] = 1
                  /\ v = "failed" => sent[r] = 0

RequestInv(r) ==
    /\ client[r] \in {"new", "writing", "error"} =>
           Untouched(r) /\ ~File(r, "json") /\ ~File(r, "result")
    /\ File(r, "json") => Untouched(r)
    /\ worker[r] \in {"claimed", "read"} => sent[r] = 0 /\ content[r] = "none"
    /\ worker[r] \in {"relayed", "writing"} =>
           Truthful(r, verdict[r]) /\ verdict[r] # "none" /\ content[r] = "none"
    /\ sent[r] <= 1 /\ arrived[r] <= sent[r]
    /\ File(r, "result") => content[r] # "none"
    /\ client[r] \in {"ok", "failed"} => client[r] = content[r]
    /\ Truthful(r, content[r])
    /\ r \in withdrawn => Untouched(r) /\ ~File(r, "json") /\ client[r] = "gave up"

OutboxInv == TypeOK /\ \A r \in Reqs : RequestInv(r)

-----------------------------------------------------------------------------
\* The file operations keep the directory a directory, and change one file
\* (the rename two) of one request.
LEMMA DirOps ==
    ASSUME files \in Directories, NEW r \in Reqs, NEW k \in Kinds, NEW l \in Kinds
    PROVE  /\ Added(r, k) \in Directories
           /\ Removed(r, k) \in Directories
           /\ Renamed(r, k, l) \in Directories
           /\ \A q \in Reqs, i \in Kinds :
                 /\ i \in Added(r, k)[q] <=> File(q, i) \/ (q = r /\ i = k)
                 /\ i \in Removed(r, k)[q] <=> File(q, i) /\ ~(q = r /\ i = k)
                 /\ i \in Renamed(r, k, l)[q] <=>
                        \/ q = r /\ i = l
                        \/ File(q, i) /\ ~(q = r /\ i = k)
<1>1. \A X, Y \in SUBSET Kinds : X \cup Y \in SUBSET Kinds /\ X \ Y \in SUBSET Kinds
  OBVIOUS
<1>2. {k} \in SUBSET Kinds /\ {l} \in SUBSET Kinds
  OBVIOUS
<1>3. QED BY <1>1, <1>2 DEF Added, Removed, Renamed, File, Directories

LEMMA KindsAre == /\ "tmp" \in Kinds /\ "json" \in Kinds /\ "claimed" \in Kinds
                  /\ "result.tmp" \in Kinds /\ "result" \in Kinds
BY DEF Kinds

-----------------------------------------------------------------------------
\* The types survive every step, given what is known of each request: a
\* client that reads a result needs it to be one.
LEMMA TypeInductive ==
    /\ Init => TypeOK
    /\ OutboxInv /\ [Next]_vars => TypeOK'
<1>1. Init => TypeOK
  BY StartsAssumption DEF Init, TypeOK, NoFiles
<1>2. ASSUME OutboxInv, [Next]_vars PROVE TypeOK'
  <2>0. /\ TypeOK /\ files \in Directories
        /\ sent \in [Reqs -> Nat] /\ arrived \in [Reqs -> Nat]
        /\ starts \in 0..MaxStarts
    BY <1>2 DEF OutboxInv, TypeOK, Directories
  <2>1. ASSUME NEW r \in Reqs, ClientStep(r) PROVE TypeOK'
    <3>1. CASE WriteTmp(r)
      <4>1. files' \in Directories
        BY <2>0, <3>1, DirOps, KindsAre DEF WriteTmp
      <4>2. QED BY <2>0, <3>1, <4>1 DEF WriteTmp, Directories, TypeOK, bridge
    <3>2. CASE Publish(r)
      <4>1. files' \in Directories
        BY <2>0, <3>2, DirOps, KindsAre DEF Publish
      <4>2. QED BY <2>0, <3>2, <4>1 DEF Publish, Directories, TypeOK, bridge
    <3>3. CASE ReadResult(r)
      <4>1. files' \in Directories
        BY <2>0, <3>3, DirOps, KindsAre DEF ReadResult
      <4>2. content[r] \in {"ok", "failed"}
        BY <1>2, <2>0, <2>1, <3>3 DEF OutboxInv, RequestInv, ReadResult, TypeOK
      <4>3. QED BY <2>0, <3>3, <4>1, <4>2 DEF ReadResult, Directories, TypeOK, bridge
    <3>4. CASE GiveUp(r)
      <4>1. files' \in Directories
        BY <2>0, <3>4, DirOps, KindsAre DEF GiveUp
      <4>2. QED BY <2>0, <3>4, <4>1 DEF GiveUp, Directories, TypeOK, bridge
    <3>5. CASE Abandon(r)
      BY <2>0, <3>5 DEF Abandon, Directories, TypeOK, bridge
    <3>6. QED BY <2>1, <3>1, <3>2, <3>3, <3>4, <3>5 DEF ClientStep
  <2>2. ASSUME NEW r \in Reqs, RelayStep(r) PROVE TypeOK'
    <3>1. CASE ReadRequest(r)
      BY <2>0, <3>1 DEF ReadRequest, WorkerStep, Directories, TypeOK, bridge
    <3>2. CASE Relay(r)
      <4>1. sent' \in [Reqs -> Nat]
        BY <2>0, <3>2 DEF Relay
      <4>2. QED BY <2>0, <3>2, <4>1 DEF Relay, WorkerStep, TypeOK
    <3>3. CASE BeginResult(r)
      <4>1. files' \in Directories
        BY <2>0, <3>3, DirOps, KindsAre DEF BeginResult, WorkerStep
      <4>2. QED BY <2>0, <3>3, <4>1 DEF BeginResult, WorkerStep, Directories, TypeOK, bridge
    <3>4. CASE PutResult(r)
      <4>1. files' \in Directories
        BY <2>0, <3>4, DirOps, KindsAre DEF PutResult, WorkerStep
      <4>2. QED BY <2>0, <3>4, <4>1 DEF PutResult, WorkerStep, Directories, TypeOK, bridge
    <3>5. CASE Unclaim(r)
      <4>1. files' \in Directories
        BY <2>0, <3>5, DirOps, KindsAre DEF Unclaim, WorkerStep
      <4>2. QED BY <2>0, <3>5, <4>1 DEF Unclaim, WorkerStep, Directories, TypeOK, bridge
    <3>6. QED BY <2>2, <3>1, <3>2, <3>3, <3>4, <3>5 DEF RelayStep
  <2>3. CASE MainStep
    <3>1. CASE Start
      <4>1. starts' \in 0..MaxStarts
        BY StartsAssumption, <2>0, <3>1 DEF Start
      <4>2. QED BY <2>0, <3>1, <4>1 DEF Start, TypeOK
    <3>2. CASE ListRequests
      BY <2>0, <3>2 DEF ListRequests, TypeOK, bridge
    <3>3. CASE BeginCleanup
      BY <2>0, <3>3 DEF BeginCleanup, TypeOK, bridge
    <3>4. CASE RemoveDir
      BY <2>0, <3>4 DEF RemoveDir, TypeOK, bridge
    <3>5. CASE Exit \/ Crash
      <4>1. doomed' \in Directories /\ ~(doomed # NoFiles)'
        BY <3>5 DEF Exit, Crash, Die, NoFiles, Directories
      <4>2. /\ worker' \in [Reqs -> {"none", "claimed", "read", "relayed", "writing",
                                   "written"}]
            /\ verdict' \in [Reqs -> {"none", "ok", "failed"}]
        BY <3>5 DEF Exit, Crash, Die
      <4>3. /\ main' = "down" /\ listed' = {}
            /\ UNCHANGED <<dir, files, content, client, withdrawn, arrived, starts, sent>>
        BY <3>5 DEF Exit, Crash, Die
      <4>4. QED BY <2>0, <4>1, <4>2, <4>3 DEF TypeOK, Directories
    <3>6. ASSUME NEW r \in Reqs, Claim(r) PROVE TypeOK'
      <4>1. files' \in Directories
        BY <2>0, <3>6, DirOps, KindsAre DEF Claim
      <4>2. QED BY <2>0, <3>6, <4>1 DEF Claim, Directories, TypeOK, bridge
    <3>7. ASSUME NEW r \in Reqs, NEW k \in Kinds, Remove(r, k) PROVE TypeOK'
      <4>1. files' \in Directories
        BY <2>0, <3>7, DirOps DEF Remove
      <4>2. doomed' \in Directories
        BY <2>0, <3>7 DEF Remove, Directories, TypeOK, bridge
      <4>3. QED BY <2>0, <3>7, <4>1, <4>2 DEF Remove, Directories, TypeOK, bridge
    <3>8. QED BY <2>3, <3>1, <3>2, <3>3, <3>4, <3>5, <3>6, <3>7 DEF MainStep
  <2>4. CASE UNCHANGED vars
    BY <2>0, <2>4 DEF vars, NoFiles, TypeOK, bridge
  <2>5. ASSUME NEW r \in Reqs, Arrive(r) PROVE TypeOK'
    <3>1. arrived' \in [Reqs -> Nat]
      BY <2>0, <2>5 DEF Arrive
    <3>2. QED BY <2>0, <2>5, <3>1 DEF Arrive, TypeOK, NoFiles, bridge
  <2>6. QED BY <1>2, <2>1, <2>2, <2>3, <2>4, <2>5 DEF Next
<1>3. QED BY <1>1, <1>2

-----------------------------------------------------------------------------
\* One step of the work on request r: its client's, its relay thread's, the
\* main thread's claim, or its peer's.
ActsOn(r) == ClientStep(r) \/ RelayStep(r) \/ Claim(r) \/ Arrive(r)

\* It leaves every other request alone.
LEMMA OthersUntouched ==
    ASSUME TypeOK, NEW r \in Reqs, NEW q \in Reqs, q # r, ActsOn(r)
    PROVE  /\ files'[q] = files[q] /\ client'[q] = client[q]
           /\ worker'[q] = worker[q] /\ verdict'[q] = verdict[q]
           /\ content'[q] = content[q] /\ sent'[q] = sent[q]
           /\ arrived'[q] = arrived[q]
           /\ q \in withdrawn' => q \in withdrawn
<1> USE DEF TypeOK, Added, Renamed, Removed, WorkerStep, bridge
<1>1. CASE WriteTmp(r)
  BY <1>1 DEF WriteTmp
<1>2. CASE Publish(r)
  BY <1>2 DEF Publish
<1>3. CASE ReadResult(r)
  BY <1>3 DEF ReadResult
<1>4. CASE GiveUp(r)
  BY <1>4 DEF GiveUp
<1>5. CASE Abandon(r)
  BY <1>5 DEF Abandon
<1>6. CASE ReadRequest(r)
  BY <1>6 DEF ReadRequest
<1>7. CASE Relay(r)
  BY <1>7 DEF Relay
<1>8. CASE BeginResult(r)
  BY <1>8 DEF BeginResult
<1>9. CASE PutResult(r)
  BY <1>9 DEF PutResult
<1>10. CASE Unclaim(r)
  BY <1>10 DEF Unclaim
<1>11. CASE Claim(r)
  BY <1>11 DEF Claim
<1>12. CASE Arrive(r)
  BY <1>12 DEF Arrive
<1>13. QED
  BY <1>1, <1>2, <1>3, <1>4, <1>5, <1>6, <1>7, <1>8, <1>9, <1>10, <1>11, <1>12
  DEF ActsOn, ClientStep, RelayStep

\* And it keeps what is known of r itself.
LEMMA OwnRequest ==
    ASSUME TypeOK, NEW r \in Reqs, RequestInv(r), ActsOn(r)
    PROVE  RequestInv(r)'
<1>0. files \in Directories
  BY DEF TypeOK, Directories
<1>1. CASE WriteTmp(r)
  <2>1. /\ File(r, "json")' <=> File(r, "json")
        /\ File(r, "result")' <=> File(r, "result")
    <3>1. files' = files \/ files' = Added(r, "tmp")
      BY <1>1 DEF WriteTmp, TypeOK
    <3>2. QED BY <1>0, <3>1, DirOps, KindsAre DEF File
  <2>2. client[r] = "new" /\ client'[r] \in {"writing", "error"}
    BY <1>1 DEF WriteTmp, File, TypeOK
  <2>3. UNCHANGED <<worker, sent, arrived, content, withdrawn, verdict>>
    BY <1>1 DEF WriteTmp, bridge
  <2>4. QED BY <2>1, <2>2, <2>3 DEF RequestInv, Untouched, Truthful
<1>2. CASE Publish(r)
  <2>1. /\ File(r, "json")' => client'[r] = "waiting" \/ File(r, "json")
        /\ File(r, "result")' <=> File(r, "result")
    <3>1. \/ files' = files
          \/ files' = Renamed(r, "tmp", "json") /\ client'[r] = "waiting"
      BY <1>2 DEF Publish, TypeOK
    <3>2. QED BY <1>0, <3>1, DirOps, KindsAre DEF File
  <2>2. client[r] = "writing" /\ client'[r] \in {"waiting", "error"}
    BY <1>2 DEF Publish, File, TypeOK
  <2>3. UNCHANGED <<worker, sent, arrived, content, withdrawn, verdict>>
    BY <1>2 DEF Publish, bridge
  <2>4. QED BY <2>1, <2>2, <2>3 DEF RequestInv, Untouched, Truthful
<1>3. CASE ReadResult(r)
  <2>1. /\ File(r, "json")' <=> File(r, "json")
        /\ ~File(r, "result")'
    BY <1>3 DEF ReadResult, File, Added, Removed, Renamed, TypeOK
  <2>2. /\ client[r] = "waiting" /\ client'[r] = content[r]
        /\ content[r] \in {"ok", "failed"}
    BY <1>3 DEF ReadResult, RequestInv, TypeOK
  <2>3. UNCHANGED <<worker, sent, arrived, content, withdrawn, verdict>>
    BY <1>3 DEF ReadResult, bridge
  <2>4. QED BY <2>1, <2>2, <2>3 DEF RequestInv, Untouched, Truthful
<1>4. CASE GiveUp(r)
  <2>1. /\ ~File(r, "json")'
        /\ File(r, "result")' <=> File(r, "result")
    BY <1>4 DEF GiveUp, File, Added, Removed, Renamed, TypeOK
  <2>2. /\ client[r] = "waiting" /\ client'[r] = "gave up"
        /\ r \in withdrawn' => File(r, "json") \/ r \in withdrawn
    BY <1>4 DEF GiveUp, File, TypeOK
  <2>3. UNCHANGED <<worker, sent, arrived, content, verdict>>
    BY <1>4 DEF GiveUp, bridge
  <2>4. QED BY <2>1, <2>2, <2>3 DEF RequestInv, Untouched, Truthful
<1>5. CASE Abandon(r)
  <2>1. /\ File(r, "json")' <=> File(r, "json")
        /\ File(r, "result")' <=> File(r, "result")
    BY <1>5 DEF Abandon, File, Added, Removed, Renamed, TypeOK
  <2>2. client[r] \in {"writing", "waiting"} /\ client'[r] = "killed"
    BY <1>5 DEF Abandon, File, TypeOK
  <2>3. UNCHANGED <<worker, sent, arrived, content, withdrawn, verdict>>
    BY <1>5 DEF Abandon, bridge
  <2>4. QED BY <2>1, <2>2, <2>3 DEF RequestInv, Untouched, Truthful
<1>6. CASE ReadRequest(r)
  <2>1. /\ File(r, "json")' <=> File(r, "json")
        /\ File(r, "result")' <=> File(r, "result")
    BY <1>6 DEF ReadRequest, WorkerStep, File, Added, Removed, Renamed, TypeOK
  <2>2. worker[r] = "claimed" /\ worker'[r] \in {"read", "none"}
    BY <1>6 DEF ReadRequest, WorkerStep, File, TypeOK
  <2>3. UNCHANGED <<client, sent, arrived, content, withdrawn, verdict>>
    BY <1>6 DEF ReadRequest, WorkerStep, bridge
  <2>4. QED BY <2>1, <2>2, <2>3 DEF RequestInv, Untouched, Truthful
<1>7. CASE Relay(r)
  <2>1. /\ File(r, "json")' <=> File(r, "json")
        /\ File(r, "result")' <=> File(r, "result")
    BY <1>7 DEF Relay, WorkerStep, File, Added, Removed, Renamed, TypeOK
  <2>2. /\ worker[r] = "read" /\ worker'[r] = "relayed"
        /\ \/ verdict'[r] = "ok" /\ sent'[r] = 1
           \/ verdict'[r] = "failed" /\ sent'[r] = 0
    <3>1. worker[r] = "read" /\ worker'[r] = "relayed" /\ sent[r] = 0
      BY <1>7 DEF Relay, WorkerStep, RequestInv, TypeOK
    <3>2. \/ verdict'[r] = "ok" /\ sent'[r] = sent[r] + 1
          \/ verdict'[r] = "failed" /\ sent'[r] = sent[r]
      BY <1>7 DEF Relay, TypeOK
    <3>3. QED BY <3>1, <3>2
  <2>3. UNCHANGED <<client, content, withdrawn, arrived>>
    BY <1>7 DEF Relay, WorkerStep, bridge
  <2>4. arrived'[r] <= sent'[r]
    <3>1. arrived[r] \in Nat /\ sent[r] = 0 /\ arrived[r] <= sent[r]
      BY <1>7 DEF Relay, WorkerStep, RequestInv, TypeOK
    <3>2. QED BY <2>2, <2>3, <3>1
  <2>5. QED BY <2>1, <2>2, <2>3, <2>4 DEF RequestInv, Untouched, Truthful
<1>8. CASE BeginResult(r)
  <2>1. /\ File(r, "json")' <=> File(r, "json")
        /\ File(r, "result")' <=> File(r, "result")
    BY <1>8 DEF BeginResult, WorkerStep, File, Added, Removed, Renamed, TypeOK
  <2>2. worker[r] = "relayed" /\ worker'[r] \in {"writing", "written"}
    BY <1>8 DEF BeginResult, WorkerStep, File, TypeOK
  <2>3. UNCHANGED <<client, sent, arrived, content, withdrawn, verdict>>
    BY <1>8 DEF BeginResult, WorkerStep, bridge
  <2>4. QED BY <2>1, <2>2, <2>3 DEF RequestInv, Untouched, Truthful
<1>9. CASE PutResult(r)
  <2>1. /\ File(r, "json")' <=> File(r, "json")
        /\ File(r, "result")' => File(r, "result") \/ content'[r] = verdict[r]
    <3>1. \/ files' = files
          \/ files' = Renamed(r, "result.tmp", "result") /\ content'[r] = verdict[r]
      BY <1>9 DEF PutResult, TypeOK
    <3>2. QED BY <1>0, <3>1, DirOps, KindsAre DEF File
  <2>2. /\ worker[r] = "writing" /\ worker'[r] = "written"
        /\ content'[r] \in {content[r], verdict[r]}
    BY <1>9 DEF PutResult, WorkerStep, File, TypeOK
  <2>3. UNCHANGED <<client, sent, arrived, withdrawn, verdict>>
    BY <1>9 DEF PutResult, WorkerStep, bridge
  <2>4. QED BY <2>1, <2>2, <2>3 DEF RequestInv, Untouched, Truthful
<1>10. CASE Unclaim(r)
  <2>1. /\ File(r, "json")' <=> File(r, "json")
        /\ File(r, "result")' <=> File(r, "result")
    BY <1>10 DEF Unclaim, WorkerStep, File, Added, Removed, Renamed, TypeOK
  <2>2. worker[r] = "written" /\ worker'[r] = "none"
    BY <1>10 DEF Unclaim, WorkerStep, File, TypeOK
  <2>3. UNCHANGED <<client, sent, arrived, content, withdrawn, verdict>>
    BY <1>10 DEF Unclaim, WorkerStep, bridge
  <2>4. QED BY <2>1, <2>2, <2>3 DEF RequestInv, Untouched, Truthful
<1>11. CASE Claim(r)
  <2>1. /\ ~File(r, "json")'
        /\ File(r, "result")' <=> File(r, "result")
    <3>1. \/ files' = files /\ ~File(r, "json")
          \/ files' = Renamed(r, "json", "claimed")
      BY <1>11 DEF Claim, TypeOK
    <3>2. QED BY <1>0, <3>1, DirOps, KindsAre DEF File
  <2>2. \/ worker'[r] = worker[r]
        \/ File(r, "json") /\ worker'[r] = "claimed"
    BY <1>11 DEF Claim, File, TypeOK
  <2>3. UNCHANGED <<client, sent, arrived, content, withdrawn, verdict>>
    BY <1>11 DEF Claim, bridge
  <2>4. QED BY <2>1, <2>2, <2>3 DEF RequestInv, Untouched, Truthful
<1>12. CASE Arrive(r)
  <2>1. arrived[r] \in Nat /\ sent[r] \in Nat /\ arrived[r] < sent[r]
    BY <1>12 DEF Arrive, TypeOK
  <2>2. arrived'[r] = arrived[r] + 1
    BY <1>12 DEF Arrive, TypeOK
  <2>3. UNCHANGED <<files, client, worker, sent, content, withdrawn, verdict>>
    BY <1>12 DEF Arrive, bridge
  <2>4. arrived'[r] <= sent'[r]
    BY <2>1, <2>2, <2>3
  <2>5. QED BY <2>3, <2>4 DEF RequestInv, Untouched, Truthful, File
<1>13. QED
  BY <1>1, <1>2, <1>3, <1>4, <1>5, <1>6, <1>7, <1>8, <1>9, <1>10, <1>11, <1>12
  DEF ActsOn, ClientStep, RelayStep

\* A step that leaves a request alone, but for removing a file of it, keeps
\* what is known of it.
LEMMA RequestSame ==
    ASSUME NEW q \in Reqs, RequestInv(q),
           client'[q] = client[q], worker'[q] = worker[q], verdict'[q] = verdict[q],
           content'[q] = content[q], sent'[q] = sent[q],
           arrived'[q] = arrived[q],
           q \in withdrawn' => q \in withdrawn,
           files'[q] \subseteq files[q]
    PROVE  RequestInv(q)'
BY DEF RequestInv, Untouched, Truthful, File

\* What is known of a request survives every step.
LEMMA RequestInductive ==
    /\ Init => \A r \in Reqs : RequestInv(r)
    /\ OutboxInv /\ [Next]_vars => (\A r \in Reqs : RequestInv(r))'
<1>1. ASSUME Init, NEW r \in Reqs PROVE RequestInv(r)
  <2>1. /\ client[r] = "new" /\ worker[r] = "none"
        /\ sent[r] = 0 /\ arrived[r] = 0
        /\ content[r] = "none" /\ files[r] = {} /\ r \notin withdrawn
    BY <1>1 DEF Init, NoFiles
  <2>2. QED BY <2>1 DEF RequestInv, Untouched, Truthful, File
<1>2. ASSUME OutboxInv, [Next]_vars, NEW q \in Reqs PROVE RequestInv(q)'
  <2>1. TypeOK /\ RequestInv(q)
    BY <1>2 DEF OutboxInv
  <2>2. ASSUME NEW r \in Reqs, ActsOn(r) PROVE RequestInv(q)'
    <3>1. CASE q = r
      BY <2>1, <2>2, <3>1, OwnRequest
    <3>2. CASE q # r
      BY <2>1, <2>2, <3>2, OthersUntouched, RequestSame
    <3>3. QED BY <3>1, <3>2
  <2>3. CASE Start \/ ListRequests \/ BeginCleanup \/ RemoveDir
    BY <2>1, <2>3, RequestSame DEF Start, ListRequests, BeginCleanup, RemoveDir
  <2>4. CASE Exit \/ Crash
    <3>1. /\ worker'[q] = "none"
          /\ UNCHANGED <<client, content, sent, arrived, withdrawn, files>>
      BY <2>4 DEF Exit, Crash, Die
    <3>2. QED BY <2>1, <3>1 DEF RequestInv, Untouched, Truthful, File
  <2>5. ASSUME NEW r \in Reqs, NEW k \in Kinds, Remove(r, k) PROVE RequestInv(q)'
    <3>1. files'[q] \subseteq files[q]
      BY <2>1, <2>5 DEF Remove, Removed, TypeOK
    <3>2. QED BY <2>1, <2>5, <3>1, RequestSame DEF Remove
  <2>6. CASE UNCHANGED vars
    BY <2>1, <2>6, RequestSame DEF vars, bridge
  <2>7. QED
    BY <1>2, <2>2, <2>3, <2>4, <2>5, <2>6 DEF Next, MainStep, ActsOn
<1>3. QED BY <1>1, <1>2

\* Together they are inductive.
LEMMA OutboxInvHolds == Spec => []OutboxInv
<1>1. Init => OutboxInv
  BY TypeInductive, RequestInductive DEF OutboxInv
<1>2. OutboxInv /\ [Next]_vars => OutboxInv'
  BY TypeInductive, RequestInductive DEF OutboxInv
<1>3. QED BY <1>1, <1>2, PTL DEF Spec

\* The outbox's state has the type its variables are declared with.
THEOREM OutboxTypeCorrect == Spec => []TypeOK
<1>1. OutboxInv => TypeOK
  BY DEF OutboxInv
<1>2. QED BY <1>1, OutboxInvHolds, PTL

\* The rename is the licence to relay: a request is relayed at most once,
\* wherever bridges die and whenever their successors take over.
THEOREM OnceOnly == Spec => []RelayedAtMostOnce
<1>1. OutboxInv => RelayedAtMostOnce
  BY DEF OutboxInv, RequestInv, RelayedAtMostOnce
<1>2. QED BY <1>1, OutboxInvHolds, PTL

\* What `cxpeer send` reports is what became of its text as far as a bridge can
\* know: on success it is in the peer's socket, and where the relay has failed
\* no peer has it or will.
THEOREM TruthfulReports == Spec => []ReportsAreTrue
<1>1. ASSUME OutboxInv, NEW r \in Reqs
      PROVE  /\ client[r] = "ok" => sent[r] = 1
             /\ client[r] = "failed" => sent[r] = 0 /\ arrived[r] = 0
  <2>1. RequestInv(r) /\ sent[r] \in Nat /\ arrived[r] \in Nat
    BY <1>1 DEF OutboxInv, TypeOK
  <2>2. arrived[r] <= sent[r]
    BY <2>1 DEF RequestInv
  <2>3. sent[r] = 0 => arrived[r] = 0
    BY <2>1, <2>2
  <2>4. QED BY <2>1, <2>3 DEF RequestInv, Truthful
<1>2. OutboxInv => ReportsAreTrue
  BY <1>1 DEF ReportsAreTrue
<1>3. QED BY <1>2, OutboxInvHolds, PTL

\* Taking the request file back is final: whoever still has it on a list
\* finds the rename fail.
THEOREM WithdrawalIsFinal == Spec => []WithdrawnIsNotRelayed
<1>1. OutboxInv => WithdrawnIsNotRelayed
  BY DEF OutboxInv, TypeOK, RequestInv, Untouched, WithdrawnIsNotRelayed
<1>2. QED BY <1>1, OutboxInvHolds, PTL

-----------------------------------------------------------------------------
(* The outbox implements SendLedger.                                       *)

ledger == <<[r \in Reqs |-> Outcome(r)], sent, arrived>>

LEMMA LedgerStutter ==
    ASSUME \A r \in Reqs : Outcome(r)' = Outcome(r), sent' = sent, arrived' = arrived
    PROVE  UNCHANGED ledger
BY DEF ledger

LEMMA LedgerEnd ==
    ASSUME NEW r \in Reqs, NEW how, Outcome(r) = "open", Outcome(r)' = how,
           \A q \in Reqs \ {r} : Outcome(q)' = Outcome(q),
           sent' = sent, arrived' = arrived
    PROVE  Ledger!End(r, how)
BY DEF Ledger!End

\* A request's outcome is its client's, and whether it was taken back.
LEMMA OutcomeSame ==
    ASSUME NEW q \in Reqs, client'[q] = client[q], q \in withdrawn' <=> q \in withdrawn
    PROVE  Outcome(q)' = Outcome(q)
BY DEF Outcome

\* What a client's own step is to the ledger: its end, or nothing.
LEMMA ClientLedger ==
    ASSUME OutboxInv, NEW r \in Reqs, ClientStep(r)
    PROVE  Ledger!Next \/ UNCHANGED ledger
<1>0. /\ TypeOK /\ RequestInv(r) /\ sent[r] \in Nat
      /\ DOMAIN client = Reqs /\ withdrawn \subseteq Reqs
      BY DEF OutboxInv, TypeOK
<1>1. sent' = sent /\ arrived' = arrived
      BY DEF ClientStep, WriteTmp, Publish, ReadResult, GiveUp, Abandon, bridge
<1>2. \A q \in Reqs \ {r} : Outcome(q)' = Outcome(q)
  <2>1. ASSUME NEW q \in Reqs \ {r}
        PROVE  client'[q] = client[q] /\ (q \in withdrawn' <=> q \in withdrawn)
        BY <1>0 DEF ClientStep, WriteTmp, Publish, ReadResult, GiveUp, Abandon, bridge
  <2> QED BY <2>1, OutcomeSame
<1>3. Outcome(r) = "open"
      BY DEF ClientStep, WriteTmp, Publish, ReadResult, GiveUp, Abandon, Outcome
<1>4. CASE Outcome(r)' = "open"
      BY <1>1, <1>2, <1>3, <1>4, LedgerStutter
<1>5. CASE Outcome(r)' = "success"
  <2>1. ReadResult(r) /\ client'[r] = "ok" /\ client'[r] = content[r]
        BY <1>0, <1>5 DEF ClientStep, WriteTmp, Publish, ReadResult, GiveUp, Abandon, Outcome
  <2>2. sent[r] = 1
        BY <1>0, <2>1 DEF RequestInv, Truthful
  <2>3. Ledger!Succeed(r)
        BY <1>1, <1>2, <1>3, <1>5, <2>2, LedgerEnd DEF Ledger!Succeed
  <2> QED BY <2>3 DEF Ledger!Next
<1>6. CASE Outcome(r)' = "failure"
  <2>1. \/ WriteTmp(r) \/ Publish(r)
        \/ ReadResult(r) /\ client'[r] = "failed" /\ client'[r] = content[r]
        BY <1>0, <1>6 DEF ClientStep, ReadResult, GiveUp, Abandon, Outcome, TypeOK
  <2>2. sent[r] = 0
        BY <1>0, <2>1 DEF RequestInv, Truthful, Untouched, WriteTmp, Publish
  <2>3. Ledger!Fail(r)
        BY <1>1, <1>2, <1>3, <1>6, <2>2, LedgerEnd DEF Ledger!Fail
  <2> QED BY <2>3 DEF Ledger!Next
<1>7. CASE Outcome(r)' = "taken back"
  <2>1. GiveUp(r) /\ r \in withdrawn'
        BY <1>0, <1>7 DEF ClientStep, WriteTmp, Publish, ReadResult, GiveUp, Abandon, Outcome, TypeOK
  <2>2. sent[r] = 0
        BY <1>0, <2>1 DEF RequestInv, Untouched, GiveUp
  <2>3. Ledger!TakeBack(r)
        BY <1>1, <1>2, <1>3, <1>7, <2>2, LedgerEnd DEF Ledger!TakeBack
  <2> QED BY <2>3 DEF Ledger!Next
<1>8. CASE Outcome(r)' = "unknown"
      BY <1>1, <1>2, <1>3, <1>8, LedgerEnd DEF Ledger!Lose, Ledger!Next
<1> QED BY <1>4, <1>5, <1>6, <1>7, <1>8 DEF Outcome

\* What is relayed is handed over before its client knows how it ends.
LEMMA RelayLedger ==
    ASSUME OutboxInv, NEW r \in Reqs, Relay(r)
    PROVE  Ledger!Next \/ UNCHANGED ledger
<1>0. TypeOK /\ RequestInv(r)
      BY DEF OutboxInv
<1>1. UNCHANGED <<client, withdrawn, arrived>> /\ worker[r] = "read"
      BY DEF Relay, WorkerStep
<1>2. \A q \in Reqs : Outcome(q)' = Outcome(q)
      BY <1>1 DEF Outcome
<1>3. CASE sent' = sent
      BY <1>1, <1>2, <1>3, LedgerStutter
<1>4. CASE sent' = [sent EXCEPT ![r] = @ + 1]
  <2>1. sent[r] = 0 /\ content[r] = "none"
        BY <1>0, <1>1 DEF RequestInv
  <2>2. Outcome(r) \in {"open", "unknown"}
    <3>1. client[r] \notin {"ok", "failed", "error"}
          BY <1>0, <1>1, <2>1 DEF RequestInv, Untouched
    <3>2. r \notin withdrawn
          BY <1>0, <1>1 DEF RequestInv, Untouched
    <3> QED BY <3>1, <3>2 DEF Outcome
  <2>3. sent' = [sent EXCEPT ![r] = 1]
        BY <1>4, <2>1
  <2>4. Ledger!HandOver(r)
        BY <1>1, <1>2, <2>1, <2>2, <2>3 DEF Ledger!HandOver
  <2> QED BY <2>4 DEF Ledger!Next
<1> QED BY <1>3, <1>4 DEF Relay

\* What has been handed over arrives once, whatever its client knows by then.
LEMMA ArrivalLedger ==
    ASSUME OutboxInv, NEW r \in Reqs, Arrive(r)
    PROVE  Ledger!Next
<1>1. UNCHANGED <<client, withdrawn, sent>>
      BY DEF Arrive, bridge
<1>2. \A q \in Reqs : Outcome(q)' = Outcome(q)
      BY <1>1 DEF Outcome
<1>3. arrived[r] = 0 /\ sent[r] = 1
  <2>1. /\ arrived[r] \in Nat /\ sent[r] \in Nat
        /\ sent[r] <= 1 /\ arrived[r] < sent[r]
        BY DEF OutboxInv, TypeOK, RequestInv, Arrive
  <2> QED BY <2>1
<1>4. arrived' = [arrived EXCEPT ![r] = 1]
      BY <1>3 DEF Arrive
<1>5. Ledger!Arrive(r)
      BY <1>1, <1>2, <1>3, <1>4 DEF Ledger!Arrive
<1> QED BY <1>5 DEF Ledger!Next

\* No text is handed over twice, or after its client has reported how it ended
\* or has taken it back, whatever clients and bridges do and wherever they
\* die, and none arrives that was not handed over: what a sender may count on
\* is SendLedger.
THEOREM OutboxImplementsSends == Spec => ImplementsSends
<1>1. Init => Ledger!Init
      BY DEF Init, Ledger!Init, Outcome
<1>2. ASSUME OutboxInv, [Next]_vars PROVE [Ledger!Next]_ledger
  <2> SUFFICES Ledger!Next \/ UNCHANGED ledger
      OBVIOUS
  <2>1. CASE \E r \in Reqs : ClientStep(r)
        BY <1>2, <2>1, ClientLedger
  <2>2. CASE \E r \in Reqs : Relay(r)
        BY <1>2, <2>2, RelayLedger
  <2>3. ASSUME UNCHANGED <<client, withdrawn, sent, arrived>>
        PROVE  UNCHANGED ledger
    <3>1. \A q \in Reqs : Outcome(q)' = Outcome(q)
          BY <2>3 DEF Outcome
    <3> QED BY <2>3, <3>1, LedgerStutter
  <2>4. ASSUME NEW r \in Reqs, ReadRequest(r) \/ BeginResult(r) \/ PutResult(r) \/ Unclaim(r)
        PROVE  UNCHANGED ledger
        BY <2>3, <2>4 DEF ReadRequest, BeginResult, PutResult, Unclaim, WorkerStep
  <2>5. ASSUME MainStep PROVE UNCHANGED ledger
        BY <2>3, <2>5 DEF MainStep, Start, ListRequests, BeginCleanup, RemoveDir, Exit, Crash,
           Die, Claim, Remove
  <2>6. CASE UNCHANGED vars
        BY <2>3, <2>6 DEF vars, bridge
  <2>7. CASE \E r \in Reqs : Arrive(r)
        BY <1>2, <2>7, ArrivalLedger
  <2> QED BY <1>2, <2>1, <2>2, <2>4, <2>5, <2>6, <2>7 DEF Next, RelayStep
<1>3. OutboxInv /\ [Next]_vars => [Ledger!Next]_ledger
      BY <1>2
<1> QED BY <1>1, <1>3, OutboxInvHolds, PTL DEF Spec, ImplementsSends, Ledger!Spec, ledger

-----------------------------------------------------------------------------
(***************************************************************************)
(* No request is lost on its way through a bridge that keeps running: what *)
(* DroppedIsAnswered promises for the end is still owed.                   *)
(***************************************************************************)

Serving == main \in {"loop", "draining"}

\* The answer is still to come, or there: the request waits to be claimed, a
\* relay thread has it, or its result is in the directory.
Owed(r) ==
    \/ File(r, "json") \/ File(r, "result")
    \/ worker[r] \in {"claimed", "read", "relayed", "writing"}

\* While the bridge serves nobody sweeps what its relay threads work with.
KeptInv(r) ==
    /\ main = "down" => worker[r] = "none"
    /\ Serving =>
          /\ DirExists
          /\ worker[r] = "claimed" => File(r, "claimed")
          /\ worker[r] = "writing" => File(r, "result.tmp")
          /\ worker[r] = "written" /\ client[r] = "waiting" => File(r, "result")

\* A step of a bridge that serves, before and after, takes no request away from
\* a client that goes on waiting for it.
NothingDropped ==
    \A r \in Reqs :
        /\ Serving /\ Serving' /\ client[r] = "waiting" /\ client'[r] = "waiting"
        /\ Owed(r)
        => Owed(r)'

\* What is to be shown of each request in a step.
StepKeeps(r) ==
    /\ KeptInv(r)'
    /\ /\ Serving /\ Serving' /\ client[r] = "waiting" /\ client'[r] = "waiting"
       /\ Owed(r)
       => Owed(r)'

\* A client touches the files it has published or reads, and waits no longer.
LEMMA ClientKeeps ==
    ASSUME TypeOK, NEW r \in Reqs, RequestInv(r), KeptInv(r), ClientStep(r)
    PROVE  StepKeeps(r)
<1>0. files \in Directories
      BY DEF TypeOK, Directories
<1>1. UNCHANGED <<dir, main, worker>>
      BY DEF ClientStep, WriteTmp, Publish, ReadResult, GiveUp, Abandon, bridge
<1>2. /\ File(r, "claimed")' <=> File(r, "claimed")
      /\ File(r, "result.tmp")' <=> File(r, "result.tmp")
  <2>1. \/ files' = files \/ files' = Added(r, "tmp")
        \/ files' = Renamed(r, "tmp", "json")
        \/ files' = Removed(r, "result") \/ files' = Removed(r, "json")
        BY DEF ClientStep, WriteTmp, Publish, ReadResult, GiveUp, Abandon
  <2> QED BY <1>0, <2>1, DirOps, KindsAre DEF File
<1>3. client'[r] # "waiting" \/ client[r] = "writing"
      BY DEF ClientStep, WriteTmp, Publish, ReadResult, GiveUp, Abandon, TypeOK
<1>4. client[r] = "writing" => worker[r] = "none"
      BY DEF RequestInv, Untouched
<1> QED BY <1>1, <1>2, <1>3, <1>4 DEF StepKeeps, KeptInv, Serving, DirExists

\* A relay thread goes on with what is there, and ends with the result there.
LEMMA RelayKeeps ==
    ASSUME TypeOK, NEW r \in Reqs, RequestInv(r), KeptInv(r), RelayStep(r)
    PROVE  StepKeeps(r)
<1>0. files \in Directories
      BY DEF TypeOK, Directories
<1>1. UNCHANGED <<dir, main, client>> /\ main # "down"
      BY DEF RelayStep, ReadRequest, Relay, BeginResult, PutResult, Unclaim,
             WorkerStep, Alive
<1>2. CASE ReadRequest(r) \/ Relay(r)
  <2>1. /\ UNCHANGED files
        /\ \/ worker[r] = "claimed" /\ worker'[r] = IF File(r, "claimed") THEN "read" ELSE "none"
           \/ worker[r] = "read" /\ worker'[r] = "relayed"
        BY <1>2 DEF ReadRequest, Relay, WorkerStep, TypeOK
  <2> QED BY <1>1, <2>1 DEF StepKeeps, KeptInv, Serving, Owed, DirExists, File
<1>3. CASE BeginResult(r)
  <2>1. CASE ~Serving
        BY <1>1, <2>1 DEF StepKeeps, KeptInv, Serving
  <2>2. CASE Serving
    <3>1. /\ worker[r] = "relayed" /\ worker'[r] = "writing"
          /\ files' = Added(r, "result.tmp")
          BY <1>3, <2>2 DEF BeginResult, WorkerStep, TypeOK, KeptInv
    <3>2. File(r, "result.tmp")'
          BY <1>0, <3>1, DirOps, KindsAre DEF File
    <3> QED BY <1>1, <3>1, <3>2 DEF StepKeeps, KeptInv, Serving, Owed, DirExists
  <2> QED BY <2>1, <2>2
<1>4. CASE PutResult(r)
  <2>1. worker[r] = "writing" /\ worker'[r] = "written"
        BY <1>4 DEF PutResult, WorkerStep, TypeOK
  <2>2. ASSUME File(r, "result.tmp") PROVE File(r, "result")'
    <3>1. files' = Renamed(r, "result.tmp", "result")
          BY <1>4, <2>2 DEF PutResult
    <3> QED BY <1>0, <3>1, DirOps, KindsAre DEF File
  <2> QED BY <1>1, <2>1, <2>2 DEF StepKeeps, KeptInv, Serving, Owed, DirExists
<1>5. CASE Unclaim(r)
  <2>1. /\ worker[r] = "written" /\ worker'[r] = "none"
        /\ files' = Removed(r, "claimed")
        BY <1>5 DEF Unclaim, WorkerStep, TypeOK
  <2>2. File(r, "result")' <=> File(r, "result")
        BY <1>0, <2>1, DirOps, KindsAre DEF File
  <2> QED BY <1>1, <2>1, <2>2 DEF StepKeeps, KeptInv, Serving, Owed, DirExists
<1> QED BY <1>2, <1>3, <1>4, <1>5 DEF RelayStep

\* A claimed request is in the hands of its relay thread.
LEMMA ClaimKeeps ==
    ASSUME TypeOK, NEW r \in Reqs, KeptInv(r), Claim(r)
    PROVE  StepKeeps(r)
<1>0. files \in Directories
      BY DEF TypeOK, Directories
<1>1. /\ main = "draining" /\ main' \in {"loop", "draining"}
      /\ UNCHANGED <<dir, client>>
      BY DEF Claim
<1>2. CASE File(r, "json")
  <2>1. worker'[r] = "claimed" /\ files' = Renamed(r, "json", "claimed")
        BY <1>2 DEF Claim, TypeOK
  <2>2. File(r, "claimed")'
        BY <1>0, <2>1, DirOps, KindsAre DEF File
  <2> QED BY <1>1, <2>1, <2>2 DEF StepKeeps, KeptInv, Serving, Owed, DirExists
<1>3. CASE ~File(r, "json")
  <2>1. UNCHANGED <<files, worker>>
        BY <1>3 DEF Claim
  <2> QED BY <1>1, <2>1 DEF StepKeeps, KeptInv, Serving, Owed, DirExists, File
<1> QED BY <1>2, <1>3

\* A peer touches neither files nor threads.
LEMMA ArrivalKeeps ==
    ASSUME NEW r \in Reqs, KeptInv(r), Arrive(r)
    PROVE  StepKeeps(r)
BY DEF Arrive, bridge, StepKeeps, KeptInv, Serving, Owed, DirExists, File

LEMMA KeptStep ==
    ASSUME OutboxInv, \A r \in Reqs : KeptInv(r), [Next]_vars
    PROVE  \A q \in Reqs : StepKeeps(q)
<1> SUFFICES ASSUME NEW q \in Reqs PROVE StepKeeps(q)
    OBVIOUS
<1>0. TypeOK /\ RequestInv(q) /\ KeptInv(q)
      BY DEF OutboxInv
<1>1. ASSUME NEW r \in Reqs, ActsOn(r) PROVE StepKeeps(q)
  <2>1. CASE q = r
        BY <1>0, <1>1, <2>1, ClientKeeps, RelayKeeps, ClaimKeeps, ArrivalKeeps
        DEF ActsOn
  <2>2. CASE q # r
    <3>1. files'[q] = files[q] /\ client'[q] = client[q] /\ worker'[q] = worker[q]
          BY <1>0, <1>1, <2>2, OthersUntouched
    <3>2. dir' = dir /\ (main' = main \/ (Serving /\ main' \in {"loop", "draining"}))
      <4>1. CASE ClientStep(r)
            BY <4>1 
            DEF ClientStep, WriteTmp, Publish, ReadResult, GiveUp, Abandon, bridge
      <4>2. CASE RelayStep(r)
            BY <4>2 DEF RelayStep, ReadRequest, Relay, BeginResult, PutResult,
                        Unclaim, WorkerStep
      <4>3. CASE Claim(r)
            BY <4>3 DEF Claim, Serving
      <4>4. CASE Arrive(r)
            BY <4>4 DEF Arrive, bridge
      <4> QED BY <1>1, <4>1, <4>2, <4>3, <4>4 DEF ActsOn
    <3> QED BY <1>0, <3>1, <3>2 DEF StepKeeps, KeptInv, Serving, Owed, DirExists, File
  <2> QED BY <2>1, <2>2
<1>2. CASE Start
  <2>1. /\ main = "down" /\ main' = "loop" /\ dir' = "there"
        /\ UNCHANGED <<files, client, worker>>
        BY <1>2 DEF Start
  <2> QED BY <1>0, <2>1 DEF StepKeeps, KeptInv, Serving, Owed, DirExists, File
<1>3. CASE ListRequests
  <2>1. /\ main = "loop" /\ main' = "draining"
        /\ UNCHANGED <<dir, files, client, worker>>
        BY <1>3 DEF ListRequests
  <2> QED BY <1>0, <2>1 DEF StepKeeps, KeptInv, Serving, Owed, DirExists, File
<1>4. ASSUME NEW r \in Reqs, NEW k \in Kinds, Remove(r, k) PROVE StepKeeps(q)
  <2>1. main' = "removing"
        BY <1>4 DEF Remove
  <2> QED BY <2>1 DEF StepKeeps, KeptInv, Serving
<1>5. CASE Exit \/ Crash
  <2>1. main' = "down" /\ worker'[q] = "none"
        BY <1>5 DEF Exit, Crash, Die
  <2> QED BY <2>1 DEF StepKeeps, KeptInv, Serving
<1>6. CASE UNCHANGED vars
      BY <1>0, <1>6 DEF vars, bridge, StepKeeps, KeptInv, Serving, Owed, DirExists, File
<1>7. CASE BeginCleanup \/ RemoveDir
  <2>1. main' \in {"removing", "closing"}
        BY <1>7 DEF BeginCleanup, RemoveDir
  <2> QED BY <2>1 DEF StepKeeps, KeptInv, Serving
<1> QED BY <1>1, <1>2, <1>3, <1>4, <1>5, <1>6, <1>7 DEF Next, MainStep, ActsOn

\* As long as a bridge goes round its loop, no request a client waits for falls
\* between the listing and the claim, the claim and the relay, or the relay and
\* the result: DroppedIsAnswered can only fail by waiting.
THEOREM NoRequestDropped == Spec => [][NothingDropped]_vars
<1> DEFINE Kept == \A r \in Reqs : KeptInv(r)
<1>1. Init => Kept
      BY DEF Init, KeptInv, Serving
<1>2. OutboxInv /\ Kept /\ [Next]_vars => Kept' /\ NothingDropped
      BY KeptStep DEF StepKeeps, NothingDropped
<1> QED BY <1>1, <1>2, OutboxInvHolds, PTL DEF Spec
=============================================================================
