------------------------------ MODULE SelfTest ------------------------------
(***************************************************************************)
(* The self-test of `cxpeer doctor` (doctor.self_test): it starts a        *)
(* throwaway bridge in directories of its own, pings it, makes it queue a  *)
(* message into a fake codex, shuts it down, and removes everything again. *)
(*                                                                         *)
(* Three processes take part: the doctor, the bridge (its main thread and  *)
(* one thread per connection) and the fake codex, a child of the bridge    *)
(* that may outlive it.  Each wait of the doctor has a time-out; the       *)
(* bridge may crash or hang, and the doctor may be interrupted or killed.  *)
(* An action is what one of them does between two points where the others  *)
(* can notice.                                                             *)
(***************************************************************************)
VARIABLES
    doctor,   \* where self_test is
    verdict,  \* its result: a Check, or how it left without one
    bridge,   \* where the bridge's main thread is, "dead": no process
    stop,     \* the bridge's stop event
    hung,     \* the bridge does nothing any more
    state,    \* whether the state file is there
    conn,     \* the three connections the doctor makes, in order
    child,    \* the fake codex
    tmp,      \* the directory of the test ("swept": rmtree has emptied it)
    calls,    \* whether codex_calls.txt is in it
    socks,    \* the directory of the bridge's socket
    trouble   \* history: a fault or a time-out has occurred

theDoctor == <<doctor, verdict>>
theBridge == <<bridge, stop, hung, state, child>>
theFiles  == <<tmp, calls, socks>>
selfTestVars == <<theDoctor, theBridge, conn, theFiles, trouble>>

Connections == {"ping", "user", "shutdown"}

SelfTestInit ==
    /\ doctor = "set up" /\ verdict = "none"
    /\ bridge = "unborn" /\ stop = FALSE /\ hung = FALSE /\ state = FALSE
    /\ conn = [c \in Connections |-> "none"] /\ child = "none"
    /\ tmp = "none" /\ calls = FALSE /\ socks = "none" /\ trouble = FALSE

BridgeAlive == bridge \in {"starting", "bound", "up", "leaving"}
BridgeListens == bridge \in {"bound", "up", "leaving"}
BridgeRuns == BridgeAlive /\ ~hung

\* The try block of self_test; what follows it is the finally block.
Trying == {"set up", "spawn", "state", "ping", "ping answer", "user", "calls",
           "shutdown", "shutdown answer", "wait"}

-----------------------------------------------------------------------------
(* The doctor.                                                             *)

DoctorAt(from, to) == doctor = from /\ doctor' = to

\* The try block ends with this result.
Finish(result) == doctor' = "finally" /\ verdict' = result

SetUp ==
    /\ DoctorAt("set up", "spawn")
    /\ tmp' = "there" /\ socks' = "there"
    /\ UNCHANGED <<verdict, theBridge, conn, calls, trouble>>

\* A directory or the fake codex cannot be written.
SetUpFails ==
    /\ doctor = "set up" /\ Finish("FAIL")
    /\ tmp' = "there" /\ socks' \in {"none", "there"}
    /\ trouble' = TRUE
    /\ UNCHANGED <<theBridge, conn, calls>>

StartBridge ==
    /\ DoctorAt("spawn", "state")
    /\ bridge' = "starting"
    /\ UNCHANGED <<verdict, stop, hung, state, child, conn, theFiles, trouble>>

\* Popen raises an OSError: no process can be made.
SpawnFails ==
    /\ doctor = "spawn" /\ Finish("FAIL")
    /\ trouble' = TRUE
    /\ UNCHANGED <<theBridge, conn, theFiles>>

\* _wait_for_json: the state file is written atomically.
SeeState ==
    /\ state /\ DoctorAt("state", "ping")
    /\ UNCHANGED <<verdict, theBridge, conn, theFiles, trouble>>

AfterConnect(c) == CASE c = "ping" -> "ping answer"
                     [] c = "user" -> "calls"
                     [] c = "shutdown" -> "shutdown answer"

\* _request and wire.send_frames connect and write.
Connect(c) ==
    /\ doctor = c /\ BridgeListens
    /\ doctor' = AfterConnect(c)
    /\ conn' = [conn EXCEPT ![c] = "sent"]
    /\ UNCHANGED <<verdict, theBridge, theFiles, trouble>>

\* Nobody listens: an OSError, which the shutdown step takes for success.
Refused(c) ==
    /\ doctor = c /\ ~BridgeListens
    /\ IF c = "shutdown" THEN doctor' = "wait" /\ UNCHANGED verdict
                         ELSE Finish("FAIL")
    /\ UNCHANGED <<theBridge, conn, theFiles, trouble>>

Ponged ==
    /\ conn["ping"] = "answered" /\ DoctorAt("ping answer", "user")
    /\ UNCHANGED <<verdict, theBridge, conn, theFiles, trouble>>

ShutdownAnswered ==
    /\ conn["shutdown"] = "answered" /\ DoctorAt("shutdown answer", "wait")
    /\ UNCHANGED <<verdict, theBridge, conn, theFiles, trouble>>

\* The connection ends without a line: _request raises RuntimeError, which
\* self_test does not catch, or the reset is an OSError, which it does.
Unanswered(c) ==
    /\ c # "user" /\ doctor = AfterConnect(c) /\ conn[c] = "lost"
    /\ \/ Finish("raised")
       \/ c = "shutdown" /\ doctor' = "wait" /\ UNCHANGED verdict
       \/ c = "ping" /\ Finish("FAIL")
    /\ UNCHANGED <<theBridge, conn, theFiles, trouble>>

SeeCall ==
    /\ calls /\ DoctorAt("calls", "shutdown")
    /\ UNCHANGED <<verdict, theBridge, conn, theFiles, trouble>>

BridgeEnded ==
    /\ doctor = "wait" /\ bridge = "dead" /\ Finish("ok")
    /\ UNCHANGED <<theBridge, conn, theFiles, trouble>>

\* The deadline of a wait has passed.  No line in time is no answer: the
\* RuntimeError again.
TimeOut ==
    /\ \/ doctor \in {"state", "calls", "wait"} /\ Finish("FAIL")
       \/ doctor \in {"ping answer", "shutdown answer"} /\ Finish("raised")
    /\ trouble' = TRUE
    /\ UNCHANGED <<theBridge, conn, theFiles>>

\* SIGTERM or SIGINT: the bridge's handler sets the stop event; before it is
\* installed the signal ends the process.
Signalled ==
    \/ BridgeAlive /\ stop' = TRUE /\ UNCHANGED bridge
    \/ bridge = "starting" /\ bridge' = "dead" /\ UNCHANGED stop
    \/ ~BridgeAlive /\ UNCHANGED <<bridge, stop>>

\* Ctrl-C goes to the doctor and to its bridge.
Interrupt ==
    /\ doctor \in Trying /\ Finish("interrupted")
    /\ Signalled
    /\ trouble' = TRUE
    /\ UNCHANGED <<hung, state, child, conn, theFiles>>

DoctorKilled ==
    /\ doctor \in Trying /\ doctor' = "killed"
    /\ trouble' = TRUE
    /\ UNCHANGED <<verdict, theBridge, conn, theFiles>>

\* Mutant: the finally block begins with the files.
Terminate_Last ==
    /\ DoctorAt("finally", "sweep")
    /\ UNCHANGED <<verdict, theBridge, conn, theFiles, trouble>>

Terminate ==
    /\ IF BridgeAlive THEN DoctorAt("finally", "terminated") /\ Signalled
                      ELSE DoctorAt("finally", "sweep") /\ UNCHANGED <<bridge, stop>>
    /\ UNCHANGED <<verdict, hung, state, child, conn, theFiles, trouble>>

Terminated ==
    /\ bridge = "dead" /\ DoctorAt("terminated", "sweep")
    /\ UNCHANGED <<verdict, theBridge, conn, theFiles, trouble>>

\* What ends with the process: its threads, and the answers not yet sent.
Lost == [c \in Connections |->
            IF conn[c] \in {"none", "answered", "done"} THEN conn[c] ELSE "lost"]

\* It has not ended within three seconds: SIGKILL.
Kill ==
    /\ DoctorAt("terminated", "sweep")
    /\ bridge' = "dead" /\ conn' = Lost
    /\ UNCHANGED <<verdict, stop, hung, state, child, theFiles, trouble>>

\* shutil.rmtree(ignore_errors=True): the entries, then the directory, which
\* stays if something has been written into it in between.
Sweep ==
    /\ DoctorAt("sweep", "remove")
    /\ tmp' = IF tmp = "there" THEN "swept" ELSE tmp
    /\ state' = FALSE /\ calls' = FALSE
    /\ UNCHANGED <<verdict, bridge, stop, hung, child, conn, socks, trouble>>

RemoveTmp ==
    /\ DoctorAt("remove", "socks")
    /\ tmp' = IF tmp = "swept" /\ ~calls /\ ~state THEN "removed" ELSE tmp
    /\ UNCHANGED <<verdict, theBridge, conn, calls, socks, trouble>>

RemoveSocks ==
    /\ DoctorAt("socks", "ended")
    /\ socks' = IF socks = "there" THEN "removed" ELSE socks
    /\ UNCHANGED <<verdict, theBridge, conn, tmp, calls, trouble>>

-----------------------------------------------------------------------------
(* The bridge: run, start, serve_forever, cleanup.                         *)

BridgeAt(from, to) == BridgeRuns /\ bridge = from /\ bridge' = to

Bind ==
    /\ BridgeAt("starting", "bound")
    /\ UNCHANGED <<theDoctor, stop, hung, state, child, conn, theFiles, trouble>>

\* Mutant: the state file is written before the socket is bound.
WriteStateFile_First ==
    /\ BridgeRuns /\ ~state /\ state' = (tmp = "there")
    /\ bridge' = IF bridge = "bound" THEN "up" ELSE bridge
    /\ UNCHANGED <<theDoctor, stop, hung, child, conn, theFiles, trouble>>

WriteStateFile ==
    /\ BridgeAt("bound", "up")
    /\ state' = (tmp = "there")
    /\ UNCHANGED <<theDoctor, stop, hung, child, conn, theFiles, trouble>>

Accept(c) ==
    /\ BridgeRuns /\ bridge = "up"
    /\ conn[c] = "sent" /\ conn' = [conn EXCEPT ![c] = "accepted"]
    /\ UNCHANGED <<theDoctor, theBridge, theFiles, trouble>>

\* Mutant: the watched process is not looked at.
LeaveLoop_Unwatched ==
    /\ BridgeAt("up", "leaving")
    /\ stop
    /\ UNCHANGED <<theDoctor, stop, hung, state, child, conn, theFiles, trouble>>

\* The stop event is set, or the watched process, which is the doctor, gone.
LeaveLoop ==
    /\ BridgeAt("up", "leaving")
    /\ stop \/ doctor = "killed"
    /\ UNCHANGED <<theDoctor, stop, hung, state, child, conn, theFiles, trouble>>

\* cleanup and the end of the process, with all its threads.
CleanUp ==
    /\ BridgeAt("leaving", "dead")
    /\ state' = FALSE /\ conn' = Lost
    /\ UNCHANGED <<theDoctor, stop, hung, child, theFiles, trouble>>

\* The connections' threads.  The answer to a ping:
AnswerPing ==
    /\ BridgeRuns /\ conn["ping"] = "accepted"
    /\ conn' = [conn EXCEPT !["ping"] = "answered"]
    /\ UNCHANGED <<theDoctor, theBridge, theFiles, trouble>>

\* on_user runs `codex queue` ...
QueueMessage ==
    /\ BridgeRuns /\ conn["user"] = "accepted"
    /\ conn' = [conn EXCEPT !["user"] = "queueing"]
    /\ child' = "running"
    /\ UNCHANGED <<theDoctor, bridge, stop, hung, state, theFiles, trouble>>

\* ... and waits for it.
Queued ==
    /\ BridgeRuns /\ conn["user"] = "queueing" /\ child = "ended"
    /\ conn' = [conn EXCEPT !["user"] = "done"]
    /\ UNCHANGED <<theDoctor, theBridge, theFiles, trouble>>

\* on_shutdown stops the bridge; only then is the answer sent.
SetStop ==
    /\ BridgeRuns /\ conn["shutdown"] = "accepted"
    /\ conn' = [conn EXCEPT !["shutdown"] = "stopping"]
    /\ stop' = TRUE
    /\ UNCHANGED <<theDoctor, bridge, hung, state, child, theFiles, trouble>>

AnswerShutdown ==
    /\ BridgeRuns /\ conn["shutdown"] = "stopping"
    /\ conn' = [conn EXCEPT !["shutdown"] = "answered"]
    /\ UNCHANGED <<theDoctor, theBridge, theFiles, trouble>>

Crash ==
    /\ BridgeAlive /\ bridge' = "dead" /\ conn' = Lost
    /\ trouble' = TRUE
    /\ UNCHANGED <<theDoctor, stop, hung, state, child, theFiles>>

Hang ==
    /\ BridgeRuns /\ hung' = TRUE
    /\ trouble' = TRUE
    /\ UNCHANGED <<theDoctor, bridge, stop, state, child, conn, theFiles>>

\* The fake codex appends its line, if the directory is there.
FakeCodex ==
    /\ child = "running" /\ child' = "ended"
    /\ calls' = (calls \/ tmp \in {"there", "swept"})
    /\ UNCHANGED <<theDoctor, bridge, stop, hung, state, conn, tmp, socks, trouble>>

-----------------------------------------------------------------------------
DoctorStep ==
    \/ SetUp \/ SetUpFails \/ StartBridge \/ SpawnFails
    \/ SeeState \/ Ponged \/ SeeCall
    \/ \E c \in Connections : Connect(c) \/ Refused(c) \/ Unanswered(c)
    \/ ShutdownAnswered \/ BridgeEnded \/ TimeOut
    \/ Terminate \/ Terminated \/ Kill \/ Sweep \/ RemoveTmp \/ RemoveSocks
BridgeStep ==
    \/ Bind \/ WriteStateFile \/ LeaveLoop \/ CleanUp
    \/ \E c \in Connections : Accept(c)
    \/ AnswerPing \/ QueueMessage \/ Queued \/ SetStop \/ AnswerShutdown
SelfTestNext ==
    \/ DoctorStep \/ BridgeStep \/ FakeCodex
    \/ Interrupt \/ DoctorKilled \/ Crash \/ Hang

SelfTestSpec == SelfTestInit /\ [][SelfTestNext]_selfTestVars

(* Fairness: the three processes run, except that a bridge may hang.  The  *)
(* waits of the doctor are polls with deadlines.                           *)
SelfTestFairness ==
    /\ WF_selfTestVars(DoctorStep)
    /\ WF_selfTestVars(BridgeStep)
    /\ WF_selfTestVars(FakeCodex)

-----------------------------------------------------------------------------
\* Every variable holds a value the program can give it; connections are in
\* the hands of a live bridge, and made in order.
SelfTestTypeOK ==
    /\ doctor \in Trying \cup {"finally", "terminated", "sweep", "remove",
                               "socks", "ended", "killed"}
    /\ verdict \in {"none", "ok", "FAIL", "raised", "interrupted"}
    /\ bridge \in {"unborn", "starting", "bound", "up", "leaving", "dead"}
    /\ stop \in BOOLEAN /\ hung \in BOOLEAN /\ state \in BOOLEAN
    /\ calls \in BOOLEAN /\ trouble \in BOOLEAN
    /\ conn \in [Connections -> {"none", "sent", "accepted", "queueing",
                                 "stopping", "answered", "done", "lost"}]
    /\ child \in {"none", "running", "ended"}
    /\ tmp \in {"none", "there", "swept", "removed"}
    /\ socks \in {"none", "there", "removed"}

\* doctor.py: "a green doctor means the whole path works end to end": the
\* bridge has answered, has called codex for the doctor's message, and ended.
\* And no order of the steps of a healthy bridge makes the doctor report a
\* failure.
VerdictIsTrue ==
    /\ verdict = "ok" => /\ conn["ping"] = "answered"
                         /\ conn["user"] \in {"queueing", "done", "lost"}
                         /\ child = "ended"
                         /\ bridge = "dead"
    /\ verdict = "FAIL" => trouble

\* When self_test returns, no process and no socket of it is left, and no
\* directory, unless a fake codex that outlived its bridge wrote into it.
NothingLeft ==
    doctor = "ended" =>
        /\ ~BridgeAlive /\ socks \in {"none", "removed"}
        /\ tmp \in {"none", "removed"} \/ (calls /\ verdict # "ok")

\* A self_test that has begun returns whatever the bridge does: every wait has
\* a deadline.  One that is killed leaves no bridge, which watches it.
SelfTestEnds ==
    doctor # "set up" ~> \/ doctor = "ended"
                         \/ doctor = "killed" /\ (~BridgeAlive \/ hung)
=============================================================================
