---------------------------- MODULE DoctorProofs ----------------------------
(***************************************************************************)
(* What the self-test of doctor promises, whatever its bridge, its fake    *)
(* codex and whoever interrupts it do: a green result is true, a failure   *)
(* has a cause, and nothing is left.                                       *)
(***************************************************************************)
EXTENDS SelfTest, TLAPS

AfterPing == {"user", "calls", "shutdown", "shutdown answer", "wait"}
AfterCall == {"shutdown", "shutdown answer", "wait"}
BeforeShutdown == {"ping", "ping answer", "user", "calls", "shutdown"}
Taken == {"queueing", "done", "lost"}

\* There is a result exactly in the finally block, and no bridge before it
\* is started.
PathInv ==
    /\ verdict = "none" <=> doctor \in Trying \cup {"killed"}
    /\ doctor \in {"set up", "spawn"} => bridge = "unborn" /\ child = "none"
    /\ doctor \in {"state"} \cup BeforeShutdown \cup AfterCall => bridge # "unborn"
    /\ bridge = "unborn" => ~state /\ \A c \in Connections : conn[c] = "none"
    /\ \A c \in Connections : conn[c] = "lost" => bridge = "dead"
    /\ doctor \in {"set up", "spawn", "state", "ping", "ping answer", "user"} =>
           conn["user"] = "none"
    /\ child # "none" => conn["user"] \in Taken
    /\ calls => child = "ended"

\* How far the doctor has got is true: the steps before have been seen.
SeenInv ==
    /\ doctor \in AfterPing \/ verdict = "ok" => conn["ping"] = "answered"
    /\ doctor \in AfterCall \/ verdict = "ok" => child = "ended"
    /\ verdict = "ok" => bridge = "dead"

\* As long as nothing has gone wrong the bridge whose state file the doctor has
\* seen serves, until it is told to stop.
HealthyInv ==
    \/ trouble
    \/ /\ verdict # "FAIL"
       /\ doctor \in {"set up", "spawn", "state"} \cup BeforeShutdown =>
              /\ ~stop /\ bridge \in {"unborn", "starting", "bound", "up"}
              /\ conn["shutdown"] = "none"
       /\ (state /\ doctor = "state") \/ doctor \in BeforeShutdown => bridge = "up"
       /\ doctor # "killed"

\* The finally block goes through the files when the bridge has gone.
LeftInv ==
    /\ doctor \in {"sweep", "remove", "socks", "ended"} => ~BridgeAlive
    /\ doctor \in {"remove", "socks"} => ~state
    /\ doctor = "sweep" => tmp \in {"none", "there"}
    /\ doctor = "remove" => tmp \in {"none", "swept"} /\ (calls => verdict # "ok")
    /\ doctor \in {"socks", "ended"} =>
           tmp \in {"none", "removed"} \/ (calls /\ verdict # "ok")
    /\ doctor = "ended" => socks \in {"none", "removed"}
    /\ doctor \in {"set up"} => tmp = "none"
    /\ doctor \in Trying \cup {"finally", "terminated", "killed"} =>
           tmp \in {"none", "there"}

\* SelfTestTypeOK in three parts: flags, connections and the rest.
Flags == /\ stop \in BOOLEAN /\ hung \in BOOLEAN /\ state \in BOOLEAN
         /\ calls \in BOOLEAN /\ trouble \in BOOLEAN
ConnOK == conn \in [Connections -> {"none", "sent", "accepted", "queueing",
                                    "stopping", "answered", "done", "lost"}]
Places ==
    /\ doctor \in Trying \cup {"finally", "terminated", "sweep", "remove",
                               "socks", "ended", "killed"}
    /\ verdict \in {"none", "ok", "FAIL", "raised", "interrupted"}
    /\ bridge \in {"unborn", "starting", "bound", "up", "leaving", "dead"}
    /\ child \in {"none", "running", "ended"}
    /\ tmp \in {"none", "there", "swept", "removed"}
    /\ socks \in {"none", "there", "removed"}

SelfTestInv == SelfTestTypeOK /\ PathInv /\ SeenInv /\ HealthyInv /\ LeftInv

-----------------------------------------------------------------------------
LEMMA SelfTestInitGood == SelfTestInit => SelfTestInv
BY DEF SelfTestInit, SelfTestInv, SelfTestTypeOK, PathInv, SeenInv, HealthyInv,
       LeftInv, Trying, Connections, AfterPing, AfterCall,
       BeforeShutdown, Taken, BridgeAlive

\* A stutter leaves the places as they are.
LEMMA PlacesStay == Places /\ UNCHANGED selfTestVars => Places'
<1> SUFFICES ASSUME Places, UNCHANGED selfTestVars PROVE Places'
    OBVIOUS
<1>1. /\ doctor' = doctor /\ verdict' = verdict /\ bridge' = bridge
      /\ child' = child /\ tmp' = tmp /\ socks' = socks
      BY DEF selfTestVars, theDoctor, theBridge, theFiles
<1>2. doctor' \in Trying \cup {"finally", "terminated", "sweep", "remove",
                               "socks", "ended", "killed"}
      BY <1>1 DEF Places
<1>3. /\ verdict' \in {"none", "ok", "FAIL", "raised", "interrupted"}
      /\ bridge' \in {"unborn", "starting", "bound", "up", "leaving", "dead"}
      BY <1>1 DEF Places
<1>4. /\ child' \in {"none", "running", "ended"}
      /\ tmp' \in {"none", "there", "swept", "removed"}
      /\ socks' \in {"none", "there", "removed"}
      BY <1>1 DEF Places
<1> QED BY <1>2, <1>3, <1>4 DEF Places, Trying

\* No step leaves a flag of the bridge or the files without a Boolean value.
LEMMA FlagsStep == Flags /\ [SelfTestNext]_selfTestVars => Flags'
<1> SUFFICES ASSUME Flags, [SelfTestNext]_selfTestVars PROVE Flags'
    OBVIOUS
<1> USE DEF BridgeAlive, BridgeListens, BridgeRuns, theDoctor, theBridge,
            theFiles, DoctorAt, Finish, BridgeAt, Flags
<1>1. CASE SetUp \/ SetUpFails \/ SpawnFails \/ StartBridge \/ SeeState \/ Ponged \/ SeeCall
      BY <1>1 DEF SetUp, SetUpFails, SpawnFails, StartBridge, SeeState, Ponged, SeeCall
<1>2. CASE ShutdownAnswered \/ BridgeEnded \/ TimeOut \/ Terminate \/
          Terminated \/ Kill
      BY <1>2 DEF ShutdownAnswered, BridgeEnded, TimeOut, Terminate,
          Terminated, Kill, Signalled, Lost
<1>3. CASE Sweep \/ RemoveTmp \/ RemoveSocks \/ Bind \/ WriteStateFile \/
          LeaveLoop
      BY <1>3 DEF Sweep, RemoveTmp, RemoveSocks, Bind, WriteStateFile,
          LeaveLoop
<1>4. CASE CleanUp \/ AnswerPing \/ QueueMessage \/ Queued \/ SetStop \/
          AnswerShutdown
      BY <1>4 DEF CleanUp, AnswerPing, QueueMessage, Queued, SetStop,
          AnswerShutdown, Lost
<1>5. CASE FakeCodex \/ Interrupt \/ DoctorKilled \/ Crash \/ Hang
      BY <1>5 DEF FakeCodex, Interrupt, DoctorKilled, Crash, Hang, Signalled,
          Lost
<1>6. ASSUME NEW c \in Connections, Connect(c) PROVE Flags'
      BY <1>6 DEF Connect, AfterConnect, Connections
<1>7. ASSUME NEW c \in Connections, Refused(c) PROVE Flags'
      BY <1>7 DEF Refused, Connections
<1>8. ASSUME NEW c \in Connections, Unanswered(c) PROVE Flags'
      BY <1>8 DEF Unanswered, AfterConnect, Connections
<1>9. ASSUME NEW c \in Connections, Accept(c) PROVE Flags'
      BY <1>9 DEF Accept
<1>10. CASE UNCHANGED selfTestVars
      BY <1>10 DEF selfTestVars
<1> QED BY <1>1, <1>2, <1>3, <1>4, <1>5, <1>6, <1>7, <1>8, <1>9, <1>10 DEF
        SelfTestNext, DoctorStep, BridgeStep

\* Every step leaves each connection in one of its states.
LEMMA ConnStep == ConnOK /\ [SelfTestNext]_selfTestVars => ConnOK'
<1> SUFFICES ASSUME ConnOK, [SelfTestNext]_selfTestVars PROVE ConnOK'
    OBVIOUS
<1> USE DEF BridgeAlive, BridgeListens, BridgeRuns, theDoctor, theBridge,
            theFiles, DoctorAt, Finish, BridgeAt, ConnOK
<1>1. CASE SetUp \/ SetUpFails \/ SpawnFails \/ StartBridge \/ SeeState \/ Ponged \/ SeeCall
      BY <1>1 DEF SetUp, SetUpFails, SpawnFails, StartBridge, SeeState, Ponged, SeeCall
<1>2. CASE ShutdownAnswered \/ BridgeEnded \/ TimeOut \/ Terminate \/
          Terminated \/ Kill
      BY <1>2 DEF ShutdownAnswered, BridgeEnded, TimeOut, Terminate,
          Terminated, Kill, Signalled, Lost
<1>3. CASE Sweep \/ RemoveTmp \/ RemoveSocks \/ Bind \/ WriteStateFile \/
          LeaveLoop
      BY <1>3 DEF Sweep, RemoveTmp, RemoveSocks, Bind, WriteStateFile,
          LeaveLoop
<1>4. CASE CleanUp \/ AnswerPing \/ QueueMessage \/ Queued \/ SetStop \/
          AnswerShutdown
      BY <1>4 DEF CleanUp, AnswerPing, QueueMessage, Queued, SetStop,
          AnswerShutdown, Lost
<1>5. CASE FakeCodex \/ Interrupt \/ DoctorKilled \/ Crash \/ Hang
      BY <1>5 DEF FakeCodex, Interrupt, DoctorKilled, Crash, Hang, Signalled,
          Lost
<1>6. ASSUME NEW c \in Connections, Connect(c) PROVE ConnOK'
      BY <1>6 DEF Connect, AfterConnect, Connections
<1>7. ASSUME NEW c \in Connections, Refused(c) PROVE ConnOK'
      BY <1>7 DEF Refused, Connections
<1>8. ASSUME NEW c \in Connections, Unanswered(c) PROVE ConnOK'
      BY <1>8 DEF Unanswered, AfterConnect, Connections
<1>9. ASSUME NEW c \in Connections, Accept(c) PROVE ConnOK'
      BY <1>9 DEF Accept
<1>10. CASE UNCHANGED selfTestVars
      BY <1>10 DEF selfTestVars
<1> QED BY <1>1, <1>2, <1>3, <1>4, <1>5, <1>6, <1>7, <1>8, <1>9, <1>10 DEF
        SelfTestNext, DoctorStep, BridgeStep

\* Every step leaves doctor, bridge, codex and files in one of their places.
LEMMA PlacesStep == Places /\ [SelfTestNext]_selfTestVars => Places'
<1> SUFFICES ASSUME Places, [SelfTestNext]_selfTestVars PROVE Places'
    OBVIOUS
<1> USE DEF BridgeAlive, BridgeListens, BridgeRuns, theDoctor, theBridge,
            theFiles, DoctorAt, Finish, BridgeAt, Trying, Places
<1>1. CASE SetUp \/ SetUpFails \/ SpawnFails \/ StartBridge \/ SeeState
      BY <1>1 DEF SetUp, SetUpFails, SpawnFails, StartBridge, SeeState
<1>2. CASE Ponged \/ SeeCall \/ ShutdownAnswered \/ BridgeEnded
      BY <1>2 DEF Ponged, SeeCall, ShutdownAnswered, BridgeEnded
<1>3. CASE TimeOut \/ Terminate \/ Terminated \/ Kill
      BY <1>3 DEF TimeOut, Terminate, Terminated, Kill, Signalled, Lost
<1>4. CASE Sweep \/ RemoveTmp \/ RemoveSocks \/ Bind
      BY <1>4 DEF Sweep, RemoveTmp, RemoveSocks, Bind
<1>5. CASE WriteStateFile \/ LeaveLoop \/ CleanUp \/ AnswerPing
      BY <1>5 DEF WriteStateFile, LeaveLoop, CleanUp, AnswerPing, Lost
<1>6. CASE QueueMessage \/ Queued \/ SetStop \/ AnswerShutdown
      BY <1>6 DEF QueueMessage, Queued, SetStop, AnswerShutdown
<1>7. CASE FakeCodex \/ Interrupt \/ DoctorKilled \/ Crash
      BY <1>7 DEF FakeCodex, Interrupt, DoctorKilled, Crash, Signalled, Lost
<1>8. CASE Hang
      BY <1>8 DEF Hang
<1>9. ASSUME NEW c \in Connections, Connect(c) PROVE Places'
      BY <1>9 DEF Connect, AfterConnect, Connections
<1>10. ASSUME NEW c \in Connections, Refused(c) PROVE Places'
      BY <1>10 DEF Refused, Connections
<1>11. ASSUME NEW c \in Connections, Unanswered(c) PROVE Places'
      BY <1>11 DEF Unanswered, AfterConnect, Connections
<1>12. ASSUME NEW c \in Connections, Accept(c) PROVE Places'
      BY <1>12 DEF Accept
<1>13. CASE UNCHANGED selfTestVars
      BY <1>13, PlacesStay
<1> QED BY <1>1, <1>2, <1>3, <1>4, <1>5, <1>6, <1>7, <1>8, <1>9, <1>10, <1>11,
        <1>12, <1>13 DEF SelfTestNext, DoctorStep, BridgeStep

\* A connection exists only with a bridge, a codex only with a message taken.
LEMMA PathStep == Places /\ ConnOK /\ PathInv /\ [SelfTestNext]_selfTestVars => PathInv'
<1> SUFFICES ASSUME Places, ConnOK, PathInv, [SelfTestNext]_selfTestVars PROVE PathInv'
    OBVIOUS
<1> USE DEF Trying, BridgeAlive, BridgeListens, BridgeRuns, theDoctor,
            theBridge, theFiles, DoctorAt, Finish, BridgeAt, AfterPing,
            AfterCall, BeforeShutdown, Taken, Places, PathInv
<1>1. CASE SetUp
      BY <1>1 DEF SetUp
<1>2. CASE SetUpFails \/ SpawnFails
  <2>1. CASE SetUpFails
        BY <2>1 DEF SetUpFails
  <2>2. CASE SpawnFails
        BY <2>2 DEF SpawnFails
  <2> QED BY <1>2, <2>1, <2>2
<1>3. CASE StartBridge
      BY <1>3 DEF StartBridge
<1>4. CASE SeeState
      BY <1>4 DEF SeeState
<1>5. CASE Ponged
      BY <1>5 DEF Ponged
<1>6. CASE SeeCall
      BY <1>6 DEF SeeCall
<1>7. CASE ShutdownAnswered
      BY <1>7 DEF ShutdownAnswered
<1>8. CASE BridgeEnded
      BY <1>8 DEF BridgeEnded
<1>9. CASE TimeOut
      BY <1>9 DEF TimeOut
<1>10. CASE Terminate
      BY <1>10 DEF Terminate, Signalled
<1>11. CASE Terminated
      BY <1>11 DEF Terminated
<1>12. CASE Sweep
      BY <1>12 DEF Sweep
<1>13. CASE RemoveTmp
      BY <1>13 DEF RemoveTmp
<1>14. CASE RemoveSocks
      BY <1>14 DEF RemoveSocks
<1>15. CASE Bind
      BY <1>15 DEF Bind
<1>16. CASE WriteStateFile
      BY <1>16 DEF WriteStateFile
<1>17. CASE LeaveLoop
      BY <1>17 DEF LeaveLoop
<1>18. CASE FakeCodex
      BY <1>18 DEF FakeCodex
<1>19. CASE Interrupt
      BY <1>19 DEF Interrupt, Signalled
<1>20. CASE DoctorKilled
      BY <1>20 DEF DoctorKilled
<1>21. CASE Hang
      BY <1>21 DEF Hang
<1>22. CASE AnswerPing
  <2>1. /\ conn'["ping"] = "answered"
        /\ conn'["user"] = conn["user"]
        /\ conn'["shutdown"] = conn["shutdown"]
        BY <1>22 DEF AnswerPing, ConnOK, Connections
  <2> QED BY <1>22, <2>1 DEF AnswerPing, Connections
<1>23. CASE QueueMessage
  <2>1. /\ conn'["ping"] = conn["ping"]
        /\ conn'["user"] = "queueing"
        /\ conn'["shutdown"] = conn["shutdown"]
        BY <1>23 DEF QueueMessage, ConnOK, Connections
  <2> QED BY <1>23, <2>1 DEF QueueMessage, Connections
<1>24. CASE Queued
  <2>1. /\ conn'["ping"] = conn["ping"]
        /\ conn'["user"] = "done"
        /\ conn'["shutdown"] = conn["shutdown"]
        BY <1>24 DEF Queued, ConnOK, Connections
  <2> QED BY <1>24, <2>1 DEF Queued, Connections
<1>25. CASE SetStop
  <2>1. /\ conn'["ping"] = conn["ping"]
        /\ conn'["user"] = conn["user"]
        /\ conn'["shutdown"] = "stopping"
        BY <1>25 DEF SetStop, ConnOK, Connections
  <2> QED BY <1>25, <2>1 DEF SetStop, Connections
<1>26. CASE AnswerShutdown
  <2>1. /\ conn'["ping"] = conn["ping"]
        /\ conn'["user"] = conn["user"]
        /\ conn'["shutdown"] = "answered"
        BY <1>26 DEF AnswerShutdown, ConnOK, Connections
  <2> QED BY <1>26, <2>1 DEF AnswerShutdown, Connections
<1>27. CASE Kill
  <2>1. \A c \in Connections :
           conn'[c] = IF conn[c] \in {"none", "answered", "done"} THEN conn[c] ELSE "lost"
        BY <1>27 DEF Kill, Lost
  <2> QED BY <1>27, <2>1 DEF Kill, Connections
<1>28. CASE CleanUp
  <2>1. \A c \in Connections :
           conn'[c] = IF conn[c] \in {"none", "answered", "done"} THEN conn[c] ELSE "lost"
        BY <1>28 DEF CleanUp, Lost
  <2> QED BY <1>28, <2>1 DEF CleanUp, Connections
<1>29. CASE Crash
  <2>1. \A c \in Connections :
           conn'[c] = IF conn[c] \in {"none", "answered", "done"} THEN conn[c] ELSE "lost"
        BY <1>29 DEF Crash, Lost
  <2> QED BY <1>29, <2>1 DEF Crash, Connections
<1>30. ASSUME NEW c \in Connections, Connect(c) PROVE PathInv'
  <2>1. /\ conn'[c] = "sent"
        /\ \A d \in Connections \ {c} : conn'[d] = conn[d]
        BY <1>30 DEF Connect, ConnOK
  <2>2. CASE c = "ping"
        BY <1>30, <2>1, <2>2 DEF Connect, AfterConnect, Connections
  <2>3. CASE c = "user"
        BY <1>30, <2>1, <2>3 DEF Connect, AfterConnect, Connections
  <2>4. CASE c = "shutdown"
        BY <1>30, <2>1, <2>4 DEF Connect, AfterConnect, Connections
  <2> QED BY <2>2, <2>3, <2>4 DEF Connections
<1>31. ASSUME NEW c \in Connections, Refused(c) PROVE PathInv'
      BY <1>31 DEF Refused, Connections
<1>32. ASSUME NEW c \in Connections, Unanswered(c) PROVE PathInv'
      BY <1>32 DEF Unanswered, AfterConnect, Connections
<1>33. ASSUME NEW c \in Connections, Accept(c) PROVE PathInv'
  <2>1. /\ conn'[c] = "accepted"
        /\ \A d \in Connections \ {c} : conn'[d] = conn[d]
        BY <1>33 DEF Accept, ConnOK
  <2>2. CASE c = "ping"
        BY <1>33, <2>1, <2>2 DEF Accept, AfterConnect, Connections
  <2>3. CASE c = "user"
        BY <1>33, <2>1, <2>3 DEF Accept, AfterConnect, Connections
  <2>4. CASE c = "shutdown"
        BY <1>33, <2>1, <2>4 DEF Accept, AfterConnect, Connections
  <2> QED BY <2>2, <2>3, <2>4 DEF Connections
<1>34. CASE UNCHANGED selfTestVars
      BY <1>34 DEF selfTestVars
<1> QED BY <1>1, <1>2, <1>3, <1>4, <1>5, <1>6, <1>7, <1>8, <1>9, <1>10, <1>11,
        <1>12, <1>13, <1>14, <1>15, <1>16, <1>17, <1>18, <1>19, <1>20, <1>21,
        <1>22, <1>23, <1>24, <1>25, <1>26, <1>27, <1>28, <1>29, <1>30, <1>31,
        <1>32, <1>33, <1>34 DEF SelfTestNext, DoctorStep, BridgeStep

\* A step of the doctor past an observation has made it.
LEMMA SeenStep ==
    Places /\ ConnOK /\ PathInv /\ SeenInv /\ [SelfTestNext]_selfTestVars => SeenInv'
<1> SUFFICES ASSUME Places, ConnOK, PathInv, SeenInv, [SelfTestNext]_selfTestVars PROVE SeenInv'
    OBVIOUS
<1> USE DEF Trying, BridgeAlive, BridgeListens, BridgeRuns, theDoctor,
            theBridge, theFiles, DoctorAt, Finish, BridgeAt, AfterPing,
            AfterCall, BeforeShutdown, Taken, Places, PathInv, SeenInv
<1>1. CASE SetUp \/ SetUpFails \/ SpawnFails \/ StartBridge \/ SeeState
      BY <1>1 DEF SetUp, SetUpFails, SpawnFails, StartBridge, SeeState
<1>2. CASE Ponged \/ SeeCall \/ ShutdownAnswered \/ BridgeEnded
      BY <1>2 DEF Ponged, SeeCall, ShutdownAnswered, BridgeEnded
<1>3. CASE TimeOut \/ Terminate \/ Terminated \/ Sweep
      BY <1>3 DEF TimeOut, Terminate, Terminated, Sweep, Signalled
<1>4. CASE RemoveTmp \/ RemoveSocks \/ Bind \/ WriteStateFile
      BY <1>4 DEF RemoveTmp, RemoveSocks, Bind, WriteStateFile
<1>5. CASE LeaveLoop \/ FakeCodex \/ Interrupt \/ DoctorKilled
      BY <1>5 DEF LeaveLoop, FakeCodex, Interrupt, DoctorKilled, Signalled
<1>6. CASE Hang
      BY <1>6 DEF Hang
<1>7. CASE AnswerPing
  <2>1. /\ conn'["ping"] = "answered"
        /\ conn'["user"] = conn["user"]
        /\ conn'["shutdown"] = conn["shutdown"]
        BY <1>7 DEF AnswerPing, ConnOK, Connections
  <2> QED BY <1>7, <2>1 DEF AnswerPing, Connections
<1>8. CASE QueueMessage
  <2>1. /\ conn'["ping"] = conn["ping"]
        /\ conn'["user"] = "queueing"
        /\ conn'["shutdown"] = conn["shutdown"]
        BY <1>8 DEF QueueMessage, ConnOK, Connections
  <2> QED BY <1>8, <2>1 DEF QueueMessage, Connections
<1>9. CASE Queued
  <2>1. /\ conn'["ping"] = conn["ping"]
        /\ conn'["user"] = "done"
        /\ conn'["shutdown"] = conn["shutdown"]
        BY <1>9 DEF Queued, ConnOK, Connections
  <2> QED BY <1>9, <2>1 DEF Queued, Connections
<1>10. CASE SetStop
  <2>1. /\ conn'["ping"] = conn["ping"]
        /\ conn'["user"] = conn["user"]
        /\ conn'["shutdown"] = "stopping"
        BY <1>10 DEF SetStop, ConnOK, Connections
  <2> QED BY <1>10, <2>1 DEF SetStop, Connections
<1>11. CASE AnswerShutdown
  <2>1. /\ conn'["ping"] = conn["ping"]
        /\ conn'["user"] = conn["user"]
        /\ conn'["shutdown"] = "answered"
        BY <1>11 DEF AnswerShutdown, ConnOK, Connections
  <2> QED BY <1>11, <2>1 DEF AnswerShutdown, Connections
<1>12. CASE Kill
  <2>1. \A c \in Connections :
           conn'[c] = IF conn[c] \in {"none", "answered", "done"} THEN conn[c] ELSE "lost"
        BY <1>12 DEF Kill, Lost
  <2> QED BY <1>12, <2>1 DEF Kill, Connections
<1>13. CASE CleanUp
  <2>1. \A c \in Connections :
           conn'[c] = IF conn[c] \in {"none", "answered", "done"} THEN conn[c] ELSE "lost"
        BY <1>13 DEF CleanUp, Lost
  <2> QED BY <1>13, <2>1 DEF CleanUp, Connections
<1>14. CASE Crash
  <2>1. \A c \in Connections :
           conn'[c] = IF conn[c] \in {"none", "answered", "done"} THEN conn[c] ELSE "lost"
        BY <1>14 DEF Crash, Lost
  <2> QED BY <1>14, <2>1 DEF Crash, Connections
<1>15. ASSUME NEW c \in Connections, Connect(c) PROVE SeenInv'
  <2>1. /\ conn'[c] = "sent"
        /\ \A d \in Connections \ {c} : conn'[d] = conn[d]
        BY <1>15 DEF Connect, ConnOK
  <2>2. CASE c = "ping"
        BY <1>15, <2>1, <2>2 DEF Connect, AfterConnect, Connections
  <2>3. CASE c = "user"
        BY <1>15, <2>1, <2>3 DEF Connect, AfterConnect, Connections
  <2>4. CASE c = "shutdown"
        BY <1>15, <2>1, <2>4 DEF Connect, AfterConnect, Connections
  <2> QED BY <2>2, <2>3, <2>4 DEF Connections
<1>16. ASSUME NEW c \in Connections, Refused(c) PROVE SeenInv'
      BY <1>16 DEF Refused, Connections
<1>17. ASSUME NEW c \in Connections, Unanswered(c) PROVE SeenInv'
      BY <1>17 DEF Unanswered, AfterConnect, Connections
<1>18. ASSUME NEW c \in Connections, Accept(c) PROVE SeenInv'
  <2>1. /\ conn'[c] = "accepted"
        /\ \A d \in Connections \ {c} : conn'[d] = conn[d]
        BY <1>18 DEF Accept, ConnOK
  <2>2. CASE c = "ping"
        BY <1>18, <2>1, <2>2 DEF Accept, AfterConnect, Connections
  <2>3. CASE c = "user"
        BY <1>18, <2>1, <2>3 DEF Accept, AfterConnect, Connections
  <2>4. CASE c = "shutdown"
        BY <1>18, <2>1, <2>4 DEF Accept, AfterConnect, Connections
  <2> QED BY <2>2, <2>3, <2>4 DEF Connections
<1>19. CASE UNCHANGED selfTestVars
      BY <1>19 DEF selfTestVars
<1> QED BY <1>1, <1>2, <1>3, <1>4, <1>5, <1>6, <1>7, <1>8, <1>9, <1>10, <1>11,
        <1>12, <1>13, <1>14, <1>15, <1>16, <1>17, <1>18, <1>19 DEF
        SelfTestNext, DoctorStep, BridgeStep

\* Until something goes wrong, the bridge the doctor talks to serves.
LEMMA HealthyStep ==
    Places /\ ConnOK /\ PathInv /\ HealthyInv /\ [SelfTestNext]_selfTestVars => HealthyInv'
<1> SUFFICES ASSUME Places, ConnOK, PathInv, HealthyInv, [SelfTestNext]_selfTestVars PROVE HealthyInv'
    OBVIOUS
<1> USE DEF Trying, BridgeAlive, BridgeListens, BridgeRuns, theDoctor,
            theBridge, theFiles, DoctorAt, Finish, BridgeAt, AfterPing,
            AfterCall, BeforeShutdown, Taken, Places, PathInv, HealthyInv
<1>1. CASE SetUp \/ SetUpFails \/ SpawnFails \/ StartBridge \/ SeeState
      BY <1>1 DEF SetUp, SetUpFails, SpawnFails, StartBridge, SeeState
<1>2. CASE Ponged \/ SeeCall \/ ShutdownAnswered \/ BridgeEnded
      BY <1>2 DEF Ponged, SeeCall, ShutdownAnswered, BridgeEnded
<1>3. CASE TimeOut \/ Terminate \/ Terminated \/ Sweep
      BY <1>3 DEF TimeOut, Terminate, Terminated, Sweep, Signalled
<1>4. CASE RemoveTmp \/ RemoveSocks \/ Bind \/ WriteStateFile
      BY <1>4 DEF RemoveTmp, RemoveSocks, Bind, WriteStateFile
<1>5. CASE LeaveLoop \/ FakeCodex \/ Interrupt \/ DoctorKilled
      BY <1>5 DEF LeaveLoop, FakeCodex, Interrupt, DoctorKilled, Signalled
<1>6. CASE Hang
      BY <1>6 DEF Hang
<1>7. CASE AnswerPing
  <2>1. /\ conn'["ping"] = "answered"
        /\ conn'["user"] = conn["user"]
        /\ conn'["shutdown"] = conn["shutdown"]
        BY <1>7 DEF AnswerPing, ConnOK, Connections
  <2> QED BY <1>7, <2>1 DEF AnswerPing, Connections
<1>8. CASE QueueMessage
  <2>1. /\ conn'["ping"] = conn["ping"]
        /\ conn'["user"] = "queueing"
        /\ conn'["shutdown"] = conn["shutdown"]
        BY <1>8 DEF QueueMessage, ConnOK, Connections
  <2> QED BY <1>8, <2>1 DEF QueueMessage, Connections
<1>9. CASE Queued
  <2>1. /\ conn'["ping"] = conn["ping"]
        /\ conn'["user"] = "done"
        /\ conn'["shutdown"] = conn["shutdown"]
        BY <1>9 DEF Queued, ConnOK, Connections
  <2> QED BY <1>9, <2>1 DEF Queued, Connections
<1>10. CASE SetStop
  <2>1. /\ conn'["ping"] = conn["ping"]
        /\ conn'["user"] = conn["user"]
        /\ conn'["shutdown"] = "stopping"
        BY <1>10 DEF SetStop, ConnOK, Connections
  <2> QED BY <1>10, <2>1 DEF SetStop, Connections
<1>11. CASE AnswerShutdown
  <2>1. /\ conn'["ping"] = conn["ping"]
        /\ conn'["user"] = conn["user"]
        /\ conn'["shutdown"] = "answered"
        BY <1>11 DEF AnswerShutdown, ConnOK, Connections
  <2> QED BY <1>11, <2>1 DEF AnswerShutdown, Connections
<1>12. CASE Kill
  <2>1. \A c \in Connections :
           conn'[c] = IF conn[c] \in {"none", "answered", "done"} THEN conn[c] ELSE "lost"
        BY <1>12 DEF Kill, Lost
  <2> QED BY <1>12, <2>1 DEF Kill, Connections
<1>13. CASE CleanUp
  <2>1. \A c \in Connections :
           conn'[c] = IF conn[c] \in {"none", "answered", "done"} THEN conn[c] ELSE "lost"
        BY <1>13 DEF CleanUp, Lost
  <2> QED BY <1>13, <2>1 DEF CleanUp, Connections
<1>14. CASE Crash
  <2>1. \A c \in Connections :
           conn'[c] = IF conn[c] \in {"none", "answered", "done"} THEN conn[c] ELSE "lost"
        BY <1>14 DEF Crash, Lost
  <2> QED BY <1>14, <2>1 DEF Crash, Connections
<1>15. ASSUME NEW c \in Connections, Connect(c) PROVE HealthyInv'
  <2>1. /\ conn'[c] = "sent"
        /\ \A d \in Connections \ {c} : conn'[d] = conn[d]
        BY <1>15 DEF Connect, ConnOK
  <2>2. CASE c = "ping"
        BY <1>15, <2>1, <2>2 DEF Connect, AfterConnect, Connections
  <2>3. CASE c = "user"
        BY <1>15, <2>1, <2>3 DEF Connect, AfterConnect, Connections
  <2>4. CASE c = "shutdown"
        BY <1>15, <2>1, <2>4 DEF Connect, AfterConnect, Connections
  <2> QED BY <2>2, <2>3, <2>4 DEF Connections
<1>16. ASSUME NEW c \in Connections, Refused(c) PROVE HealthyInv'
      BY <1>16 DEF Refused, Connections
<1>17. ASSUME NEW c \in Connections, Unanswered(c) PROVE HealthyInv'
      BY <1>17 DEF Unanswered, AfterConnect, Connections
<1>18. ASSUME NEW c \in Connections, Accept(c) PROVE HealthyInv'
  <2>1. /\ conn'[c] = "accepted"
        /\ \A d \in Connections \ {c} : conn'[d] = conn[d]
        BY <1>18 DEF Accept, ConnOK
  <2>2. CASE c = "ping"
        BY <1>18, <2>1, <2>2 DEF Accept, AfterConnect, Connections
  <2>3. CASE c = "user"
        BY <1>18, <2>1, <2>3 DEF Accept, AfterConnect, Connections
  <2>4. CASE c = "shutdown"
        BY <1>18, <2>1, <2>4 DEF Accept, AfterConnect, Connections
  <2> QED BY <2>2, <2>3, <2>4 DEF Connections
<1>19. CASE UNCHANGED selfTestVars
      BY <1>19 DEF selfTestVars
<1> QED BY <1>1, <1>2, <1>3, <1>4, <1>5, <1>6, <1>7, <1>8, <1>9, <1>10, <1>11,
        <1>12, <1>13, <1>14, <1>15, <1>16, <1>17, <1>18, <1>19 DEF
        SelfTestNext, DoctorStep, BridgeStep

\* The files go only when the bridge is gone.
LEMMA LeftStep ==
    Places /\ PathInv /\ SeenInv /\ LeftInv /\ [SelfTestNext]_selfTestVars => LeftInv'
<1> SUFFICES ASSUME Places, PathInv, SeenInv, LeftInv, [SelfTestNext]_selfTestVars PROVE LeftInv'
    OBVIOUS
<1> USE DEF Trying, BridgeAlive, BridgeListens, BridgeRuns, theDoctor,
            theBridge, theFiles, DoctorAt, Finish, BridgeAt, AfterPing,
            AfterCall, BeforeShutdown, Taken, Places, PathInv, SeenInv, LeftInv
<1>1. CASE SetUp
      BY <1>1 DEF SetUp
<1>2. CASE SetUpFails \/ SpawnFails
      BY <1>2 DEF SetUpFails, SpawnFails
<1>3. CASE StartBridge
      BY <1>3 DEF StartBridge
<1>4. CASE SeeState
      BY <1>4 DEF SeeState
<1>5. CASE Ponged
      BY <1>5 DEF Ponged
<1>6. CASE SeeCall
      BY <1>6 DEF SeeCall
<1>7. CASE ShutdownAnswered
      BY <1>7 DEF ShutdownAnswered
<1>8. CASE BridgeEnded
      BY <1>8 DEF BridgeEnded
<1>9. CASE TimeOut
      BY <1>9 DEF TimeOut
<1>10. CASE Terminate
      BY <1>10 DEF Terminate, Signalled
<1>11. CASE Terminated
      BY <1>11 DEF Terminated
<1>12. CASE Kill
      BY <1>12 DEF Kill, Lost
<1>13. CASE Sweep
      BY <1>13 DEF Sweep
<1>14. CASE RemoveTmp
      BY <1>14 DEF RemoveTmp
<1>15. CASE RemoveSocks
      BY <1>15 DEF RemoveSocks
<1>16. CASE Bind
      BY <1>16 DEF Bind
<1>17. CASE WriteStateFile
      BY <1>17 DEF WriteStateFile
<1>18. CASE LeaveLoop
      BY <1>18 DEF LeaveLoop
<1>19. CASE CleanUp
      BY <1>19 DEF CleanUp, Lost
<1>20. CASE AnswerPing
      BY <1>20 DEF AnswerPing
<1>21. CASE QueueMessage
      BY <1>21 DEF QueueMessage
<1>22. CASE Queued
      BY <1>22 DEF Queued
<1>23. CASE SetStop
      BY <1>23 DEF SetStop
<1>24. CASE AnswerShutdown
      BY <1>24 DEF AnswerShutdown
<1>25. CASE FakeCodex
      BY <1>25 DEF FakeCodex
<1>26. CASE Interrupt
      BY <1>26 DEF Interrupt, Signalled
<1>27. CASE DoctorKilled
      BY <1>27 DEF DoctorKilled
<1>28. CASE Crash
      BY <1>28 DEF Crash, Lost
<1>29. CASE Hang
      BY <1>29 DEF Hang
<1>30. ASSUME NEW c \in Connections, Connect(c) PROVE LeftInv'
      BY <1>30 DEF Connect, AfterConnect, Connections
<1>31. ASSUME NEW c \in Connections, Refused(c) PROVE LeftInv'
      BY <1>31 DEF Refused, Connections
<1>32. ASSUME NEW c \in Connections, Unanswered(c) PROVE LeftInv'
      BY <1>32 DEF Unanswered, AfterConnect, Connections
<1>33. ASSUME NEW c \in Connections, Accept(c) PROVE LeftInv'
      BY <1>33 DEF Accept
<1>34. CASE UNCHANGED selfTestVars
      BY <1>34 DEF selfTestVars
<1> QED BY <1>1, <1>2, <1>3, <1>4, <1>5, <1>6, <1>7, <1>8, <1>9, <1>10, <1>11,
        <1>12, <1>13, <1>14, <1>15, <1>16, <1>17, <1>18, <1>19, <1>20, <1>21,
        <1>22, <1>23, <1>24, <1>25, <1>26, <1>27, <1>28, <1>29, <1>30, <1>31,
        <1>32, <1>33, <1>34 DEF SelfTestNext, DoctorStep, BridgeStep

LEMMA TypeInParts == SelfTestTypeOK <=> Flags /\ ConnOK /\ Places
BY Zenon DEF SelfTestTypeOK, Flags, ConnOK, Places

LEMMA SelfTestStepGood == SelfTestInv /\ [SelfTestNext]_selfTestVars => SelfTestInv'
<1> SUFFICES ASSUME SelfTestInv, [SelfTestNext]_selfTestVars
             PROVE  SelfTestInv'
    OBVIOUS
<1>1. Flags /\ ConnOK /\ Places /\ PathInv /\ SeenInv /\ HealthyInv /\ LeftInv
      BY TypeInParts DEF SelfTestInv
<1>2. Flags' /\ ConnOK' /\ Places'
      BY <1>1, FlagsStep, ConnStep, PlacesStep
<1>3. SelfTestTypeOK'
      BY <1>2 DEF SelfTestTypeOK, Flags, ConnOK, Places
<1>4. PathInv' /\ SeenInv' /\ HealthyInv' /\ LeftInv'
      BY <1>1, PathStep, SeenStep, HealthyStep, LeftStep
<1> QED
      BY <1>3, <1>4 DEF SelfTestInv

LEMMA SelfTestInvAlways == SelfTestSpec => []SelfTestInv
BY SelfTestInitGood, SelfTestStepGood, PTL DEF SelfTestSpec

-----------------------------------------------------------------------------
\* The variables of the self-test have the values the program can give them.
THEOREM SelfTestTypeCorrect == SelfTestSpec => []SelfTestTypeOK
<1>1. SelfTestInv => SelfTestTypeOK
      BY DEF SelfTestInv
<1> QED BY <1>1, SelfTestInvAlways, PTL

\* A green self-test has seen the whole path work, and a failure has a cause:
\* whatever the bridge and the fake codex do, in whatever order, and however
\* the waits of self_test end.
THEOREM VerdictTrue == SelfTestSpec => []VerdictIsTrue
<1>1. SelfTestInv => VerdictIsTrue
  <2> SUFFICES ASSUME SelfTestInv PROVE VerdictIsTrue
      OBVIOUS
  <2>1. verdict = "ok" => conn["ping"] = "answered" /\ child = "ended" /\ bridge = "dead"
        BY DEF SelfTestInv, SeenInv
  <2>2. verdict = "ok" => conn["user"] \in {"queueing", "done", "lost"}
        BY <2>1 DEF SelfTestInv, PathInv, Taken
  <2>3. verdict = "FAIL" => trouble
        BY DEF SelfTestInv, HealthyInv
  <2> QED BY <2>1, <2>2, <2>3 DEF VerdictIsTrue
<1> QED BY <1>1, SelfTestInvAlways, PTL

\* self_test leaves no process, no socket and no directory of its own behind.
THEOREM SelfTestLeavesNothing == SelfTestSpec => []NothingLeft
<1>1. SelfTestInv => NothingLeft
      BY DEF SelfTestInv, LeftInv, NothingLeft
<1> QED BY <1>1, SelfTestInvAlways, PTL
=============================================================================
