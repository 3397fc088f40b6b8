-------------------------- MODULE LifecycleProofs --------------------------
(***************************************************************************)
(* What Lifecycle.tla promises for any number of hooks, any number of      *)
(* polls, and whatever may stop, crash or be recycled: its variables keep  *)
(* their types, one bridge at most is at the thread's files, and a bridge  *)
(* that serves is the one the state file names.  Then what the liveness    *)
(* properties of Lifecycle.tla rest on: a dead bridge's lock is free, a    *)
(* bridge knows which process to watch, and a hook starts one bridge.      *)
(***************************************************************************)
EXTENDS Lifecycle, TLAPS

\* The lock is the bridge's own from TakeLock to its end: only its holder
\* writes or unlinks the state file.
LockInv ==
    \A b \in Bridges :
        /\ proc[b] \in Holding => lock = b
        /\ proc[b] = "up" => state = b

LEMMA InitGood == Init => TypeOK /\ LockInv
BY LifecycleAssumption DEF Init, TypeOK, LockInv, Bridges, Holding, ProcStates, HookStates

-----------------------------------------------------------------------------
(* Types.                                                                  *)

\* NoBridge is how Look and Check go on: it moves the hook, never past the
\* last poll.
LEMMA NoBridgeType ==
    ASSUME TypeOK, NEW h \in Hooks, NEW absent \in BOOLEAN, NoBridge(h, absent)
    PROVE  /\ hook' \in [Hooks -> HookStates]
           /\ phase' \in [Hooks -> {"first", "waiting", "respawned"}]
           /\ polls' \in [Hooks -> 0..(Attempts - 1)]
           /\ hook'[h] \in {"looking", "spawning", "dropped"}
           /\ \A g \in Hooks \ {h} : hook'[g] = hook[g]
<1>0. Attempts \in Nat /\ polls \in [Hooks -> 0..(Attempts - 1)]
      BY LifecycleAssumption DEF TypeOK
<1>1. polls[h] \in 0..(Attempts - 1)
      BY <1>0
<1>2. CASE /\ hook' = [hook EXCEPT ![h] = "looking"]
           /\ phase' = [phase EXCEPT ![h] = "waiting"]
           /\ UNCHANGED polls
      BY <1>2 DEF TypeOK, HookStates
<1>3. CASE /\ hook' = [hook EXCEPT ![h] = "spawning"]
           /\ UNCHANGED <<phase, polls>>
      BY <1>3 DEF TypeOK, HookStates
<1>4. CASE /\ polls[h] + 1 < Attempts
           /\ hook' = [hook EXCEPT ![h] = "looking"]
           /\ polls' = [polls EXCEPT ![h] = @ + 1]
           /\ UNCHANGED phase
  <2>1. polls[h] + 1 \in 0..(Attempts - 1)
        BY <1>0, <1>1, <1>4
  <2>2. polls' \in [Hooks -> 0..(Attempts - 1)]
        BY <1>0, <1>4, <2>1
  <2>3. /\ hook' \in [Hooks -> HookStates]
        /\ phase' \in [Hooks -> {"first", "waiting", "respawned"}]
        BY <1>4 DEF TypeOK, HookStates
  <2>4. hook'[h] = "looking" /\ \A g \in Hooks \ {h} : hook'[g] = hook[g]
        BY <1>4 DEF TypeOK
  <2> QED BY <2>2, <2>3, <2>4
<1>5. CASE /\ hook' = [hook EXCEPT ![h] = IF phase[h] = "waiting"
                                          THEN "spawning" ELSE "dropped"]
           /\ UNCHANGED <<phase, polls>>
      BY <1>5 DEF TypeOK, HookStates
<1> QED BY <1>2, <1>3, <1>4, <1>5 DEF NoBridge

LEMMA HookType ==
    ASSUME TypeOK, NEW h \in Hooks, Fire(h) \/ HookStep(h)
    PROVE  TypeOK'
<1>1. CASE Fire(h)
      BY <1>1 DEF TypeOK, Fire, HookAt, files, bridges, HookStates
<1>2. CASE Look(h)
  <2>1. CASE state = None
        BY <1>2, <2>1, NoBridgeType DEF TypeOK, Look, files, bridges, HookStates
  <2>2. CASE state # None
        BY <1>2, <2>2 DEF TypeOK, Look, files, bridges, HookStates
  <2> QED BY <2>1, <2>2
<1>3. CASE Read(h)
      BY <1>3 DEF TypeOK, Read, HookAt, files, bridges, HookStates
<1>4. CASE Check(h)
  <2>1. CASE ~BridgeAlive(seen[h]) /\ NoBridge(h, FALSE)
        BY <1>4, <2>1, NoBridgeType DEF TypeOK, Check, files, bridges, HookStates
  <2>2. CASE /\ phase[h] = "waiting"
             /\ phase' = [phase EXCEPT ![h] = "first"]
             /\ UNCHANGED <<hook, polls>>
        BY <1>4, <2>2 DEF TypeOK, Check, files, bridges, HookStates
  <2>3. CASE /\ hook' = [hook EXCEPT ![h] =
                           IF h \in Starts THEN "running already" ELSE "sending"]
             /\ UNCHANGED <<phase, polls>>
        BY <1>4, <2>3 DEF TypeOK, Check, files, bridges, HookStates
  <2> QED BY <1>4, <2>1, <2>2, <2>3 DEF Check
<1>5. CASE Spawn(h)
  <2>1. polls' \in [Hooks -> 0..(Attempts - 1)]
        BY <1>5, LifecycleAssumption DEF TypeOK, Spawn
  <2>2. hook' \in [Hooks -> HookStates] /\ hook'[h] \in {"started", "looking"}
        BY <1>5 DEF TypeOK, Spawn, HookAt, HookStates
  <2>3. watch' \in [Bridges -> {"nothing", "codex", "shell", "init"}]
        BY <1>5 DEF TypeOK, Spawn, CodexPid
  <2>4. /\ phase' \in [Hooks -> {"first", "waiting", "respawned"}]
        /\ proc' \in [Bridges -> ProcStates]
        BY <1>5 DEF TypeOK, Spawn, ProcStates
  <2>5. \A g \in Hooks : hook'[g] \in {"checking", "sending"} => hook'[g] = hook[g]
        BY <1>5, <2>2 DEF TypeOK, Spawn, HookAt
  <2> QED BY <1>5, <2>1, <2>2, <2>3, <2>4, <2>5 DEF TypeOK, Spawn, files
<1>6. CASE Send(h)
  <2>1. hook' \in [Hooks -> HookStates] /\ hook'[h] \in {"sent", "failed"}
        BY <1>6 DEF TypeOK, Send, HookAt, HookStates
  <2>2. inbox' \in [Bridges -> SUBSET Hooks]
        BY <1>6 DEF TypeOK, Send
  <2>3. seen' \in [Hooks -> Bridges \cup {None}]
        BY <1>6 DEF TypeOK, Send
  <2>4. \A g \in Hooks : hook'[g] \in {"checking", "sending"} => seen'[g] # None
        BY <1>6, <2>1 DEF TypeOK, Send, HookAt
  <2> QED BY <1>6, <2>1, <2>2, <2>3, <2>4 DEF TypeOK, Send, files
<1> QED BY <1>1, <1>2, <1>3, <1>4, <1>5, <1>6 DEF HookStep

LEMMA BridgeType ==
    ASSUME TypeOK, NEW b \in Bridges,
           \/ BridgeStep(b) \/ Stop(b) \/ Crash(b) \/ Recycle(b)
           \/ \E h \in Hooks : Handle(b, h)
    PROVE  TypeOK'
<1>1. CASE TakeLock(b)
      BY <1>1 DEF TypeOK, TakeLock, ProcAt, hooks, ProcStates, Holding
<1>2. CASE WriteState(b)
      BY <1>2 DEF TypeOK, WriteState, ProcAt, hooks, ProcStates, Holding
<1>3. CASE Leave(b) \/ Stop(b)
      BY <1>3 DEF TypeOK, Leave, Stop, ProcAt, files, hooks, ProcStates, Holding
<1>4. CASE UnlinkState(b)
      BY <1>4 DEF TypeOK, UnlinkState, ProcAt, hooks, ProcStates, Holding
<1>5. CASE End(b)
      BY <1>5 DEF TypeOK, End, hooks, ProcStates
<1>6. CASE Recycle(b)
      BY <1>6 DEF TypeOK, Recycle, files, hooks
<1>7. CASE \E h \in Hooks : Handle(b, h)
      BY <1>7 DEF TypeOK, Handle, files, hooks
<1> QED BY <1>1, <1>2, <1>3, <1>4, <1>5, <1>6, <1>7 DEF BridgeStep, Exit, Crash

LEMMA TypeInductive == TypeOK /\ [Next]_vars => TypeOK'
<1> SUFFICES ASSUME TypeOK, [Next]_vars PROVE TypeOK'
    OBVIOUS
<1>1. CASE CodexExits
      BY <1>1 DEF TypeOK, CodexExits, files, bridges, hooks
<1>2. CASE UNCHANGED vars
      BY <1>2 DEF TypeOK, vars, files, bridges, hooks
<1> QED BY <1>1, <1>2, HookType, BridgeType DEF Next

\* Type correctness, whatever the hooks, the bounds and the failures are.
THEOREM LifecycleTypeCorrect == Spec => []TypeOK
<1>1. Init => TypeOK
      BY InitGood
<1> QED BY <1>1, TypeInductive, PTL DEF Spec

-----------------------------------------------------------------------------
(* The lock.                                                               *)

\* A hook writes neither file, and a bridge it starts holds nothing yet.
LEMMA HookKeepsLock ==
    ASSUME TypeOK, LockInv, NEW h \in Hooks, Fire(h) \/ HookStep(h)
    PROVE  LockInv'
<1>1. CASE Spawn(h)
      BY <1>1 DEF TypeOK, LockInv, Spawn, files, Holding, Bridges
<1>2. CASE Fire(h) \/ Look(h) \/ Read(h) \/ Check(h) \/ Send(h)
      BY <1>2 DEF LockInv, Fire, Look, Read, Check, Send, files, bridges, Holding
<1> QED BY <1>1, <1>2 DEF HookStep

\* A bridge that writes or unlinks the state file has the lock, so that the
\* file was no other bridge's.
LEMMA BridgeKeepsLock ==
    ASSUME TypeOK, LockInv, NEW b \in Bridges,
           \/ BridgeStep(b) \/ Stop(b) \/ Crash(b) \/ Recycle(b)
           \/ \E h \in Hooks : Handle(b, h)
    PROVE  LockInv'
<1>0. b \in Hooks /\ b # None
      BY LifecycleAssumption DEF Bridges
<1>1. CASE TakeLock(b)
      BY <1>0, <1>1, LifecycleAssumption
      DEF TypeOK, LockInv, TakeLock, ProcAt, Holding, Bridges
<1>2. CASE WriteState(b)
      BY <1>0, <1>2 DEF TypeOK, LockInv, WriteState, ProcAt, Holding, Bridges
<1>3. CASE Leave(b) \/ Stop(b)
      BY <1>0, <1>3 DEF TypeOK, LockInv, Leave, Stop, ProcAt, files, Holding, Bridges
<1>4. CASE UnlinkState(b)
      BY <1>0, <1>4 DEF TypeOK, LockInv, UnlinkState, ProcAt, Holding, Bridges
<1>5. CASE End(b)
      BY <1>0, <1>5 DEF TypeOK, LockInv, End, Holding, Bridges
<1>6. CASE Recycle(b) \/ \E h \in Hooks : Handle(b, h)
      BY <1>6 DEF LockInv, Recycle, Handle, files, Holding
<1> QED BY <1>1, <1>2, <1>3, <1>4, <1>5, <1>6 DEF BridgeStep, Exit, Crash

LEMMA LockInductive == TypeOK /\ LockInv /\ [Next]_vars => LockInv'
<1> SUFFICES ASSUME TypeOK, LockInv, [Next]_vars PROVE LockInv'
    OBVIOUS
<1>1. CASE CodexExits \/ UNCHANGED vars
      BY <1>1 DEF LockInv, CodexExits, vars, files, bridges, Holding
<1> QED BY <1>1, HookKeepsLock, BridgeKeepsLock DEF Next

LEMMA LockHolds == Spec => [](TypeOK /\ LockInv)
<1> QED BY InitGood, TypeInductive, LockInductive, PTL DEF Spec

\* One bridge at most is between taking the lock and its end, so that state
\* file, record and socket are never two bridges' work at once.
THEOREM OneBridgeServes == Spec => []OneServes
<1>1. TypeOK /\ LockInv => OneServes
      BY DEF LockInv, OneServes
<1> QED BY <1>1, LockHolds, PTL

\* The state file is that of the bridge that serves, also when its
\* predecessor's cleanup, which unlinks whatever file is there, came late.
THEOREM ServerFound == Spec => []ServerCanBeFound
<1>1. TypeOK /\ LockInv => ServerCanBeFound
      BY DEF LockInv, ServerCanBeFound
<1> QED BY <1>1, LockHolds, PTL

-----------------------------------------------------------------------------
(* The state file.                                                         *)

\* The state file changes in the hands of the bridge that has the lock, which
\* names itself or takes the file away: no step makes it another's.
HolderWrites ==
    state' # state => /\ lock # None /\ lock' = lock /\ proc[lock] \in Holding
                      /\ state' \in {lock, None}

LEMMA StepHolderWrites == TypeOK /\ LockInv /\ [Next]_vars => HolderWrites
<1> SUFFICES ASSUME TypeOK, LockInv, [Next]_vars PROVE HolderWrites
    OBVIOUS
<1>1. ASSUME NEW b \in Bridges, WriteState(b) \/ UnlinkState(b) PROVE HolderWrites
      BY <1>1, LifecycleAssumption
      DEF LockInv, WriteState, UnlinkState, ProcAt, HolderWrites, Holding, Bridges
<1>2. ASSUME NEW h \in Hooks, Fire(h) \/ HookStep(h) PROVE state' = state
      BY <1>2 DEF Fire, HookStep, Look, Read, Check, Spawn, Send, files
<1>3. ASSUME NEW b \in Bridges,
             \/ TakeLock(b) \/ Leave(b) \/ Exit(b) \/ Stop(b) \/ Crash(b) \/ Recycle(b)
             \/ \E h \in Hooks : Handle(b, h)
      PROVE  state' = state
      BY <1>3 DEF TakeLock, Leave, Exit, Stop, Crash, Recycle, Handle, End, files
<1>4. CASE CodexExits \/ UNCHANGED vars
      BY <1>4 DEF CodexExits, vars, files, HolderWrites
<1> QED BY <1>1, <1>2, <1>3, <1>4 DEF Next, BridgeStep, HolderWrites

\* Every write and every unlink of the state file is done under the lock, by
\* the bridge the file then names or named: cleanup, which looks at nothing
\* before it unlinks, never meets the file of a bridge that came after.
THEOREM OnlyHolderWrites == Spec => [][HolderWrites]_vars
<1> QED BY LockHolds, StepHolderWrites, PTL DEF Spec

-----------------------------------------------------------------------------
(* One bridge per hook.                                                    *)

\* A hook that has started a bridge never comes back to start another.
OnceInv ==
    \A h \in Hooks :
        /\ phase[h] = "respawned" \/ proc[h] = "unborn"
        /\ hook[h] = "spawning" => phase[h] # "respawned"

\* NoBridge leads to a start only before the hook has started a bridge, and
\* the phase it leaves is respawned only if it was.
LEMMA NoBridgeOnce ==
    ASSUME TypeOK, NEW h \in Hooks, NEW absent \in BOOLEAN, NoBridge(h, absent)
    PROVE  /\ hook'[h] = "spawning" => phase'[h] # "respawned"
           /\ phase[h] = "respawned" => phase'[h] = "respawned"
           /\ \A g \in Hooks \ {h} : hook'[g] = hook[g] /\ phase'[g] = phase[g]
BY DEF TypeOK, NoBridge

LEMMA HookKeepsOnce ==
    ASSUME TypeOK, OnceInv, NEW h \in Hooks, Fire(h) \/ HookStep(h)
    PROVE  OnceInv'
<1>1. CASE Fire(h)
      BY <1>1 DEF TypeOK, OnceInv, Fire, HookAt, bridges
<1>2. CASE Look(h)
  <2>1. CASE state = None
        BY <1>2, <2>1, NoBridgeOnce DEF TypeOK, OnceInv, Look, bridges
  <2>2. CASE state # None
        BY <1>2, <2>2 DEF TypeOK, OnceInv, Look, bridges
  <2> QED BY <2>1, <2>2
<1>3. CASE Read(h)
      BY <1>3 DEF TypeOK, OnceInv, Read, HookAt, bridges
<1>4. CASE Check(h)
  <2>1. CASE ~BridgeAlive(seen[h]) /\ NoBridge(h, FALSE)
        BY <1>4, <2>1, NoBridgeOnce DEF TypeOK, OnceInv, Check, bridges
  <2>2. CASE /\ phase[h] = "waiting"
             /\ phase' = [phase EXCEPT ![h] = "first"]
             /\ UNCHANGED <<hook, polls>>
        BY <1>4, <2>2 DEF TypeOK, OnceInv, Check, bridges
  <2>3. CASE /\ hook' = [hook EXCEPT ![h] =
                           IF h \in Starts THEN "running already" ELSE "sending"]
             /\ UNCHANGED <<phase, polls>>
        BY <1>4, <2>3 DEF TypeOK, OnceInv, Check, bridges
  <2> QED BY <1>4, <2>1, <2>2, <2>3 DEF Check
<1>5. CASE Spawn(h)
      BY <1>5 DEF TypeOK, OnceInv, Spawn, HookAt, Bridges
<1>6. CASE Send(h)
      BY <1>6 DEF TypeOK, OnceInv, Send, HookAt
<1> QED BY <1>1, <1>2, <1>3, <1>4, <1>5, <1>6 DEF HookStep

LEMMA BridgeKeepsOnce ==
    ASSUME TypeOK, OnceInv, NEW b \in Bridges,
           \/ BridgeStep(b) \/ Stop(b) \/ Crash(b) \/ Recycle(b)
           \/ \E h \in Hooks : Handle(b, h)
    PROVE  OnceInv'
<1>1. CASE BridgeStep(b) \/ Stop(b) \/ Crash(b)
  <2>1. /\ hook' = hook /\ phase' = phase /\ proc[b] # "unborn"
        /\ \A c \in Bridges \ {b} : proc'[c] = proc[c]
        BY <1>1 DEF TypeOK, BridgeStep, TakeLock, WriteState, Leave, UnlinkState,
                    Exit, Stop, Crash, End, ProcAt, hooks, Running, Holding
  <2> QED BY <2>1 DEF OnceInv, Bridges
<1>2. CASE Recycle(b) \/ \E h \in Hooks : Handle(b, h)
      BY <1>2 DEF OnceInv, Recycle, Handle, hooks
<1> QED BY <1>1, <1>2

LEMMA OnceInductive == TypeOK /\ OnceInv /\ [Next]_vars => OnceInv'
<1> SUFFICES ASSUME TypeOK, OnceInv, [Next]_vars PROVE OnceInv'
    OBVIOUS
<1>1. CASE CodexExits \/ UNCHANGED vars
      BY <1>1 DEF OnceInv, CodexExits, vars, bridges, hooks
<1> QED BY <1>1, HookKeepsOnce, BridgeKeepsOnce DEF Next

LEMMA StartedOnce == Spec => []OnceInv
<1>1. Init => OnceInv
      BY DEF Init, OnceInv, Bridges
<1> QED BY <1>1, LifecycleTypeCorrect, OnceInductive, PTL DEF Spec

\* A hook is about to start a bridge only if it has started none.
StartsOneBridge == \A h \in Hooks : hook[h] = "spawning" => proc[h] = "unborn"

\* However often it finds no bridge, and whatever becomes of the one it has
\* started, a hook starts at most one: _send respawns once, then drops the frame.  The
\* name of a hook is thereby the name of its bridge.
THEOREM HookStartsOneBridge == Spec => []StartsOneBridge
<1>1. OnceInv => StartsOneBridge
      BY DEF OnceInv, StartsOneBridge
<1> QED BY <1>1, StartedOnce, PTL

-----------------------------------------------------------------------------
(* The ends of processes.                                                  *)

\* The lock is held by a process that lives, whatever became of the others.
LockIsLive == lock # None => proc[lock] \in Holding

LEMMA HookKeepsLockLive ==
    ASSUME TypeOK, OnceInv, LockIsLive, NEW h \in Hooks, Fire(h) \/ HookStep(h)
    PROVE  LockIsLive'
<1>1. CASE Spawn(h)
      BY <1>1 DEF TypeOK, OnceInv, LockIsLive, Spawn, HookAt, files, Holding, Bridges
<1>2. CASE Fire(h) \/ Look(h) \/ Read(h) \/ Check(h) \/ Send(h)
      BY <1>2 DEF LockIsLive, Fire, Look, Read, Check, Send, files, bridges
<1> QED BY <1>1, <1>2 DEF HookStep

LEMMA BridgeKeepsLockLive ==
    ASSUME TypeOK, LockInv, LockIsLive, NEW b \in Bridges,
           \/ BridgeStep(b) \/ Stop(b) \/ Crash(b) \/ Recycle(b)
           \/ \E h \in Hooks : Handle(b, h)
    PROVE  LockIsLive'
<1>0. b \in Hooks /\ b # None
      BY LifecycleAssumption DEF Bridges
<1>1. CASE TakeLock(b)
      BY <1>0, <1>1 DEF TypeOK, LockIsLive, TakeLock, ProcAt, Holding, Bridges
<1>2. CASE WriteState(b) \/ Leave(b) \/ Stop(b) \/ UnlinkState(b)
      BY <1>0, <1>2
      DEF TypeOK, LockIsLive, WriteState, Leave, Stop, UnlinkState, ProcAt, files,
          Holding, Bridges
<1>3. CASE End(b)
      BY <1>0, <1>3 DEF TypeOK, LockIsLive, End, Holding, Bridges
<1>4. CASE Recycle(b) \/ \E h \in Hooks : Handle(b, h)
      BY <1>4 DEF LockIsLive, Recycle, Handle, files
<1> QED BY <1>1, <1>2, <1>3, <1>4 DEF BridgeStep, Exit, Crash

LEMMA LockLiveInductive ==
    TypeOK /\ LockInv /\ OnceInv /\ LockIsLive /\ [Next]_vars => LockIsLive'
<1> SUFFICES ASSUME TypeOK, LockInv, OnceInv, LockIsLive, [Next]_vars
             PROVE  LockIsLive'
    OBVIOUS
<1>1. CASE CodexExits \/ UNCHANGED vars
      BY <1>1 DEF LockIsLive, CodexExits, vars, files, bridges
<1> QED BY <1>1, HookKeepsLockLive, BridgeKeepsLockLive DEF Next

\* However a bridge ends, and at whichever step, its lock is free for the
\* bridge the next hook starts: the successor of a dead one is not turned away.
THEOREM DeadHoldNoLock == Spec => []LockIsLive
<1>1. Init => LockIsLive
      BY DEF Init, LockIsLive
<1> QED BY <1>1, LockHolds, StartedOnce, LockLiveInductive, PTL DEF Spec

-----------------------------------------------------------------------------
(* The successor.                                                          *)

\* What makes a bridge a dead one for every hook.
Buried(b) == proc[b] = "dead" /\ HookEnded(b)

\* The hook has still to find out about b, or is about to replace it.
Pursues(h, b) ==
    \/ hook[h] \in {"looking", "reading", "spawning"}
    \/ hook[h] = "checking" /\ seen[h] = b

\* As long as the state file names a dead bridge, a hook that comes to it neither
\* ends nor takes it for alive, but goes on until it has started a bridge.
DeadIsPursued ==
    \A h \in Hooks, b \in Bridges : Buried(b) =>
        /\ Buried(b)'
        /\ state = b /\ state' = b /\ Pursues(h, b) =>
               Pursues(h, b)' \/ phase'[h] = "respawned"

LEMMA BuriedStays ==
    ASSUME TypeOK, [Next]_vars, NEW b \in Bridges, Buried(b)
    PROVE  Buried(b)'
<1>0. b \in Hooks /\ hook[b] \in HookStates
      BY DEF TypeOK, Bridges
<1>1. ASSUME NEW h \in Hooks, Fire(h) \/ HookStep(h) PROVE Buried(b)'
  <2>1. h # b
        BY <1>1 DEF Buried, HookEnded, Fire, HookStep, Look, Read, Check, Spawn,
                    Send, HookAt
  <2>2. hook'[b] = hook[b]
        BY <1>0, <1>1, <2>1
        DEF TypeOK, Fire, HookStep, Look, Read, Check, Spawn, Send, HookAt, NoBridge
  <2>3. proc'[b] = proc[b]
        BY <1>1, <2>1 DEF TypeOK, Fire, HookStep, Look, Read, Check, Spawn, Send, bridges
  <2> QED BY <2>2, <2>3 DEF Buried, HookEnded
<1>2. ASSUME NEW c \in Bridges, BridgeStep(c) \/ Stop(c) \/ Crash(c) PROVE Buried(b)'
  <2>1. c # b
        BY <1>2 DEF Buried, BridgeStep, TakeLock, WriteState, Leave, UnlinkState,
                    Exit, Stop, Crash, ProcAt, Running, Holding
  <2>2. hook' = hook /\ proc'[b] = proc[b]
        BY <1>2, <2>1 DEF TypeOK, BridgeStep, TakeLock, WriteState, Leave,
                          UnlinkState, Exit, Stop, Crash, End, ProcAt, hooks
  <2> QED BY <2>2 DEF Buried, HookEnded
<1>3. ASSUME NEW c \in Bridges, Recycle(c) \/ \E h \in Hooks : Handle(c, h)
      PROVE  Buried(b)'
      BY <1>3 DEF Recycle, Handle, hooks, Buried, HookEnded
<1>4. CASE CodexExits \/ UNCHANGED vars
      BY <1>4 DEF CodexExits, vars, bridges, hooks, Buried, HookEnded
<1> QED BY <1>1, <1>2, <1>3, <1>4 DEF Next

LEMMA PursuitGoesOn ==
    ASSUME TypeOK, [Next]_vars, NEW h \in Hooks, NEW b \in Bridges,
           Buried(b), state = b, state' = b, Pursues(h, b)
    PROVE  Pursues(h, b)' \/ phase'[h] = "respawned"
<1>0. b # None /\ ~BridgeAlive(b)
      BY LifecycleAssumption DEF Buried, BridgeAlive, Running, Holding, Bridges
<1>1. CASE Look(h)
      BY <1>0, <1>1 DEF Look, Pursues, TypeOK
<1>2. CASE Read(h)
      BY <1>0, <1>2 DEF Read, HookAt, Pursues, TypeOK
<1>3. CASE Check(h)
  <2>1. hook[h] = "checking" /\ seen[h] = b
        BY <1>3 DEF Check, Pursues
  <2>2. NoBridge(h, FALSE)
        BY <1>0, <1>3, <2>1 DEF Check
  <2>3. \/ hook'[h] \in {"looking", "spawning"}
        \/ hook'[h] = "dropped" /\ phase[h] = "respawned" /\ phase' = phase
        BY <2>2 DEF NoBridge, TypeOK
  <2> QED BY <2>3 DEF Pursues
<1>4. CASE Spawn(h)
      BY <1>4 DEF Spawn, TypeOK
<1>5. CASE Fire(h) \/ Send(h)
      BY <1>5 DEF Fire, Send, HookAt, Pursues
<1>6. ASSUME hook'[h] = hook[h], seen'[h] = seen[h] PROVE Pursues(h, b)'
      BY <1>6 DEF Pursues
<1>7. ASSUME NEW g \in Hooks, g # h, Fire(g) \/ HookStep(g)
      PROVE  hook'[h] = hook[h] /\ seen'[h] = seen[h]
  <2>1. seen'[h] = seen[h]
        BY <1>7 DEF TypeOK, Fire, HookStep, Look, Read, Check, Spawn, Send, hooks
  <2>2. hook'[h] = hook[h]
        BY <1>7
        DEF TypeOK, Fire, HookStep, Look, Read, Check, Spawn, Send, HookAt, NoBridge
  <2> QED BY <2>1, <2>2
<1>8. ASSUME NEW c \in Bridges,
             \/ BridgeStep(c) \/ Stop(c) \/ Crash(c) \/ Recycle(c)
             \/ \E g \in Hooks : Handle(c, g)
      PROVE  hook' = hook /\ seen' = seen
      BY <1>8 DEF BridgeStep, TakeLock, WriteState, Leave, UnlinkState, Exit, Stop,
                  Crash, Recycle, Handle, End, hooks
<1>9. CASE CodexExits \/ UNCHANGED vars
      BY <1>6, <1>9 DEF CodexExits, vars, hooks
<1> QED BY <1>1, <1>2, <1>3, <1>4, <1>5, <1>6, <1>7, <1>8, <1>9 DEF Next, HookStep

\* What DeadBridgeReplaced rests on: whoever has come upon the file of a dead
\* bridge, however often it polls and whatever the pid is used for by now, starts
\* a successor unless somebody else's file has come first.
THEOREM DeadNotForgotten == Spec => [][DeadIsPursued]_vars
<1>1. TypeOK /\ [Next]_vars => DeadIsPursued
      BY BuriedStays, PursuitGoesOn DEF DeadIsPursued
<1> QED BY <1>1, LifecycleTypeCorrect, PTL DEF Spec

-----------------------------------------------------------------------------
(* The watched process.                                                    *)

\* A loop watches a process: Codex, the shell of the hook that started it, or
\* process 1, which a hook has for a parent only if it outlived Codex.
WatchInv ==
    \A b \in Bridges :
        /\ Running(b) => hook[b] # "idle"
        /\ proc[b] \in {"born", "locked", "up"} => watch[b] # "nothing"
        /\ watch[b] = "init" => HooksMayOutlive /\ codex = "gone"

\* A hook is at work only while Codex is up, if none outlives it.
AtWorkInv ==
    ~HooksMayOutlive /\ codex = "gone" =>
        \A h \in Hooks : hook[h] = "idle" \/ HookEnded(h)

LEMMA HookKeepsWatch ==
    ASSUME TypeOK, WatchInv, AtWorkInv, NEW h \in Hooks, Fire(h) \/ HookStep(h)
    PROVE  WatchInv' /\ AtWorkInv'
<1>0. codex' = codex
      BY DEF Fire, HookStep, Look, Read, Check, Spawn, Send
<1>1. HooksMayOutlive \/ codex = "up"
  <2>1. ~(hook[h] = "idle" \/ HookEnded(h)) \/ codex = "up"
        BY DEF Fire, HookStep, Look, Read, Check, Spawn, Send, HookAt, HookEnded
  <2> QED BY <2>1 DEF AtWorkInv, TypeOK
<1>2. AtWorkInv'
      BY <1>0, <1>1 DEF TypeOK, AtWorkInv
<1>3. ASSUME NEW b \in Hooks PROVE hook'[b] # "idle" \/ hook'[b] = hook[b]
  <2>1. CASE Fire(h) \/ Read(h) \/ Spawn(h) \/ Send(h)
        BY <2>1 DEF TypeOK, Fire, Read, Spawn, Send, HookAt
  <2>2. CASE Look(h) \/ Check(h)
        BY <2>2 DEF TypeOK, Look, Check, NoBridge
  <2> QED BY <2>1, <2>2 DEF HookStep
<1>4. CASE Spawn(h)
  <2>1. PICK w \in CodexPid : watch' = [watch EXCEPT ![h] = w]
        BY <1>4 DEF Spawn
  <2>2. /\ proc' = [proc EXCEPT ![h] = "born"]
        /\ hook'[h] # "idle"
        BY <1>4 DEF Spawn, HookAt, TypeOK
  <2>3. w # "nothing" /\ (w = "init" => HooksMayOutlive /\ codex = "gone")
        BY <1>1 DEF CodexPid, TypeOK
  <2> QED BY <1>0, <1>2, <1>3, <2>1, <2>2, <2>3 DEF TypeOK, WatchInv, Running, Holding, Bridges
<1>5. CASE Fire(h) \/ Look(h) \/ Read(h) \/ Check(h) \/ Send(h)
  <2>1. proc' = proc /\ watch' = watch
        BY <1>5 DEF Fire, Look, Read, Check, Send, bridges
  <2> QED BY <1>0, <1>2, <1>3, <2>1 DEF WatchInv, Running, Bridges
<1> QED BY <1>4, <1>5 DEF HookStep

LEMMA BridgeKeepsWatch ==
    ASSUME TypeOK, WatchInv, NEW b \in Bridges,
           \/ BridgeStep(b) \/ Stop(b) \/ Crash(b) \/ Recycle(b)
           \/ \E h \in Hooks : Handle(b, h)
    PROVE  WatchInv' /\ hook' = hook /\ codex' = codex
<1>1. CASE TakeLock(b) \/ WriteState(b) \/ UnlinkState(b)
  <2>1. /\ watch' = watch /\ codex' = codex /\ hook' = hook
        /\ \A c \in Bridges :
              /\ Running(c)' => Running(c)
              /\ proc'[c] \in {"born", "locked", "up"} => proc[c] \in {"born", "locked", "up"}
        BY <1>1 DEF TypeOK, TakeLock, WriteState, UnlinkState, ProcAt, Running, Holding, hooks
  <2> QED BY <2>1 DEF WatchInv
<1>2. CASE End(b) \/ Leave(b) \/ Stop(b)
  <2>1. /\ codex' = codex /\ hook' = hook
        /\ watch' = [watch EXCEPT ![b] = "nothing"]
        /\ proc'[b] \in {"leaving", "dead"}
        /\ \A c \in Bridges : c # b => proc'[c] = proc[c]
        /\ Running(b)' => Running(b)
        BY <1>2 DEF TypeOK, End, Leave, Stop, ProcAt, Running, Holding, hooks
  <2> QED BY <2>1 DEF TypeOK, WatchInv, Running
<1>3. CASE Recycle(b) \/ \E h \in Hooks : Handle(b, h)
      BY <1>3 DEF WatchInv, Recycle, Handle, Running, hooks
<1> QED BY <1>1, <1>2, <1>3 DEF BridgeStep, Exit, Crash

LEMMA WatchInductive ==
    TypeOK /\ WatchInv /\ AtWorkInv /\ [Next]_vars => WatchInv' /\ AtWorkInv'
<1> SUFFICES ASSUME TypeOK, WatchInv, AtWorkInv, [Next]_vars
             PROVE  WatchInv' /\ AtWorkInv'
    OBVIOUS
<1>1. CASE CodexExits
      BY <1>1 DEF CodexExits, WatchInv, AtWorkInv, bridges, hooks, Running, HookEnded
<1>2. CASE UNCHANGED vars
      BY <1>2 DEF vars, files, bridges, hooks, WatchInv, AtWorkInv, Running, HookEnded
<1>3. ASSUME hook' = hook, codex' = codex PROVE AtWorkInv'
      BY <1>3 DEF AtWorkInv, HookEnded
<1> QED BY <1>1, <1>2, <1>3, HookKeepsWatch, BridgeKeepsWatch DEF Next

LEMMA WatchHolds == Spec => [](TypeOK /\ WatchInv /\ AtWorkInv)
<1>1. Init => WatchInv /\ AtWorkInv
      BY DEF Init, WatchInv, AtWorkInv, Running, Holding, Bridges
<1> QED BY <1>1, InitGood, TypeInductive, WatchInductive, PTL DEF Spec

\* Only when Codex is gone does a bridge watch process 1; one that serves then,
\* and whose hook has ended, has a reason to leave its loop or does watch that.
NobodyStaysBehind ==
    \A b \in Bridges :
        /\ codex = "up" => watch[b] # "init"
        /\ codex = "gone" /\ proc[b] = "up" /\ HookEnded(b) =>
              WatchedIsGone(b) \/ watch[b] = "init"

\* What BridgesEndWithCodex rests on: find_codex_pid has given every bridge a
\* process to watch, and the loop of one that serves sees Codex's end, or the
\* hook's.
THEOREM NobodyServesGhosts == Spec => []NobodyStaysBehind
<1>1. TypeOK /\ WatchInv => NobodyStaysBehind
      BY DEF TypeOK, WatchInv, NobodyStaysBehind, WatchedIsGone
<1> QED BY <1>1, WatchHolds, PTL

\* When Codex waits for its hooks, no bridge stays once it is gone: whichever
\* process find_codex_pid has come upon, that one is gone as well.
THEOREM AllLeaveWithCodex ==
    ASSUME ~HooksMayOutlive
    PROVE  Spec => [](\A b \in Bridges : codex = "gone" /\ proc[b] = "up" => WatchedIsGone(b))
<1>1. TypeOK /\ WatchInv /\ AtWorkInv =>
          \A b \in Bridges : codex = "gone" /\ proc[b] = "up" => WatchedIsGone(b)
  <2> SUFFICES ASSUME TypeOK, WatchInv, AtWorkInv, NEW b \in Bridges,
                      codex = "gone", proc[b] = "up"
               PROVE  WatchedIsGone(b)
      OBVIOUS
  <2>1. HookEnded(b)
        BY DEF AtWorkInv, WatchInv, Running, Holding, Bridges
  <2> QED BY <2>1 DEF TypeOK, WatchInv, WatchedIsGone
<1> QED BY <1>1, WatchHolds, PTL
=============================================================================
