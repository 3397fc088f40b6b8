----------------------------- MODULE Lifecycle -----------------------------
(***************************************************************************)
(* Who serves a Codex thread: the hook processes of cxpeer/hooks.py, which *)
(* start bridges and send them frames, and the start and end of those      *)
(* bridges (cxpeer/bridge.py), with the state file, the lock and the       *)
(* socket they meet at.                                                    *)
(*                                                                         *)
(* Codex runs every hook in a process of its own.  A hook reads the state  *)
(* file, checks that the bridge it names is alive, starts one if not, and  *)
(* sends its frame.  A hook starts at most one bridge, which is named here *)
(* by that hook: bridge b is the one hook b has started.  An action is one *)
(* system call, or the calls between two that others can tell apart.       *)
(***************************************************************************)
EXTENDS Naturals, FiniteSets

CONSTANTS
    Hooks,          \* hook processes of one Codex thread
    Starts,         \* those of them that are session-start
    Ends,           \* those that are session-end (the frame is a shutdown)
    None,           \* no bridge
    Attempts,       \* how often _wait_for_bridge polls (30 in the code)
    MayStop,        \* SIGTERM, or an error of accept, may end a bridge
    MayCrash,       \* SIGKILL, or an exception in start, may end a bridge
    MayRecycle,     \* a dead bridge's pid may be given to another process
    HooksMayOutlive \* Codex may be gone before its hooks are

Bridges == Hooks

ASSUME LifecycleAssumption ==
    /\ Starts \subseteq Hooks /\ Ends \subseteq Hooks /\ Starts \cap Ends = {}
    /\ None \notin Hooks
    /\ Attempts \in Nat \ {0}
    /\ {MayStop, MayCrash, MayRecycle, HooksMayOutlive} \subseteq BOOLEAN

VARIABLES
    codex,     \* external: whether the Codex process is up or gone
    state,     \* the bridge the state file names, or None: no file
    lock,      \* the bridge that holds the flock of the thread, or None
    proc,      \* where each bridge process is
    watch,     \* which process the loop of each bridge watches
    stopping,  \* bridges whose stop event is set
    inbox,     \* frames sent to each bridge's socket, not yet handled
    recycled,  \* dead bridges whose pid another process has by now
    hook,      \* where each hook process is
    phase,     \* before or while waiting for another's bridge, or after starting one
    polls,     \* how often _wait_for_bridge has polled
    seen       \* the bridge the hook has read of

files   == <<state, lock>>
bridges == <<proc, watch, stopping, inbox, recycled>>
hooks   == <<hook, phase, polls, seen>>
vars    == <<codex, files, bridges, hooks>>

Init ==
    /\ codex = "up" /\ state = None /\ lock = None
    /\ proc  = [b \in Bridges |-> "unborn"]
    /\ watch = [b \in Bridges |-> "nothing"]
    /\ stopping = {} /\ inbox = [b \in Bridges |-> {}] /\ recycled = {}
    /\ hook  = [h \in Hooks |-> "idle"]
    /\ phase = [h \in Hooks |-> "first"]
    /\ polls = [h \in Hooks |-> 0]
    /\ seen  = [h \in Hooks |-> None]

\* Processes that have taken the lock; they hold it until they end.
Holding == {"locked", "up", "leaving", "unlinked"}
Running(b) == proc[b] \in Holding \cup {"born"}
Listening(b) == proc[b] \in {"up", "leaving", "unlinked"}
HookEnded(h) == hook[h] \in {"running already", "started", "sent", "failed", "dropped"}

-----------------------------------------------------------------------------
(* The hooks.                                                              *)

\* Mutant: any process with the recorded pid counts as the bridge.
BridgeAlive_AnyPid(b) == Running(b) \/ b \in recycled \/ ~HookEnded(b)

\* _bridge_alive: the pid lives and its start time is the recorded one.  A
\* bridge that has died stays a zombie as long as the hook that started it
\* runs, and is taken to be alive.
BridgeAlive(b) == Running(b) \/ (~HookEnded(b) /\ b \notin recycled)

HookAt(h, from, to) == hook[h] = from /\ hook' = [hook EXCEPT ![h] = to]

Fire(h) ==
    /\ codex = "up" /\ HookAt(h, "idle", "looking")
    /\ UNCHANGED <<codex, files, bridges, phase, polls, seen>>

\* Mutant: one poll too many.
NoBridge_Late(h, absent) ==
    \/ /\ phase[h] = "first" /\ absent /\ h \notin Starts
       /\ hook' = [hook EXCEPT ![h] = "looking"]
       /\ phase' = [phase EXCEPT ![h] = "waiting"]
       /\ UNCHANGED polls
    \/ /\ phase[h] = "first" /\ (~absent \/ h \in Starts)
       /\ hook' = [hook EXCEPT ![h] = "spawning"]
       /\ UNCHANGED <<phase, polls>>
    \/ /\ phase[h] # "first" /\ polls[h] + 1 <= Attempts
       /\ hook' = [hook EXCEPT ![h] = "looking"]
       /\ polls' = [polls EXCEPT ![h] = @ + 1]
       /\ UNCHANGED phase
    \/ /\ phase[h] # "first" /\ ~(polls[h] + 1 <= Attempts)
       /\ hook' = [hook EXCEPT ![h] = IF phase[h] = "waiting"
                                      THEN "spawning" ELSE "dropped"]
       /\ UNCHANGED <<phase, polls>>

\* No usable bridge in sight: wait for one, start one, or give up.
NoBridge(h, absent) ==
    \/ /\ phase[h] = "first" /\ absent /\ h \notin Starts
       /\ hook' = [hook EXCEPT ![h] = "looking"]
       /\ phase' = [phase EXCEPT ![h] = "waiting"]
       /\ UNCHANGED polls
    \/ /\ phase[h] = "first" /\ (~absent \/ h \in Starts)
       /\ hook' = [hook EXCEPT ![h] = "spawning"]
       /\ UNCHANGED <<phase, polls>>
    \/ /\ phase[h] # "first" /\ polls[h] + 1 < Attempts
       /\ hook' = [hook EXCEPT ![h] = "looking"]
       /\ polls' = [polls EXCEPT ![h] = @ + 1]
       /\ UNCHANGED phase
    \/ /\ phase[h] # "first" /\ ~(polls[h] + 1 < Attempts)
       /\ hook' = [hook EXCEPT ![h] = IF phase[h] = "waiting"
                                      THEN "spawning" ELSE "dropped"]
       /\ UNCHANGED <<phase, polls>>

\* _read_bridge: path.exists() ...
Look(h) ==
    /\ hook[h] = "looking"
    /\ IF state = None THEN NoBridge(h, TRUE)
       ELSE /\ hook' = [hook EXCEPT ![h] = "reading"]
            /\ UNCHANGED <<phase, polls>>
    /\ seen' = [seen EXCEPT ![h] = None]
    /\ UNCHANGED <<codex, files, bridges>>

\* ... and read_text(), which raises when the file has gone: the hook ends.
Read(h) ==
    /\ HookAt(h, "reading", IF state = None THEN "failed" ELSE "checking")
    /\ seen' = [seen EXCEPT ![h] = state]
    /\ UNCHANGED <<codex, files, bridges, phase, polls>>

\* What the waiting hook has found is checked once more, as at first.
Check(h) ==
    /\ hook[h] = "checking"
    /\ \/ /\ BridgeAlive(seen[h]) /\ phase[h] = "waiting"
          /\ phase' = [phase EXCEPT ![h] = "first"]
          /\ UNCHANGED <<hook, polls>>
       \/ /\ BridgeAlive(seen[h]) /\ phase[h] # "waiting"
          /\ hook' = [hook EXCEPT ![h] =
                         IF h \in Starts THEN "running already" ELSE "sending"]
          /\ UNCHANGED <<phase, polls>>
       \/ ~BridgeAlive(seen[h]) /\ NoBridge(h, FALSE)
    /\ seen' = [seen EXCEPT ![h] = IF hook'[h] \in {"checking", "sending"}
                                   THEN @ ELSE None]
    /\ UNCHANGED <<codex, files, bridges>>

\* find_codex_pid: Codex, or else the parent of the hook, where ps fails or no
\* process above it mentions Codex.  That is the shell the hook was started
\* with, if there is one, or process 1, for the hook of a Codex that has gone.
CodexPid == IF codex = "up" THEN {"codex", "shell"} ELSE {"shell", "init"}

Spawn(h) ==
    /\ HookAt(h, "spawning", IF h \in Starts THEN "started" ELSE "looking")
    /\ phase' = [phase EXCEPT ![h] = "respawned"]
    /\ polls' = [polls EXCEPT ![h] = 0]
    /\ proc' = [proc EXCEPT ![h] = "born"]
    /\ \E w \in CodexPid : watch' = [watch EXCEPT ![h] = w]
    /\ UNCHANGED <<codex, files, stopping, inbox, recycled, seen>>

\* wire.send_frames: the frame waits in the socket, or nobody listens.
Send(h) ==
    /\ hook[h] = "sending"
    /\ IF Listening(seen[h])
       THEN /\ HookAt(h, "sending", "sent")
            /\ inbox' = [inbox EXCEPT ![seen[h]] = @ \cup {h}]
       ELSE /\ HookAt(h, "sending", "failed")
            /\ UNCHANGED inbox
    /\ seen' = [seen EXCEPT ![h] = None]
    /\ UNCHANGED <<codex, files, proc, watch, stopping, recycled, phase, polls>>

CodexExits ==
    /\ codex = "up" /\ codex' = "gone"
    /\ HooksMayOutlive \/ \A h \in Hooks : hook[h] = "idle" \/ HookEnded(h)
    /\ UNCHANGED <<files, bridges, hooks>>

-----------------------------------------------------------------------------
(* A bridge: run, start, serve_forever, cleanup.                           *)

ProcAt(b, from, to) == proc[b] = from /\ proc' = [proc EXCEPT ![b] = to]

\* Mutant: the lock is not asked for.
TakeLock_Never(b) ==
    /\ ProcAt(b, "born", "locked")
    /\ lock' = b
    /\ UNCHANGED <<codex, state, watch, stopping, inbox, recycled, hooks>>

TakeLock(b) ==
    /\ IF lock = None THEN ProcAt(b, "born", "locked") /\ lock' = b
                      ELSE ProcAt(b, "born", "dead") /\ lock' = lock
    /\ UNCHANGED <<codex, state, watch, stopping, inbox, recycled, hooks>>

\* start: nobody knows of the socket before the state file names it.
WriteState(b) ==
    /\ ProcAt(b, "locked", "up")
    /\ state' = b
    /\ UNCHANGED <<codex, lock, watch, stopping, inbox, recycled, hooks>>

Handle(b, h) ==
    /\ proc[b] = "up" /\ h \in inbox[b]
    /\ inbox' = [inbox EXCEPT ![b] = @ \ {h}]
    /\ stopping' = IF h \in Ends THEN stopping \cup {b} ELSE stopping
    /\ UNCHANGED <<codex, files, proc, watch, recycled, hooks>>

\* pid_alive, of a process whose pid nobody has taken since: the shell of a hook
\* ends with it.
WatchedIsGone(b) ==
    \/ watch[b] = "codex" /\ codex = "gone"
    \/ watch[b] = "shell" /\ HookEnded(b)

\* Mutant: the loop looks at the stop event only.
Leave_Unwatched(b) ==
    /\ b \in stopping
    /\ ProcAt(b, "up", "leaving")
    /\ watch' = [watch EXCEPT ![b] = "nothing"]
    /\ UNCHANGED <<codex, files, stopping, inbox, recycled, hooks>>

\* Mutant: the lock is let go before cleanup.
Leave_Unlocks(b) ==
    /\ b \in stopping \/ WatchedIsGone(b)
    /\ ProcAt(b, "up", "leaving")
    /\ lock' = None
    /\ watch' = [watch EXCEPT ![b] = "nothing"]
    /\ UNCHANGED <<codex, state, stopping, inbox, recycled, hooks>>

\* The loop ends: told to stop, or the watched process is gone.
Leave(b) ==
    /\ b \in stopping \/ WatchedIsGone(b)
    /\ ProcAt(b, "up", "leaving")
    /\ watch' = [watch EXCEPT ![b] = "nothing"]
    /\ UNCHANGED <<codex, files, stopping, inbox, recycled, hooks>>

\* The loop ends for another reason: SIGTERM, or an error of accept.
Stop(b) ==
    /\ MayStop
    /\ ProcAt(b, "up", "leaving")
    /\ watch' = [watch EXCEPT ![b] = "nothing"]
    /\ UNCHANGED <<codex, files, stopping, inbox, recycled, hooks>>

UnlinkState(b) ==
    /\ ProcAt(b, "leaving", "unlinked")
    /\ state' = None
    /\ UNCHANGED <<codex, lock, watch, stopping, inbox, recycled, hooks>>

\* The system frees the lock of a process that ends, and closes its socket.
End(b) ==
    /\ proc' = [proc EXCEPT ![b] = "dead"]
    /\ lock' = IF lock = b THEN None ELSE lock
    /\ inbox' = [inbox EXCEPT ![b] = {}]
    /\ stopping' = stopping \ {b}
    /\ watch' = [watch EXCEPT ![b] = "nothing"]
    /\ UNCHANGED <<codex, state, recycled, hooks>>

Exit(b)  == proc[b] = "unlinked" /\ End(b)
Crash(b) == MayCrash /\ Running(b) /\ End(b)

Recycle(b) ==
    /\ MayRecycle /\ proc[b] = "dead" /\ HookEnded(b) /\ b \notin recycled
    /\ recycled' = recycled \cup {b}
    /\ UNCHANGED <<codex, files, proc, watch, stopping, inbox, hooks>>

-----------------------------------------------------------------------------
HookStep(h) == Look(h) \/ Read(h) \/ Check(h) \/ Spawn(h) \/ Send(h)
BridgeStep(b) == TakeLock(b) \/ WriteState(b) \/ Leave(b) \/ UnlinkState(b) \/ Exit(b)
Next == \/ \E h \in Hooks : Fire(h) \/ HookStep(h)
        \/ \E b \in Bridges : \/ BridgeStep(b) \/ Stop(b) \/ Crash(b) \/ Recycle(b)
                              \/ \E h \in Hooks : Handle(b, h)
        \/ CodexExits

Spec == Init /\ [][Next]_vars

(* Fairness: processes that have been started run (the code waits for ps   *)
(* without a time-out, but ps ends), and a bridge that is told to stop, or *)
(* whose watched process is gone, leaves its loop.  Nobody must fire a     *)
(* hook, handle a frame or crash, and Codex may stay up for ever.          *)
FairSpec ==
    /\ Spec
    /\ \A h \in Hooks : WF_vars(HookStep(h))
    /\ \A b \in Bridges : WF_vars(BridgeStep(b))

-----------------------------------------------------------------------------
ProcStates == Holding \cup {"unborn", "born", "dead"}
HookStates == {"idle", "looking", "reading", "checking", "spawning", "sending",
               "running already", "started", "sent", "failed", "dropped"}

\* Every variable holds a value the program can give it.
TypeOK ==
    /\ codex \in {"up", "gone"}
    /\ state \in Bridges \cup {None} /\ lock \in Bridges \cup {None}
    /\ proc \in [Bridges -> ProcStates]
    /\ watch \in [Bridges -> {"nothing", "codex", "shell", "init"}]
    /\ stopping \subseteq Bridges /\ inbox \in [Bridges -> SUBSET Hooks]
    /\ recycled \subseteq Bridges
    /\ hook \in [Hooks -> HookStates]
    /\ phase \in [Hooks -> {"first", "waiting", "respawned"}]
    /\ polls \in [Hooks -> 0..(Attempts - 1)]
    /\ seen \in [Hooks -> Bridges \cup {None}]
    /\ \A h \in Hooks : hook[h] \in {"checking", "sending"} => seen[h] # None

\* README: "A per-thread lock keeps it to one per session": no two bridges
\* are at the thread's files at the same time, however many hooks race.
OneServes ==
    \A b, c \in Bridges : proc[b] \in Holding /\ proc[c] \in Holding => b = c

\* A bridge that serves can be found: the state file is its own.  A leaving
\* predecessor, which unlinks whatever file is there, has not taken it away.
ServerCanBeFound == \A b \in Bridges : proc[b] = "up" => state = b

\* A hook that finds the state file of a bridge that has died, whatever its
\* pid is used for by now, sees to a successor, if nobody else does.
NamesTheDead == state # None /\ proc[state] = "dead" /\ HookEnded(state)
DeadBridgeReplaced ==
    \A h \in Hooks :
        hook[h] = "looking" /\ NamesTheDead ~> ~NamesTheDead \/ phase[h] = "respawned"

\* A bridge does not outlive its Codex, whichever process it was given to watch,
\* unless that is process 1; and that only a hook that outlived Codex gives it:
\* the bridge then stays until a session-end.
BridgesEndWithCodex ==
    /\ [](codex = "up" => \A b \in Bridges : watch[b] # "init")
    /\ \A b \in Bridges :
          codex = "gone" /\ Running(b) /\ watch[b] # "init" ~> ~Running(b)
=============================================================================
