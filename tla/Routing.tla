------------------------------ MODULE Routing ------------------------------
(***************************************************************************)
(* How a command in a Codex session's shell finds the bridge it goes       *)
(* through (client.find_bridge): by the state file every bridge writes,    *)
(* and by what shows that the bridge is alive.  In an open shell that is   *)
(* the registry and ps; in Codex's sandbox, where ps cannot run, it is the *)
(* age of the peers snapshot that threads of the bridge rewrite every few  *)
(* seconds.                                                                *)
(*                                                                         *)
(* Bridges start, exit and crash meanwhile.  Two of one thread never run   *)
(* at once (Lifecycle!OneServes).  An action is one file operation, or one *)
(* listing of the peers, which Registry has in detail.                     *)
(***************************************************************************)
EXTENDS Naturals, FiniteSets

CONSTANTS
    Bridges,    \* bridge processes, over all time
    Thread,     \* the Codex thread each serves, which its files are named after
    Pid,        \* the pid of each
    Clients,    \* commands that look for their bridge
    Covers,     \* per bridge: the clients whose directory lies in its own
    Snappers,   \* the threads of a bridge that write a snapshot at a time
    First,      \* one of them
    Failing,    \* bridges that fail to write a snapshot at times
    None        \* no bridge

Threads == {Thread[b] : b \in Bridges}

ASSUME RoutingAssumption ==
    /\ IsFiniteSet(Bridges) /\ None \notin Bridges
    /\ \A b \in Bridges : Covers[b] \subseteq Clients
    /\ First \in Snappers
    /\ Failing \subseteq Bridges

VARIABLES
    phase,    \* where the main thread of each bridge is
    started,  \* the time in its state file: how many bridges had started
    state,    \* per thread: the bridge the state file names, or None
    snap,     \* per thread: what the peers snapshot holds
    tmp,      \* per thread: what the temporary file of a new one holds, as
              \* long as somebody is going to rename it
    snapper,  \* where each snapshot thread is; with a file open, which it is
    client    \* where each client is and what it has found

vars == <<phase, started, state, snap, tmp, snapper, client>>

NotLooking == [step |-> "new", sandboxed |-> FALSE, left |-> {}, found |-> {},
               alive |-> {}, chosen |-> None, steady |-> {}, ended |-> {}]

Init ==
    /\ phase = [b \in Bridges |-> "unborn"]
    /\ started = [b \in Bridges |-> 0]
    /\ state = [t \in Threads |-> None]
    /\ snap = [t \in Threads |-> "none"] /\ tmp = [t \in Threads |-> "none"]
    /\ snapper = [b \in Bridges |-> [w \in Snappers |-> "none"]]
    /\ client = [x \in Clients |-> NotLooking]

Ended == {"gone", "crashed"}
Running(b) == phase[b] \notin {"unborn"} \cup Ended
Registered(b) == phase[b] \in {"opening", "up"}

-----------------------------------------------------------------------------
(* Start and end of a bridge.                                              *)

\* start: register, write the state file, and on to the first snapshot.
Start(b) ==
    /\ phase[b] = "unborn"
    /\ \A c \in Bridges : Running(c) => Thread[c] # Thread[b] /\ Pid[c] # Pid[b]
    /\ phase' = [phase EXCEPT ![b] = "opening"]
    /\ started' = [started EXCEPT ![b] = 1 + Cardinality({c \in Bridges : started[c] > 0})]
    /\ state' = [state EXCEPT ![Thread[b]] = b]
    /\ snapper' = [snapper EXCEPT ![b][First] = "listing"]
    /\ UNCHANGED <<snap, tmp, client>>

\* A client's search is steady on the bridges that serve all through it, in
\* the sandbox on those of them that can write their snapshots.
Unsteady(b) == [x \in Clients |-> [client[x] EXCEPT !.steady = @ \ {b}]]

\* The loop ends, and cleanup deregisters.
Leave(b) ==
    /\ phase[b] = "up"
    /\ phase' = [phase EXCEPT ![b] = "leaving"]
    /\ client' = Unsteady(b)
    /\ UNCHANGED <<started, state, snap, tmp, snapper>>

\* Mutant: the state file stays.
UnlinkState_Keeps(b) ==
    /\ phase[b] = "leaving"
    /\ phase' = [phase EXCEPT ![b] = "unlinked"]
    /\ UNCHANGED <<started, state, snap, tmp, snapper, client>>

UnlinkState(b) ==
    /\ phase[b] = "leaving"
    /\ phase' = [phase EXCEPT ![b] = "unlinked"]
    /\ state' = [state EXCEPT ![Thread[b]] = None]
    /\ UNCHANGED <<started, snap, tmp, snapper, client>>

\* Whoever has a file open that loses its name writes to nobody.
Detached(b) == [w \in Snappers |-> IF snapper[b][w] = "in snapshot" THEN "in nothing"
                                   ELSE snapper[b][w]]

UnlinkSnapshot(b) ==
    /\ phase[b] = "unlinked"
    /\ phase' = [phase EXCEPT ![b] = "swept"]
    /\ snap' = [snap EXCEPT ![Thread[b]] = "none"]
    /\ snapper' = [snapper EXCEPT ![b] = Detached(b)]
    /\ UNCHANGED <<started, state, tmp, client>>

\* The process ends, and its threads with it; the files stay.  A temporary one
\* is then as good as none: it is emptied before anybody writes it again.
End(b, how) ==
    /\ phase' = [phase EXCEPT ![b] = how]
    /\ snapper' = [snapper EXCEPT ![b] = [w \in Snappers |-> "none"]]
    /\ client' = Unsteady(b)
    /\ tmp' = [tmp EXCEPT ![Thread[b]] = "none"]
    /\ UNCHANGED <<started, state, snap>>

Exit(b)  == phase[b] = "swept" /\ End(b, "gone")
Crash(b) == Running(b) /\ End(b, "crashed")

-----------------------------------------------------------------------------
(* _write_peers_snapshot, in a new thread every four seconds.  The threads *)
(* of a bridge that overlap share one temporary file.                      *)

SnapperAt(b, w, from, to) ==
    /\ snapper[b][w] = from
    /\ snapper' = [snapper EXCEPT ![b][w] = to]

BeginSnapshot(b, w) ==
    /\ phase[b] = "up"
    /\ SnapperAt(b, w, "none", "listing")
    /\ UNCHANGED <<phase, started, state, snap, tmp, client>>

\* Mutant: the snapshot itself is opened, not a temporary file.
OpenSnapshot_InPlace(b, w) ==
    /\ SnapperAt(b, w, "listing", "in snapshot")
    /\ snap' = [snap EXCEPT ![Thread[b]] = "empty"]
    /\ UNCHANGED <<phase, started, state, tmp, client>>

\* os.open with O_CREAT and O_TRUNC, after the peers have been listed.
OpenSnapshot(b, w) ==
    /\ SnapperAt(b, w, "listing", "in tmp")
    /\ tmp' = [tmp EXCEPT ![Thread[b]] = "empty"]
    /\ UNCHANGED <<phase, started, state, snap, client>>

\* What a write makes of a file: on top of a longer text it leaves a rest.
Written(content) == IF content = "empty" THEN {"fresh"} ELSE {"fresh", "torn"}

\* json.dump and close, into the file that was opened, whatever its name is.
WriteSnapshot(b, w) ==
    /\ \/ /\ SnapperAt(b, w, "in tmp", "written")
          /\ \E c \in Written(tmp[Thread[b]]) : tmp' = [tmp EXCEPT ![Thread[b]] = c]
          /\ snap' = snap
       \/ /\ SnapperAt(b, w, "in snapshot", "written")
          /\ \E c \in Written(snap[Thread[b]]) : snap' = [snap EXCEPT ![Thread[b]] = c]
          /\ tmp' = tmp
       \/ /\ SnapperAt(b, w, "in nothing", "written")
          /\ UNCHANGED <<snap, tmp>>
    /\ UNCHANGED <<phase, started, state, client>>

\* os.replace: the threads that have the temporary file open have the
\* snapshot open from then on.  It fails when another has renamed the file.
Renamed(b, w) == [v \in Snappers |->
                    IF v = w THEN "none"
                    ELSE IF snapper[b][v] = "in tmp" THEN "in snapshot"
                    ELSE Detached(b)[v]]

\* After its first snapshot, whatever came of it, the bridge serves.
SnapshotDone(b) == phase' = [phase EXCEPT ![b] = IF @ = "opening" THEN "up" ELSE @]

ReplaceSnapshot(b, w) ==
    /\ snapper[b][w] = "written"
    /\ IF tmp[Thread[b]] = "none"
       THEN /\ snapper' = [snapper EXCEPT ![b][w] = "none"]
            /\ UNCHANGED <<snap, tmp>>
       ELSE /\ snapper' = [snapper EXCEPT ![b] = Renamed(b, w)]
            /\ snap' = [snap EXCEPT ![Thread[b]] = tmp[Thread[b]]]
            /\ tmp' = [tmp EXCEPT ![Thread[b]] = "none"]
    /\ SnapshotDone(b)
    /\ UNCHANGED <<started, state, client>>

\* Whether another thread has the temporary file open, or is to rename it.
Shared(b, w) == \E v \in Snappers \ {w} : snapper[b][v] \in {"in tmp", "written"}

\* An OSError, at the latest in os.replace: it is logged, and what there is
\* stays.  A write that fails may leave a part of the text.
SnapshotFails(b, w) ==
    /\ b \in Failing
    /\ snapper[b][w] # "none" /\ SnapperAt(b, w, snapper[b][w], "none")
    /\ \/ snap' = snap /\ tmp' = [tmp EXCEPT ![Thread[b]] = IF Shared(b, w) THEN @ ELSE "none"]
       \/ /\ snapper[b][w] = "in tmp" /\ Shared(b, w)
          /\ tmp' = [tmp EXCEPT ![Thread[b]] = "torn"] /\ snap' = snap
       \/ /\ snapper[b][w] = "in snapshot"
          /\ snap' = [snap EXCEPT ![Thread[b]] = "torn"] /\ tmp' = tmp
    /\ SnapshotDone(b)
    /\ UNCHANGED <<started, state, client>>

\* Fifteen seconds go by.  A bridge that serves rewrites its snapshot sooner,
\* if it can.
Age(t) ==
    /\ snap[t] = "fresh"
    /\ \A b \in Bridges : Thread[b] = t => phase[b] # "up" \/ b \in Failing
    /\ snap' = [snap EXCEPT ![t] = "old"]
    /\ UNCHANGED <<phase, started, state, tmp, snapper, client>>

-----------------------------------------------------------------------------
(* find_bridge and the use of what it finds.                               *)

ClientAt(x, from, new) == client[x].step = from /\ client' = [client EXCEPT ![x] = new]
OnlyClient == UNCHANGED <<phase, started, state, snap, tmp, snapper>>

\* _load_bridges: the state files there are ...
Glob(x) ==
    /\ \E inside \in BOOLEAN :
          ClientAt(x, "new", [client[x] EXCEPT !.step = "load", !.sandboxed = inside,
             !.left = {t \in Threads : state[t] # None},
             !.steady = {b \in Bridges : phase[b] = "up" /\ ~(inside /\ b \in Failing)},
             !.ended = {b \in Bridges : phase[b] \in (IF inside THEN {"gone"} ELSE Ended)}])
    /\ OnlyClient

\* ... and what they say, one by one; one that has gone is skipped.
Load(x, t) ==
    /\ t \in client[x].left
    /\ ClientAt(x, "load", [client[x] EXCEPT !.left = @ \ {t},
                              !.found = @ \cup ({state[t]} \ {None})])
    /\ OnlyClient

Ask(x) ==
    /\ client[x].left = {}
    /\ ClientAt(x, "load", [client[x] EXCEPT !.step = "ask", !.left = client[x].found])
    /\ OnlyClient

\* In an open shell a bridge is alive if its pid is that of a live peer.
ListPeers(x) ==
    /\ ~client[x].sandboxed
    /\ ClientAt(x, "ask", [client[x] EXCEPT !.step = "choose", !.left = {},
            !.alive = {b \in client[x].found :
                         \E c \in Bridges : Registered(c) /\ Pid[c] = Pid[b]}])
    /\ OnlyClient

\* In the sandbox it is alive if the snapshot of its thread is fresh.
ReadSnapshot(x, b) ==
    /\ client[x].sandboxed /\ b \in client[x].left
    /\ ClientAt(x, "ask", [client[x] EXCEPT !.left = @ \ {b},
                  !.step = IF @ = "ask" /\ client[x].left = {b} THEN "choose" ELSE @,
                  !.alive = IF snap[Thread[b]] = "fresh" THEN @ \cup {b} ELSE @])
    /\ OnlyClient

Newest(S) == CHOOSE b \in S : \A c \in S : started[c] <= started[b]

\* The newest bridge around the client's directory, else the newest of all.
Choice(x) ==
    LET alive == client[x].alive
        matching == {b \in alive : x \in Covers[b]}
    IN  IF matching # {} THEN Newest(matching)
        ELSE IF alive # {} THEN Newest(alive) ELSE None

\* Mutant: the caller does not ask whether a bridge was found.
Choose_Unasked(x) ==
    /\ client[x].step = "choose" \/ (client[x].step = "ask" /\ client[x].found = {})
    /\ client' = [client EXCEPT ![x] =
          [@ EXCEPT !.step = "use",
                    !.chosen = Choice(x), !.left = {}, !.found = {}, !.alive = {}]]
    /\ OnlyClient

Choose(x) ==
    /\ client[x].step = "choose" \/ (client[x].step = "ask" /\ client[x].found = {})
    /\ client' = [client EXCEPT ![x] =
          [@ EXCEPT !.step = IF Choice(x) = None THEN "no bridge" ELSE "use",
                    !.chosen = Choice(x), !.left = {}, !.found = {}, !.alive = {}]]
    /\ OnlyClient

\* The bridge answers at its socket; in the sandbox, its snapshot is read
\* once more to list the peers.
Use(x) ==
    /\ LET b == client[x].chosen
           served == IF client[x].sandboxed THEN snap[Thread[b]] = "fresh" ELSE Registered(b)
       IN  ClientAt(x, "use", IF served THEN [NotLooking EXCEPT !.step = "served"]
                              ELSE [client[x] EXCEPT !.step = "failed"])
    /\ OnlyClient

-----------------------------------------------------------------------------
Next ==
    \/ \E b \in Bridges :
          \/ Start(b) \/ Leave(b) \/ UnlinkState(b) \/ UnlinkSnapshot(b)
          \/ Exit(b) \/ Crash(b)
          \/ \E w \in Snappers : \/ BeginSnapshot(b, w) \/ OpenSnapshot(b, w)
                                 \/ WriteSnapshot(b, w) \/ ReplaceSnapshot(b, w)
                                 \/ SnapshotFails(b, w)
    \/ \E t \in Threads : Age(t)
    \/ \E x \in Clients :
          \/ Glob(x) \/ Ask(x) \/ ListPeers(x) \/ Choose(x) \/ Use(x)
          \/ \E t \in Threads : Load(x, t)
          \/ \E b \in Bridges : ReadSnapshot(x, b)

Spec == Init /\ [][Next]_vars

-----------------------------------------------------------------------------
Contents == {"none", "empty", "torn", "fresh", "old"}

\* Every variable holds a value the program can give it.
TypeOK ==
    /\ phase \in [Bridges -> {"unborn", "opening", "up", "leaving", "unlinked",
                              "swept"} \cup Ended]
    /\ started \in [Bridges -> 0..Cardinality(Bridges)]
    /\ \A t \in Threads : state[t] # None => Thread[state[t]] = t
    /\ snap \in [Threads -> Contents] /\ tmp \in [Threads -> Contents \ {"old"}]
    /\ snapper \in [Bridges -> [Snappers -> {"none", "listing", "in tmp",
                                             "in snapshot", "in nothing", "written"}]]
    /\ \A b \in Bridges : \A w \in Snappers : snapper[b][w] # "none" => Running(b)
    /\ \A x \in Clients :
          /\ client[x].step \in {"new", "load", "ask", "choose", "use", "no bridge",
                                 "served", "failed"}
          /\ client[x].alive \subseteq client[x].found
          /\ client[x].chosen # None <=> client[x].step \in {"use", "failed"}

\* find_bridge: "the newest live bridge whose cwd contains the current
\* directory, else the newest live bridge".  A bridge that serves all through
\* the search is passed over for a better one only, and if it is the choice
\* it answers.  In the sandbox that is said of bridges whose snapshots can be
\* written: a live one that fails to write its own is not found there.
LiveBridgeFound ==
    \A x \in Clients : LET c == client[x] IN
        /\ c.step = "no bridge" => c.steady = {}
        /\ c.step = "use" =>
              \A b \in c.steady :
                  /\ x \in Covers[b] => x \in Covers[c.chosen]
                  /\ (x \in Covers[b] <=> x \in Covers[c.chosen])
                        => started[b] <= started[c.chosen]
        /\ c.step = "failed" => c.chosen \notin c.steady

\* A bridge that has exited is not chosen by a search that begins later,
\* though a snapshot thread may have written its file again; nor, in an open
\* shell, is one that has crashed.
EndedNotChosen ==
    \A x \in Clients : client[x].chosen \notin client[x].ended
=============================================================================
