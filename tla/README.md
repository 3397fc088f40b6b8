# cxpeer in TLA+

TLA+ models of cxpeer, the bridge that makes a running Codex session a peer of
Claude Code sessions. The modules are translated from the Python sources
(`src/cxpeer/*.py`); TLC checks them on small instances, and TLAPS proves the
main safety properties for every value of the constants. The last section says
what is left.

| file | what it is |
|------|------------|
| `Bridge.tla` | the shared tables of one bridge process and the threads that use them |
| `RequestLedger.tla` | what a sender may count on; `Bridge` implements it |
| `Outbox.tla` | the file outbox by which a sandboxed `cxpeer send` reaches its bridge |
| `SendLedger.tla` | what a sandboxed sender may count on; `Outbox` implements it |
| `Lifecycle.tla` | hook processes, the state file, the thread lock, start and end of bridges |
| `Registry.tla` | the record and key files of all accounts, their writers and readers |
| `Routing.tla` | state files, peers snapshots, and how a command chooses its bridge by them |
| `SelfTest.tla` | the self-test of `cxpeer doctor`: its bridge, its fake codex, their time-outs |
| `Install.tla` | `cxpeer install`: the merge of `hooks.json`, and what `doctor` says of it |
| `Spawn.tla` | `cxpeer spawn --wait codex`: dialogs, the first prompt, the search for the bridge |
| `Meter.tla` | the context meter: the tail of a transcript that is being written |
| `Replies.tla` | long answers: what is sent, what is stored, what `cxpeer read` prints |
| `MC*.tla`, `*.cfg` | the instances TLC checks (`MCCommands` has the last five) |
| `BridgeProofs.tla`, `OutboxProofs.tla`, `LifecycleProofs.tla`, `RegistryProofs.tla`, `RoutingProofs.tla`, `SpawnProofs.tla` | theorems about the module of that name |
| `DoctorProofs.tla` | theorems about `SelfTest` |
| `CommandProofs.tla` | theorems about `Install`, `Meter` and `Replies`, and the types of all commands (`MCCommands`) |
| `PROJECT.json` | index: runs, mutants, the source lines of every definition, hazards, findings, theorems |

## The system

Claude Code sessions on one machine find each other through files in
`~/.claude/sessions` and talk over Unix sockets. For every Codex thread cxpeer
runs one *bridge*, a Python process that takes part in that protocol on Codex's
behalf:

```
 Claude session --- socket ---> bridge --- codex queue ---> Codex
      ^                           |  ^                        |
      +------- answers, idle -----+  +---- socket --- hooks <-+
                                  |
        registry files (every account), state file, lock, outbox directory
```

A peer's message is queued into Codex with `codex queue`, its text carrying the
first eight characters of the message id as a marker. Codex's hooks tell the
bridge of the session's start, of each turn's beginning (with the prompt) and
end (with the last message), and of the session's end. A turn whose prompt
carries a marker is answered to the message's sender. A peer may also ask to be
told when Codex is next idle.

### Inventory

**Bridge: requests, turns, notices** (`bridge.py`; `Bridge`).
State: the table of pending requests, the active one, the status, the table of
idle subscriptions by reply socket, behind one lock. Operations: `on_user`,
`on_control`, `on_turn_started`, `on_turn_ended`, each in the thread of its
connection; `_expire_pending` and `cleanup` in the main thread. Hard: no handler
holds the lock from start to end, `codex queue` takes up to 30 s, every frame
has a thread of its own so that frames may overtake each other, hooks may fail,
daemon threads die at exit. Correct if: a request has one outcome at most, from
the turn that worked on it; every request is settled and every subscriber told;
the status tells whether Codex works.

**Bridge: sandbox outbox** (`bridge.py`, `client.py`; `Outbox`).
State: a directory of request, claimed and result files. Operations: the client
writes, publishes, polls, withdraws; the bridge lists, claims by renaming,
relays in a thread, writes the result; at exit it removes everything. Hard: the
two share nothing but the file system; either may die between any two calls; the
next bridge of the thread serves the same directory. Correct if: a request is
relayed at most once, never after it was withdrawn, and what the client reports
is what the bridge has done with its text.

**Hooks and lifecycle** (`hooks.py`, `bridge.py`; `Lifecycle`).
State: the state file, the `flock` of the thread, the socket, the processes.
Operations: a hook looks for a bridge, waits, spawns, sends; a bridge locks,
listens, watches Codex's pid, leaves, cleans up. Hard: hooks race each other,
pids are reused, a bridge dies anywhere, a successor starts while its
predecessor cleans up, the search for Codex's pid may come upon another process.
Correct if: one bridge at most is at a thread's files, hooks can find it, a dead
one is replaced, none outlives Codex and the process it watches.

**Registry** (`registry.py`, `paths.py`; `Registry`).
State: per account a record file and a key file, named after a pid. Operations:
`register`, `deregister`, `set_status` by a bridge; `list_peers`, `resolve`,
`token_for` by whoever wants to send. Hard: no lock between processes, several accounts of
which some may be unwritable, reuse of pids and of names, threads of two hooks
that write the same record. Correct if: a bridge that runs is found and reached
with its token, its record shows its status, and its files go when it ends.

**Wire** (`wire.py`): frames over a socket. The connection, the auth line and
its check are actions of `Lifecycle` and `Registry`; frame syntax is not
modelled.

**Client routing** (`client.py`, `bridge.py`; `Routing`).
State: a state file per thread, a peers snapshot per thread and its temporary
file. Operations: a bridge writes its state file once and its snapshot every four
seconds, each time in a new thread, and unlinks both at exit; a command reads
them (`find_bridge`), in an open shell together with the registry and `ps`, in
Codex's sandbox together with the snapshots' ages. Hard: snapshot threads
overlap and outlive the unlinking; a crash leaves every file; files are read one
by one while bridges come and go. Correct if: a command finds a bridge while one
serves, the newest around its directory, and none that has ended.

**Spawn** (`spawn.py`; `Spawn`).
State: none of its own; a tmux session, whose screen it reads and types into,
and the state files. Operations: start the session, answer each dialog once,
submit a first prompt, look for the newest bridge of the directory. Hard: what a
capture shows may be over, Codex may take Enter for a part of a text, other
sessions live in the same directory, two spawns may want the same session name.
Correct if: keys reach only what they are meant for, nothing is waited for that
cannot come, and a deadline that is far enough is met. That the bridge reported
is the spawned one's cannot be promised: the code takes the newest of the
directory since the second in which the spawn began.

**Install** (`install.py`, `doctor.py`; `Install`).
State: `hooks.json`, the skill file, their temporary files. Operations: read,
merge, write and rename; `check_hooks`, `check_skill`. Hard: it may die anywhere,
interpreters come and go, others edit the file, and copies of our entries may be
in it. Correct if: the file is never torn, other entries stay, and `doctor` is
content after an install.

**Doctor** (`doctor.py`; `SelfTest`, `Install`).
State: two throwaway directories, a bridge and a fake codex. Operations: the
steps of `self_test` and its `finally` block; checks that look at files. Hard:
three processes, each with time-outs, any of which may crash, hang or be
interrupted. Correct if: a green line means that the path works, a red one has a
cause, and nothing is left.

**Context meter** (`context.py`; `Meter`) and **stored replies** (`bridge.py`,
`cli.py`; `Replies`) read files that others are writing. Correct if the meter is
that of the last turn, and if a note that names a file can be followed.

**cli** (`cli.py`): the commands' calls into the above are the readers in
`Routing`, `Registry`, `Outbox` and `Replies`; parsing and printing are not
modelled. `demo/`, `scripts/`, `docs/`, the skill files and packaging are no part
of the running system.

## The models

Common to all: an action is the code between two points at which another thread
or process can intervene: a critical section, a file-system call, a `codex
queue`, a message sent. Payloads are identities. Logging, wording and counters
that are only displayed are left out. Definitions whose name is another
definition's with a suffix, marked *Mutant*, are not part of any specification:
they are plausible mistakes the properties are tried on. Variables marked
*external* stand for what cxpeer does not control, *history* for what is only
observed.

### Bridge

| state | code |
|-------|------|
| `pending`, `active`, `status`, `subscriptions` | the attributes of `Bridge` behind `_lock` |
| `user`, `control`, `started`, `ended` | how far each connection's thread has got |
| `popped`, `taken`, `stale` | locals of `on_turn_ended`, `_fire_idle_notices`, `_expire_pending` |
| `main` | the main thread: loop, expiry, cleanup, down |
| `codexQ`, `turn`, `prompt`, `ending` | Codex: what is queued, the turns and how they ended |
| `replies`, `notices`, `owed` | what peers were told, and what was pending when one subscribed |

`Register`, `Queued | Refused | Hangs, TimesOut | Raises`, `TakeBack`,
`NoteUndeliverable` are `on_user`; `Subscribe`, `ControlFires` are `on_control`;
`SetBusy`, `SetActive` are `on_turn_started`; `SetIdle`, `PopActive`,
`CountPending`, `TurnFires`, `Answer` are `on_turn_ended`; `Expire`,
`NoteUnanswered`, `CheckDrained`, `MainFires`, `BackToLoop` are
`_expire_pending`; `LeaveLoop`, `CleanupFires`, `Exit` are the end of
`serve_forever` and `cleanup`; `Tell` is one iteration of the loop in
`_fire_idle_notices`, whoever runs it.

Abstractions. Accepting a connection is not a step, since the first critical
section of its thread may come at any time after it. Time is not counted: a
pending request may be older than the TTL at any moment, except, under
`TtlCoversQueue`, while its `codex queue` runs (the TTL is 15 minutes by
default, the queue's time-out 30 s). Codex takes queued texts in any order
(`codexQ` is a set); it may put a human's turn anywhere between. `LeaveLoop`
covers the shutdown frame, SIGTERM, the death of the watched pid and an error of
`accept`. Sending to a peer counts as telling it: what does not get through is
logged and not retried. `ping` and the counters it returns are left out; the
files of full replies are in `Replies`.

The constants switch what the environment may do: `QueueOutcomes` (the text is
queued; refused; accepted but timed out; the call raises), `HooksInOrder`,
`HooksMayLose`, `TtlCoversQueue`, `MayStop`, `MayCrash`, and, of the message ids,
`Matching`, which of them the short id of each begins, and `Whole`, which are no
longer than a short id: those are looked up as they are before any is looked up
by its beginning.

`RequestLedger` is the promise to a sender: a request is opened, then worked on
and answered, or declined with a note; each once, in that order, and nothing
once the bridge is gone. `Bridge!Ledger` is the refinement mapping, for messages
that have a reply address.

### Outbox

One variable holds the directory (`files`, which kinds of file there are of each
request), one what a result file says, and the rest where the client, the main
thread and the relay threads are. Each action is one call: `os.replace`
(`Publish`, `PutResult`), `os.rename` (`Claim`), `glob` (`ListRequests`,
`BeginCleanup`), `unlink` (`Remove`, `Unclaim`, inside `GiveUp` and
`ReadResult`), `rmdir` (`RemoveDir`). A crash or an exit (`Die`) ends all
threads and leaves the files; `Start` is the next bridge of the thread. Whether
the relay finds its peer is nondeterministic (`Registry` models how it looks for
it). What it answers is what `sendall` told it: `sent` counts the texts that
were handed over to a peer's socket, `arrived` those a peer has taken from it,
at any later time or never (`Arrive`). `ok` does not say that the peer has read
the text: one that finds the token wrong closes the connection, one that dies
reads nothing more, and no answer comes back in either case. A `sendall` that
raises has left at least the end of the line unsent, and a line without its end
is taken to reach nobody; a peer that acted on a last line without its newline
would be an exception, if that one byte was all that was missing. The client's
six seconds are not counted: it may give up as soon as it waits. A request file
that is not valid JSON, which no client writes, is left out.

`SendLedger` is the promise to the session that sends: a text is handed over once
at most and arrives then, later or never; success is reported after it was handed
over, failure if it was not and never will be, and a request taken back in time
never is. It knows no files, no bridges and no deaths; `Outbox!Ledger` is the
refinement mapping. A client that gives up, or dies, while its request is claimed
has no known outcome, and its text may arrive later.

### Lifecycle

A hook starts one bridge at most, so bridge *b* is the one hook *b* has
started. `Look`, `Read`, `Check` are `_read_bridge` and `_bridge_alive` as
called from `_send`, `_wait_for_bridge` and `_session_start`; `phase` says which
of them it is, `polls` counts the polls of the wait. `Spawn` is `_spawn_bridge`,
`Send` the frame. `TakeLock`, `WriteState`, `Handle`, `Leave`/`Stop`,
`UnlinkState`, `Exit` are the bridge from `run` to the end of `cleanup`. Binding
the socket and writing the state file are one step, since nobody knows the
socket's name before; so are closing it and ending the process. A dead bridge
stays a zombie until the hook that started it has ended, and `os.kill(pid, 0)`
succeeds for a zombie; both the pid and its start time are compared, so that a
recycled pid is not taken for it.

`CodexPid` is what `find_codex_pid` may return: Codex, as long as it is up, or the
process it falls back to, up or not, when `ps` fails or no command above the hook mentions
Codex, which is the hook's parent: the shell the hook was started with, if there
is one, and process 1 for the hook of a Codex that has gone. `WatchedIsGone` is
`pid_alive` of the process the bridge was given. It looks at a pid's existence
only; that another process has the watched pid by then is not modelled.

### Registry

Files are named after a pid and tell the owners of a pid apart by its start
time; a record is therefore the bridge that wrote it and a status, a key the
bridge whose token it holds. `Register` and `Deregister` treat one file per
step; an account in `Flaky` may fail at any of them, which skips the rest of
that account. `ReadStatus` and `WriteStatus` are one account of `set_status`,
run by the threads of two hooks under the bridge's lock. A sender does
`list_peers` file by file (`Glob`, `Read`, `Ps`), `resolve` (`Resolve`),
`token_for` (`Key`), and connects. Bridges may share a pid one after the other.
Names and refs are not unique: the next bridge of a thread has the name of the one
before and a pid of its own, the suffix of a default name has two hex digits, and
`--peer-name` is free. `ran` keeps which bridges have run while a sender listed.
Senders are not bridges, so the test against sending to oneself is left out;
that there is one key file per pid follows from the socket's name. At the end of
a process its `status` and `at` are reset, which nothing reads after.

### Routing

`Start` is `start` up to the first snapshot; the socket, the lock and the steps
of registration are `Lifecycle`'s and `Registry`'s matter, and that two bridges
of a thread never run at once is what `Lifecycle!OneServes` says. `Leave`,
`UnlinkState`, `UnlinkSnapshot`, `Exit` are `cleanup` and the end of the process.
`BeginSnapshot`, `OpenSnapshot`, `WriteSnapshot`, `ReplaceSnapshot` are one
snapshot thread. An open file descriptor follows its file when that is renamed
or unlinked, so a thread's `snapper` says whether what it has open is the
temporary file, the snapshot, or a file without a name. What a temporary file
holds is kept as long as some thread is to rename it: one that is left behind by
a crash or a failure is emptied by the next thread that opens it before it is
written, and read by nobody. `Glob`, `Load`, `Ask`, `ListPeers`, `ReadSnapshot`,
`Choose` are `find_bridge` as called by `send` and `list`; `Use` is what they do
with the bridge found.

Abstractions. A listing of the peers is one step. A snapshot is fresh until
`Age`, the passing of fifteen seconds, which does not happen while a bridge of
the thread serves: it begins a snapshot every four, and listing the peers is
assumed to take less than eleven. The bridges in `Failing` are those for which
that does not hold: any of their snapshots may end in an `OSError`, which the
thread logs (`SnapshotFails`), so that they serve on with a snapshot that grows
old, is torn or was never made. `started` is the order of the starts; ties
within a second are left out. Peers that are not bridges and have the pid of a
dead bridge, the lookup by thread, which only tests use, and state files of
versions that had no outbox are left out. Whether a shell is sandboxed is
arbitrary.

### SelfTest

`doctor` is where `self_test` is, one value per call that others can notice;
`verdict` what it leaves with: `ok`, `FAIL`, `raised` (a `RuntimeError` nobody
catches) or `interrupted`. `bridge`, `stop` and `hung` are the main thread of
the bridge it starts, `conn` the three connections, in the order they are made,
each in a thread of the bridge, `child` the fake codex. `SetUp` to `BridgeEnded`
are the `try` block in order, each with the ways it can fail (`Refused`,
`Unanswered`, `TimeOut`); `Terminate` to `RemoveSocks` the `finally` block, with
`rmtree` in two steps, since the fake codex, which may outlive its bridge, may
write in between. `Bind` to `AnswerShutdown` are the bridge as far as the test
uses it; `SpawnFails` (the process cannot be started), `Crash`, `Hang`,
`Interrupt` (Ctrl-C goes to the whole foreground group) and `DoctorKilled` are
the faults. A second Ctrl-C, inside the `finally` block, is left out.

### Install

The entries of an event are one sequence, whatever groups they are in.
`ReadHooks` reads and merges, `OpenHooks`, `WriteHooks`, `ReplaceHooks` are
`_write_atomic`, the next three the same for the skill; `InstallCrashes` may come
between any two. Between installs others add an entry, also a copy of ours, drop
one, leave something that is not JSON, or remove an interpreter. Two installs at
a time in one home share their temporary file and lose each other's edits; this is
a limit of the code and is left out by the guard of `ReadHooks`.

### Spawn

Codex shows its dialogs in any order, reads a key when it has something up, and
may take the Enter that comes with a text for a part of it. What a capture shows
(`Screens`) is what Codex shows, and any dialogs it has left. `AnswerDialog`,
`SeeInputBox` are one round of the first loop of `_wait_codex`, `PressEnter` the
second Enter, `FindBridge` the second loop. `now` counts half seconds, because
`start_ms` is rounded down to a second. `patient` says that the deadline of a
spawn lies beyond everything that happens.

### Meter, Replies

A line of `Meter` is an interval of the file, its tokens, and whether
`splitlines` breaks it. The writer appends a line in two parts; the reader takes
the size (`Stat`) and later reads (`ReadTail`, one step, since it is one read).
In `Replies`, `CreateFile` and `WriteFile` are the open and the write of
`_store_reply`, `SendCut` the message; `FindFile` is the search of `cxpeer read`,
`PrintFile` its reading of the file. The truncated text itself is not looked at.

## What is checked

Sizes are distinct states; every run takes less than three minutes.

| run | instance | states | shows |
|-----|----------|--------|-------|
| `bridge_safety` | 2 messages with different short ids, 1 subscriber, 2 turns, shutdown and crash; hooks in order; queue works, refuses or raises | 877 k | `TypeOK`; `AtMostOneOutcome`; `ActiveIsPending`; `AnswerFromOwnTurn`; `StatusTracksTurn`; `ImplementsLedger` |
| `bridge_adverse` | 2 messages with the *same* short id, 2 turns; hooks lost and out of order, time-outs after the text is in, TTL shorter than the queue call | 3.6 M | `AtMostOneAnswer`: the pop under the lock alone guarantees it |
| `bridge_liveness` | 1 message, 2 subscriptions at one socket, 2 turns, fair | 105 k | `NoForgottenSubscriber`, `OneNoticePerSubscription`; `EveryRequestSettled`, `EverySubscriberTold` |
| `outbox` | 2 clients, 2 bridges one after the other, peers that take a text late or never | 328 k | `TypeOK`, `RelayedAtMostOnce`, `ReportsAreTrue`, `DroppedIsAnswered`, `ImplementsSends` |
| `lifecycle` | a session-start, a frame and a session-end hook, so up to 3 bridges; hooks that outlive Codex or do not find it; SIGTERM, crash, pid reuse | 427 k | `TypeOK`, `OneServes`, `ServerCanBeFound`, `DeadBridgeReplaced`, `BridgesEndWithCodex` |
| `registry` | 2 bridges with the same pid and name, 2 accounts of which the first is unreliable, 1 sender | 1.2 M | `TypeOK`, `RecordShowsStatus`, `NothingLeftBehind`, `LivePeerReached` |
| `routing` | 3 bridges, two of them one after the other in one thread, the second in another directory, the first unable to write its snapshots at times; 1 command | 3.3 M | `TypeOK`, `LiveBridgeFound`, `EndedNotChosen` |
| `commands` | one self-test; two installs in different interpreters with two changes by others; a transcript of 3 lines; 3 answers of one short id, two of them cut; two spawns of one tmux name next to a stranger in the directory of the first | 345 k | `CommandsTypeOK`; `VerdictIsTrue`, `NothingLeft`, `SelfTestEnds`; `HooksFileWhole`, `OthersUntouched`, `AdviceHelps`; `ShownIsLast`; `NotedReplyCanBeRead`; `NoStrayKeys`, `WaitsForWhatComes`, `SpawnReports` |
| `bug_*` | the smallest instances that show it | | the findings below |

Why these bounds. The races of `Bridge` are between the threads of two
requests, or of one request and two turns, for one entry of a table, and
between a subscriber and whatever empties the table: two messages and two turns
(a turn that is overtaken and the one that overtakes it) show every pair. More
subscribers than two cannot interact, since a notice is sent to each alone. In
`Outbox` requests meet only in the list of a round and in the directory's
removal: two are enough, and two bridges show a predecessor's leftovers. In
`Lifecycle` the three kinds of hook race once each, and each may start a bridge,
so a successor can meet its predecessor in every phase. One poll stands for
thirty: the wait differs only in how often the same state is read. In `Registry`
a live and an earlier owner of one pid, in an account that works and one that
may not, give every combination of stale and fresh files; two pids with three
bridges are beyond TLC in reasonable time. In `Routing` a choice is between two
bridges at most, and a third shows the leftovers of a thread's predecessor;
commands only read, so one stands for all. There is one snapshot thread in the
passing run, because `LiveBridgeFound` fails once two overlap: see
`bug_torn_snapshot`.

The commands share no state, so `MCCommands` lets a behaviour be that of one of
them, chosen at its start; what it finds is what five runs would. One self-test
is all there is, and its faults may come in any number. Two installs and two
changes show an install that finds a copy, a torn temporary file, or the entry of
an interpreter that has gone. A tail of 4 against lines of 2 and 3 has lines
that end, begin and lie across its start. Answers interact through a short id
only. Three half seconds show a bridge started before, in and after the second of
`start_ms`.

Bounds of the models themselves are `MaxTurns`, `MaxStarts`, `Attempts`,
`MaxEdits`, `MaxLines` and `MaxNow`; everything else is finite by the sets
given. `CHECK_DEADLOCK FALSE` is set everywhere because every system here may
stop: the bridge exits, the clients have reported, all turns are over.

Symmetry of messages and of subscribers is used in the safety runs of `Bridge`
only (message and subscriber sets are interchangeable there; no liveness
property is checked with it).

### Fairness

`Bridge!Fairness`: threads that have begun run on, `codex queue` returns or is
killed by its time-out (`subprocess.run(timeout=30)`), Codex begins a turn when
something is queued and ends its turns, the main thread goes round its loop,
which polls at intervals, and a request that stays pending without being active
grows older than the TTL. The last is strong fairness because a request is out
of the expiry's reach while its turn is active or the main thread tells
subscribers. No fairness is given to sending, typing, stopping or crashing.
`Outbox!FairSpec`: a running bridge polls and its relays return, a waiting
client polls. A relay's connection has a time-out; the `ps` it runs before that,
in `proc_start` (registry.py:52), has none and is taken to end, here and in
`Lifecycle`. No peer need take what it was sent. `Lifecycle!FairSpec`: started
processes run, and a bridge looks at its stop event and its watched pid; no hook
need be fired, no frame be read, and Codex need not exit. `SelfTestFairness`:
doctor, bridge and fake codex run on, and deadlines pass; a hung bridge does
nothing, for its actions are disabled. `SpawnFairness`: a spawn goes round its
loops, and Codex starts up and reads what is typed, since tmux delivers it;
deadlines pass unless the spawn is `patient`. No dialog need be shown.
`Registry`, `Routing`, `Install`, `Meter` and `Replies` make no liveness claim.

### Properties whose statement needs a comment

- `NoForgottenSubscriber` is the safety half of "every subscriber is told": when
  the peer is idle, the table empty and somebody subscribed, a thread is already
  on its way to fire. It is checked without refused queue calls; with them it
  fails, see `bug_forgotten_subscriber`.
  Under lost hooks, shutdowns and crashes, which `bridge_liveness` does not have,
  it and `OneNoticePerSubscription` rest on the proofs.
- `EverySubscriberTold` makes an exception for a subscription that a later one of
  the same socket has replaced: `idle_subscriptions` is keyed by socket.
- `EveryRequestSettled` includes the case that `codex queue` raises an
  `OSError` the code does not catch: the request stays pending and the TTL
  answers it.
- `AnswerFromOwnTurn` and `StatusTracksTurn` are checked with hooks in order and
  short ids that differ. Frames that overtake each other break the first in the
  way `bug_human_turn_forwarded` shows, ids that collide pair a turn with
  another's request.
- `ReportsAreTrue` is about handing over. Whether a peer has read what it was sent
  is not known to the bridge either. Of a client that gave up it says nothing.
- `BridgesEndWithCodex` says of every process a bridge may have been given to
  watch, but process 1, that the bridge ends after it; and that process 1 is given
  only by a hook that outlived Codex.
- `LivePeerReached` leaves out a bridge that is *rivalled*: another of the name
  or ref the sender was given ran while it listed, and `resolve` takes the one
  it comes upon first. A sender that is not a bridge, such as a Claude session
  of that name, would be a rival as well. It also leaves out a bridge that is
  *masked*: in an account where its own files could not be written an earlier
  owner of its pid has left some. Then `list_peers` and `token_for`, which take
  the first account's, do not find it. Bridges of that name that have ended are
  not left out.
- `NothingLeftBehind` leaves out records a turn's thread was rewriting during
  `deregister`: `set_status` writes back what it read, and the record of a bridge
  that has exited comes back. Nothing reaches it, as its process is gone.
- `LiveBridgeFound` speaks of the bridges that serve all through the search, in
  the sandbox of those that can write their snapshots: of a bridge that cannot,
  a sandboxed command knows nothing. `EndedNotChosen` speaks of those that had ended
  before it began. In the sandbox that means clean exits only, since the
  snapshot of a crashed bridge vouches for it for fifteen seconds. It needs
  bridges with different pids: a live peer with the pid of a crashed bridge
  vouches for that bridge's state file.

- `VerdictIsTrue` says nothing of a verdict `raised`: see the limits below.
- `NothingLeft` makes an exception for a fake codex whose bridge was killed: it
  may append its line after `rmtree` has listed the directory.
- `NotedReplyCanBeRead` speaks of notes that name a path. The note without one
  still says `cxpeer read`, which then finds nothing, or the part that was
  written.
- `WaitsForWhatComes` says that the own bridge, once it has come, is among those
  `_find_bridge` may take. It cannot say that this one is taken: a stranger that
  starts later in the same directory, or in the second of the spawn, has a state
  file that looks the same.
- `AdviceHelps` is about an install that succeeds. On a file that is not JSON
  `install` refuses, and `doctor`'s advice to run it is no help.

### Findings

Each is a run that TLC must find violated.

- `bug_human_turn_forwarded`: README.md:87 says that prompts typed by a human are
  never forwarded. `on_turn_ended` pops whatever is active when its thread gets
  the lock; if the next turn's `turn_started` has overtaken it, the human turn's
  text goes to that turn's peer.
- `bug_early_notice`: CHANGELOG.md:39 says that notices are held until every
  queued request is answered. `on_turn_ended` counts under the lock and fires
  after it; what is registered in between is not waited for.
- `bug_forgotten_subscriber`: a queue call that fails empties the table without
  firing the notices held for its request.
- `bug_torn_snapshot`: the docstring of `find_bridge` (client.py:115) says that it
  returns a live bridge if there is one. Snapshot threads share one temporary
  file; when two overlap, one publishes what the other has just emptied, and a
  sandboxed command that reads it finds no bridge until the next snapshot.

Limits of the code met while modelling, which no property can forbid and no
sentence of the repository denies in so many words:

- A hook that outlives its Codex may find process 1 for its parent and start a
  bridge that watches it for ever. The `lifecycle` run has such bridges, and
  `BridgesEndWithCodex` says that no others stay. A bridge whose watched pid is
  recycled stays as well: only the existence of the pid is checked.
- A queue call that is killed by its time-out after the text was accepted has the
  sender told that nothing was delivered, and a TTL shorter than the call, or a
  step of the wall clock, adds the expiry's note to the queue call's. The answer
  may still come (`bridge_adverse`).
- Two pending requests whose short ids are equal pair with no turn, or with the
  wrong one when the other has left the table.
- A subscriber in the hands of a daemon thread when the process ends is not
  told. A `turn_ended` that is lost leaves status and active request as they are
  until the next turn.
- A bridge that ends without answering, or too late, makes `client._request` raise
  a `RuntimeError` (client.py:149) that `self_test` does not catch (doctor.py:284,
  290): `doctor` ends in a traceback instead of a line.
- A line with U+2028 or U+0085 in it is two lines to `splitlines`, so that its
  usage record is not seen (`broken` in `Meter`).
- Frames in the listen queue of a bridge that has left its loop are never read;
  a bridge started while its predecessor cleans up finds the lock taken and
  exits, so that nobody serves until the next hook. `Lifecycle` has both
  behaviours, and `DeadBridgeReplaced` says what holds.

## What is proved

For every value of the constants that satisfies the named assumptions of the
module, and the hypotheses given:

| theorem | hypotheses | says |
|---------|------------|------|
| `BridgeProofs!TypeCorrect` | | `Spec => []TypeOK` |
| `BridgeProofs!NoticeOnce` | | `[]OneNoticePerSubscription` |
| `BridgeProofs!ActiveStaysPending` | `PromptQueue` | `[]ActiveIsPending` |
| `BridgeProofs!OutcomeOnce` | `PromptQueue` | `[]AtMostOneOutcome` |
| `BridgeProofs!NobodyForgotten` | `PromptQueue`, `NeverRefused` | `[]NoForgottenSubscriber` |
| `BridgeProofs!BridgeImplementsLedger` | `PromptQueue`, `OrderedHooks` | `Spec => ImplementsLedger` |
| `BridgeProofs!AnsweredOnce` | | `[]AtMostOneAnswer` |
| `BridgeProofs!HumanTurnsPrivate` | `OrderedHooks` | `[]HumanTurnsStayPrivate` |
| `BridgeProofs!OwnAnswer`, `StatusTrue` | `OrderedHooks`, `DistinctMarkers` | `[]AnswerFromOwnTurn`, `[]StatusTracksTurn` |
| `BridgeProofs!RequestsKept`, `SubscribersKept` | | `[]NoRequestLost`, `[]NoSubscriberLost`: the safety halves of `EveryRequestSettled` and `EverySubscriberTold` |
| `OutboxProofs!OutboxTypeCorrect`, `OnceOnly`, `TruthfulReports`, `WithdrawalIsFinal` | | `[]TypeOK`, `[]RelayedAtMostOnce`, `[]ReportsAreTrue`, `[]WithdrawnIsNotRelayed` |
| `OutboxProofs!OutboxImplementsSends` | | `Spec => ImplementsSends` |
| `OutboxProofs!NoRequestDropped` | | `[][NothingDropped]_vars`: the safety half of `DroppedIsAnswered` |
| `LifecycleProofs!LifecycleTypeCorrect`, `OneBridgeServes`, `ServerFound` | | the invariants of the `lifecycle` run |
| `LifecycleProofs!OnlyHolderWrites` | | `[][HolderWrites]_vars`: the state file changes under the lock only |
| `LifecycleProofs!DeadHoldNoLock`, `HookStartsOneBridge` | | `[]LockIsLive`, `[]StartsOneBridge` |
| `LifecycleProofs!DeadNotForgotten` | | `[][DeadIsPursued]_vars`: the safety half of `DeadBridgeReplaced` |
| `LifecycleProofs!NobodyServesGhosts` | | `[]NobodyStaysBehind`: the safety half of `BridgesEndWithCodex` |
| `LifecycleProofs!AllLeaveWithCodex` | `~HooksMayOutlive` | a bridge that serves when Codex is gone watches a process that is gone too |
| `RegistryProofs!RegistryTypeCorrect`, `StatusShown`, `ExitCleans` | | `[]TypeOK`, `[]RecordShowsStatus`, `[]NothingLeftBehind` |
| `RegistryProofs!LivePeerIsReached` | `SoundAccount` | `[]LivePeerReached` |
| `RoutingProofs!RoutingTypeCorrect` | | `[]TypeOK` |
| `RoutingProofs!EndedPassedOver` | `DistinctPids` | `[]EndedNotChosen` |
| `RoutingProofs!LiveFound` | `[]NoOverlap` | `[]LiveBridgeFound` |
| `RoutingProofs!OneAtATimeFinds` | one snapshot thread per bridge | `[]LiveBridgeFound` |
| `RoutingProofs!OpenShellFinds` | | `[]FoundInOpenShell`: outside the sandbox a torn snapshot matters to nobody |
| `DoctorProofs!SelfTestTypeCorrect`, `VerdictTrue`, `SelfTestLeavesNothing` | | `[]SelfTestTypeOK`, `[]VerdictIsTrue`, `[]NothingLeft` |
| `CommandProofs!HooksNeverTorn`, `OthersKept`, `AdviceIsGood` | | `[]HooksFileWhole`, `OthersUntouched`, `[]AdviceHelps` |
| `SpawnProofs!NoKeyStrays` | | `[]NoStrayKeys` |
| `SpawnProofs!NothingLostOnTheWay` | | `[]WaitsForWhatComes`: the safety half of `SpawnReports` |
| `CommandProofs!MeterTypeCorrect`, `MeterShowsLast` | | `[]MeterTypeOK`, `ShownIsLast` |
| `CommandProofs!NotedRepliesRead` | | `[]NotedReplyCanBeRead` |
| `CommandProofs!InstallTypeCorrect`, `CommandsTypeCorrect` | | `[]InstallTypeOK`, `[]CommandsTypeOK` |

`PromptQueue`: a queue call that fails has not put its text in, the TTL is
longer than the call, no short id begins another message's id. Each conjunct is
needed: dropping it gives a second outcome in TLC. `NeverRefused`: no queue call
fails (otherwise `bug_forgotten_subscriber`). `OrderedHooks`: a turn's frames
are handled in order and none is lost (otherwise `bug_human_turn_forwarded`).
`DistinctMarkers`: no short id begins another message's id. `DistinctPids`: no
two bridges have the same pid over all time. `SoundAccount`: some account can
always be written; names, refs and pids need not differ. `NoOverlap` is a
condition on a behaviour and not on the constants: no two threads of a bridge
are between opening the temporary snapshot and renaming it at a time, however
many threads there are (otherwise `bug_torn_snapshot`); `Spec /\ []NoOverlap`
has all the behaviours of the code in which a snapshot takes less than the four
seconds to the start of the next. All are conditions on the environment that the
code does not enforce.

The arguments:

- *One notice.* A subscriber is in the table, or in the list of exactly one
  firing thread, or told; `_fire_idle_notices` moves all of the table into one
  list under one lock.
- *One outcome.* `OutcomeInv`: a request whose sender has been told nothing is in
  exactly one of these places: unsent, in the table, held by one turn's thread,
  in the expiry's list, or held by the thread that is about to note it as
  undeliverable. It rests on `QueueInv`: the entry of a request whose queue call
  runs or has failed is in the table, and what Codex works on has been queued
  with success, so that no turn pops what a failed call takes back.
- *One answer.* `AnswerInv`: a request that is pending, or held by the thread of
  an ended turn, has no answer yet, and no two turns hold the same one. An entry
  leaves the table for one turn only and never comes back, so the queue and the
  order of the hooks do not matter here, as they do for outcomes.
- *Private human turns, the turn's own answer, the true status.* `TurnInv` says
  what the last turn's threads have done to `status`, `active` and the answer, at
  each of their places; `OrderInv` that no other turn's are moving. What is active
  carries the marker its turn's prompt carried (`Marked`): that is enough for a
  human's turn, which carries none, and, when markers tell messages apart, for the
  rest. Whether the entry is still in the table does not matter, and so neither
  does what `codex queue` and the expiry do.
- *Nothing lost.* `HandInv`, `ListInv`: what is taken out of a table is in the
  local of one thread, which is empty when that thread takes, and stays there
  until the peer is told.
- *Nobody forgotten.* `WakeInv` is the property itself and that no call has
  failed: whoever makes the last of the three conditions of `IdleNow` true is a
  thread the invariant names.
- *Refinement.* `OrderInv` says where the threads of each turn can be when hooks
  are in order: only the last turn's are moving, and nothing is active before
  it has started. With `OutcomeInv` every step is a step of the ledger or
  leaves it alone.
- *Outbox.* `RequestInv` follows one request through the directory: while its
  `.json` file is there nobody works on it and nothing has been handed over;
  whoever has claimed it holds the only licence to relay it; a result that
  exists agrees with what was handed over. A step acts on one request or only
  removes files. The same invariant makes every step one of `SendLedger`, or
  none: a relay hands over what its client has neither taken back nor seen fail,
  and only what was handed over arrives. `KeptInv`: while the bridge serves
  nobody sweeps what its relay threads work with.
- *Lifecycle.* `LockInv`: a process that holds the thread's lock keeps it to its
  end, and only such a process writes or unlinks the state file. `OnceInv`: a
  hook that has started a bridge never comes back to start one, so that no
  process is born where the lock is held. `WatchInv` says what each bridge
  watches: Codex, the shell of the hook that started it, which ends with that
  hook, or process 1, and that only once Codex is gone; it is never changed
  while the bridge runs. `AtWorkInv`: if no hook outlives Codex, none is at work
  once it is gone, so that every watched process is gone as well.
- *Registry.* `FileInv` says for every account that works what the files of a
  bridge's pid are in each phase, how far `register` and `deregister` have got,
  and what the threads of `set_status` hold; `ThreadInv` that these threads
  write the bridge's own status, and `AloneInv` that no other bridge of the pid
  runs meanwhile, which is why nobody else writes the files. `WasInv` adds that
  a thread between its read and its write has nothing taken away, so that the
  files at the pid of a bridge that serves keep their owners (`UpKeeps`);
  `SearchInv` then follows a sender past every account: a bridge that serves all
  along is listed once an account that works has been read, and its key found
  there at the latest. `MetInv`: what a sender takes for alive has run while it
  listed, so that a bridge found in another's place is a rival.
- *Routing.* `FilesInv`: a state file names the bridge that serves its thread or
  one that crashed, never one that exited; `EndGood` follows the bridges that
  had ended through a search, so that an exited one is never even found and a
  crashed one never alive. `SnapFresh`, while none overlap: a thread that writes
  a snapshot has a temporary file of its own (`OwnFile`), so what it renames is
  whole; `SteadyGood` says at each step of a search where a bridge that serves
  all along is: named by a file still to be read, found, alive. Both speak, in
  the sandbox, of bridges that can write their snapshots. `NewestIs`,
  `ChoiceIs`: what the choice among the alive returns.
- *Self-test.* `SeenInv`: where the doctor is tells what it has seen, and what it
  has seen stays true. `HealthyInv`: until something goes wrong, the bridge whose
  state file was seen serves until it is told to stop. `LeftInv` follows the
  `finally` block. `PathInv` ties the connections to both.
- *Install.* `MergeFound`, `MergeAgain`: what merging returns, and that it is
  idempotent. `StageInv`: what an install has merged is what the file then needs,
  since nobody else writes while it is at work.
- *Spawn.* A dialog's answer is in the keys only while the dialog is up: it was
  answered once, was shown before that, and goes when the answer is read
  (`DialogInv`, `KeysInv`, `WhereInv`); so the input box gets none. `BoxInv`
  follows the first prompt and its second Enter through the keys and the input
  box.
- *Meter.* `InOrder`: any two lines lie in the order of their numbers. It is what
  an induction over the file would give, and is preserved by each line that is
  added. The last usage record is the greatest of a finite set of numbers.
- *Replies.* `NoteInv`: a note that names a file is sent after the file is whole,
  and a whole file is not written again.
- *Types of all commands.* A behaviour of `MCCommands` is that of one command
  while the variables of the others keep the values they began with.

Model-checked only: the liveness properties (`EveryRequestSettled`,
`EverySubscriberTold`, `DroppedIsAnswered`, `DeadBridgeReplaced`,
`BridgesEndWithCodex`, `SelfTestEnds`, `SpawnReports`), because fairness and
ENABLED are beyond the proof system. For all but `SelfTestEnds` a theorem says
that what they wait for is not lost on the way: `RequestsKept`,
`SubscribersKept`, `NoRequestDropped`, `DeadNotForgotten`, `NobodyServesGhosts`,
`NothingLostOnTheWay`. Every safety property of a passing run is a theorem.

## Not modelled

A bridge that shuts down notes nothing to the senders it leaves: `RequestLedger`
says so (`GoDown`). The note README.md:88 promises to a request that gets no
turn is the expiry's, which only a running bridge performs. Not modelled are the
wording of messages, `ping` and `cxpeer status`, the frame syntax, the content
of hook payloads; wall-clock time (a step of the clock appears as an early
expiry under `TtlCoversQueue = FALSE`); disks that are full when the outbox or a
state file is written; a watched process whose pid is recycled while a bridge
watches it.

Of the commands: `spawn` of claude, whose `_wait_settled` only looks at a screen,
and `spawn` without `--wait`, which ends at `new-session`; the checks of `doctor`
that print a version, a directory or a variable; `check_trust`, which takes any
trusted entry for ours without looking at its hash; two installs at a time; where
transcripts lie and how the meter is printed. `demo/` and `scripts/` show and
record the program and are no part of it.

## Plan

What is left, in the order of what matters most:

1. The pid of Codex as state in `Lifecycle`, with its reuse; the frame lost when
a successor meets a cleanup; the note that says "undeliverable" of a text Codex
has (`Hangs`, `TimesOut` of `Bridge`). 2. Two installs at a time; `spawn` of
claude.
