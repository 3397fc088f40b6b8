------------------------------ MODULE Registry ------------------------------
(***************************************************************************)
(* The peer registry of cxpeer/registry.py: the record and key files by    *)
(* which bridges are found, one pair in the directory of every Claude Code *)
(* account.  A bridge's main thread registers and deregisters, the threads *)
(* of its turn hooks rewrite the status, and senders (a bridge's on_relay, *)
(* "cxpeer send" without a bridge) look a peer up and connect to it, all   *)
(* at the same time and without a lock between processes.  An action is    *)
(* one file operation, one call of ps or one connection.                   *)
(*                                                                         *)
(* Files are named after the pid, whose start time (procStart) tells its   *)
(* owners apart: a record or key is here the bridge that has written it.   *)
(***************************************************************************)
EXTENDS Naturals, FiniteSets, Sequences, FiniteSetsExt

CONSTANTS
    Accounts,   \* how many registries there are, in the order of sessions_dirs
    Flaky,      \* those whose files sometimes cannot be written or removed
    Bridges,    \* bridge processes, over all time
    Pid,        \* the pid of each; the system uses the pid of a dead one again
    Name,       \* the peer name of each: a thread's next bridge has the same,
                \* and nothing keeps others from having it
    Ref,        \* its short id, six digits of a hash of its socket's path
    Senders,    \* processes that look a peer up and send to it
    Wanted,     \* the name or ref each of them is given
    None        \* no file

Dirs == 1..Accounts
Pids == {Pid[b] : b \in Bridges}
Statuses == {"idle", "busy"}

ASSUME RegistryAssumption ==
    /\ Accounts \in Nat \ {0} /\ Flaky \subseteq Dirs
    /\ Pids \subseteq Nat
    /\ None \notin Bridges /\ None \notin [owner : Bridges, status : Statuses]

VARIABLES
    record,   \* per account and pid: the record's owner and status, or None
    key,      \* per account and pid: the bridge whose token the key file holds
    phase,    \* what the main thread of each bridge is doing
    at,       \* the file it is at: an account and "record" or "key"
    status,   \* the status each bridge has itself
    setter,   \* the thread of each bridge that sets each status
    sender,   \* where each sender is and what it has read; history: the bridges
              \* that have served since, and that have run while it listed
    raced     \* history: bridges that set a status while they deregistered

vars == <<record, key, phase, at, status, setter, sender, raced>>

NotSetting == [step |-> "none", dir |-> 1, was |-> None]
NotSending == [step |-> "new", dir |-> 1, names |-> {}, socks |-> {}, was |-> None,
               alive |-> <<>>, peer |-> None, token |-> None,
               steady |-> {}, ran |-> {}]
FirstFile  == [dir |-> 1, file |-> "record"]

Init ==
    /\ record = [d \in Dirs |-> [p \in Pids |-> None]]
    /\ key    = [d \in Dirs |-> [p \in Pids |-> None]]
    /\ phase  = [b \in Bridges |-> "unborn"]
    /\ at     = [b \in Bridges |-> FirstFile]
    /\ status = [b \in Bridges |-> "idle"]
    /\ setter = [b \in Bridges |-> [s \in Statuses |-> NotSetting]]
    /\ sender = [x \in Senders |-> NotSending]
    /\ raced  = {}

\* The socket is there from before register until after deregister.
Running(b) == phase[b] \in {"registering", "up", "deregistering"}
Setting(b) == \E s \in Statuses : setter[b][s].step # "none"

-----------------------------------------------------------------------------
(* The main thread.                                                        *)

\* Mutant: an account that fails is the last one tried.
NextFile_GivesUp(f, ok) == IF ~ok THEN [dir |-> Accounts + 1, file |-> "record"]
                           ELSE IF f.file = "record" THEN [f EXCEPT !.file = "key"]
                           ELSE [dir |-> f.dir + 1, file |-> "record"]

NextFile(f, ok) == IF f.file = "record" /\ ok THEN [f EXCEPT !.file = "key"]
                   ELSE [dir |-> f.dir + 1, file |-> "record"]

\* The outcomes of a file operation in account d: OSError is caught.
Outcomes(d) == IF d \in Flaky THEN BOOLEAN ELSE {TRUE}

\* A sender that is listing has b among the bridges that ran meanwhile.
Meeting(b) == [x \in Senders |-> IF sender[x].step \in {"glob", "read", "ps"}
                                 THEN [sender[x] EXCEPT !.ran = @ \cup {b}]
                                 ELSE sender[x]]

Start(b) ==
    /\ phase[b] = "unborn"
    /\ \A c \in Bridges : Pid[c] = Pid[b] => ~Running(c)
    /\ phase' = [phase EXCEPT ![b] = "registering"]
    /\ sender' = Meeting(b)
    /\ UNCHANGED <<record, key, at, status, setter, raced>>

\* One file of the account at hand, and on to the next.
PutFile(b, ok, rec, owner) ==
    /\ record' = IF ok /\ at[b].file = "record"
                 THEN [record EXCEPT ![at[b].dir][Pid[b]] = rec] ELSE record
    /\ key' = IF ok /\ at[b].file = "key"
              THEN [key EXCEPT ![at[b].dir][Pid[b]] = owner] ELSE key
    /\ at' = [at EXCEPT ![b] = NextFile(@, ok)]
    /\ UNCHANGED <<phase, status, setter, sender, raced>>

\* register: the record, then the key; an account that fails is skipped.
Register(b) ==
    /\ phase[b] = "registering" /\ at[b].dir \in Dirs
    /\ \E ok \in Outcomes(at[b].dir) : PutFile(b, ok, [owner |-> b, status |-> "idle"], b)

Serve(b) ==
    /\ phase[b] = "registering" /\ at[b].dir > Accounts
    /\ phase' = [phase EXCEPT ![b] = "up"]
    /\ UNCHANGED <<record, key, at, status, setter, sender, raced>>

\* A sender's lookup is steady on a bridge that serves from its first step on.
Unsteady(b) == [x \in Senders |-> [sender[x] EXCEPT !.steady = @ \ {b}]]

Leave(b) ==
    /\ phase[b] = "up"
    /\ phase' = [phase EXCEPT ![b] = "deregistering"]
    /\ at' = [at EXCEPT ![b] = FirstFile]
    /\ sender' = Unsteady(b)
    /\ raced' = IF Setting(b) THEN raced \cup {b} ELSE raced
    /\ UNCHANGED <<record, key, status, setter>>

\* deregister: likewise.
Deregister(b) ==
    /\ phase[b] = "deregistering" /\ at[b].dir \in Dirs
    /\ \E ok \in Outcomes(at[b].dir) : PutFile(b, ok, None, None)

\* The process ends, and its threads with it wherever they are.
End(b, how) ==
    /\ phase' = [phase EXCEPT ![b] = how]
    /\ at' = [at EXCEPT ![b] = FirstFile]
    /\ status' = [status EXCEPT ![b] = "idle"]
    /\ setter' = [setter EXCEPT ![b] = [s \in Statuses |-> NotSetting]]
    /\ sender' = Unsteady(b)
    /\ UNCHANGED <<record, key, raced>>

Exit(b)  == phase[b] = "deregistering" /\ at[b].dir > Accounts /\ End(b, "gone")
Crash(b) == Running(b) /\ End(b, "crashed")

-----------------------------------------------------------------------------
(* The threads that set a status: on_turn_started, on_turn_ended.          *)

\* Mutant: without the bridge's lock.
BeginStatus_Unlocked(b, s) ==
    /\ phase[b] \in {"up", "deregistering"} /\ setter[b][s] = NotSetting
    /\ status' = [status EXCEPT ![b] = s]
    /\ setter' = [setter EXCEPT ![b][s].step = "read"]
    /\ raced' = IF phase[b] = "up" THEN raced ELSE raced \cup {b}
    /\ UNCHANGED <<record, key, phase, at, sender>>

\* _set_status, under the bridge's lock until the last account is done.
BeginStatus(b, s) ==
    /\ phase[b] \in {"up", "deregistering"} /\ ~Setting(b)
    /\ status' = [status EXCEPT ![b] = s]
    /\ setter' = [setter EXCEPT ![b][s].step = "read"]
    /\ raced' = IF phase[b] = "up" THEN raced ELSE raced \cup {b}
    /\ UNCHANGED <<record, key, phase, at, sender>>

\* Mutant: one account too many.
NextAccount_Past(t) == IF t.dir > Accounts THEN NotSetting
                       ELSE [step |-> "read", dir |-> t.dir + 1, was |-> None]

NextAccount(t) == IF t.dir = Accounts THEN NotSetting
                  ELSE [step |-> "read", dir |-> t.dir + 1, was |-> None]

\* Mutant: the record is written in place, so that opening it empties it.
ReadStatus_Truncates(b, s) ==
    /\ setter[b][s].step = "read"
    /\ LET rec == record[setter[b][s].dir][Pid[b]] IN
       /\ setter' = [setter EXCEPT ![b][s] =
                       IF rec = None THEN NextAccount(@)
                       ELSE [@ EXCEPT !.step = "write", !.was = rec]]
       /\ record' = [record EXCEPT ![setter[b][s].dir][Pid[b]] = None]
    /\ UNCHANGED <<key, phase, at, status, sender, raced>>

\* path.exists() and _read_json.
ReadStatus(b, s) ==
    /\ setter[b][s].step = "read"
    /\ LET rec == record[setter[b][s].dir][Pid[b]] IN
       setter' = [setter EXCEPT ![b][s] =
                    IF rec = None THEN NextAccount(@)
                    ELSE [@ EXCEPT !.step = "write", !.was = rec]]
    /\ UNCHANGED <<record, key, phase, at, status, sender, raced>>

\* _atomic_write of what was read, whether or not it is still there.
WriteStatus(b, s) ==
    /\ setter[b][s].step = "write"
    /\ \E ok \in Outcomes(setter[b][s].dir) :
          record' = IF ok THEN [record EXCEPT ![setter[b][s].dir][Pid[b]] =
                                  [setter[b][s].was EXCEPT !.status = s]]
                          ELSE record
    /\ setter' = [setter EXCEPT ![b][s] = NextAccount(@)]
    /\ UNCHANGED <<key, phase, at, status, sender, raced>>

-----------------------------------------------------------------------------
(* A sender: list_peers, resolve, token_for, send_frames.                  *)

SenderAt(x, from, new) == sender[x].step = from /\ sender' = [sender EXCEPT ![x] = new]
Ended(x, outcome) == [NotSending EXCEPT !.step = outcome, !.steady = sender[x].steady,
                              !.ran = sender[x].ran, !.token = sender[x].token]
OnlySender == UNCHANGED <<record, key, phase, at, status, setter, raced>>

Look(x) ==
    /\ SenderAt(x, "new", [sender[x] EXCEPT !.step = "glob",
                             !.steady = {b \in Bridges : phase[b] = "up"},
                             !.ran = {b \in Bridges : Running(b)}])
    /\ OnlySender

\* d.glob("*.json")
Glob(x) ==
    /\ SenderAt(x, "glob", [sender[x] EXCEPT !.step = "read",
                  !.names = {p \in Pids : record[sender[x].dir][p] # None}])
    /\ OnlySender

\* The next record in order; one that has gone, or whose socket was listed
\* from an earlier account, is passed over.
Read(x) ==
    /\ sender[x].names # {}
    /\ LET p == Min(sender[x].names)
           rec == record[sender[x].dir][p]
           rest == [sender[x] EXCEPT !.names = @ \ {p}]
       IN SenderAt(x, "read", IF rec = None \/ p \in sender[x].socks THEN rest
                              ELSE [rest EXCEPT !.step = "ps", !.was = rec.owner,
                                                !.socks = @ \cup {p}])
    /\ OnlySender

\* ps: the peer is alive if the pid's process is the one that wrote the record.
Ps(x) ==
    /\ SenderAt(x, "ps", [sender[x] EXCEPT !.step = "read", !.was = None,
                            !.alive = IF Running(sender[x].was)
                                      THEN Append(@, sender[x].was) ELSE @])
    /\ OnlySender

\* The last account is listed: resolve to the first by name, else by ref.
Matches(peers, want) ==
    LET named == {i \in DOMAIN peers : Name[peers[i]] = want}
    IN  IF named # {} THEN named ELSE {i \in DOMAIN peers : Ref[peers[i]] = want}

Resolve(x) ==
    /\ sender[x].names = {}
    /\ LET found == Matches(sender[x].alive, Wanted[x])
       IN SenderAt(x, "read",
            IF sender[x].dir < Accounts
            THEN [sender[x] EXCEPT !.step = "glob", !.dir = @ + 1]
            ELSE IF found = {} THEN Ended(x, "no such peer")
            ELSE [sender[x] EXCEPT !.step = "key", !.dir = 1,
                                   !.peer = sender[x].alive[Min(found)]])
    /\ OnlySender

\* token_for: the first account with a key file for this socket.
Key(x) ==
    /\ LET token == key[sender[x].dir][Pid[sender[x].peer]]
       IN SenderAt(x, "key",
            IF token # None
            THEN [sender[x] EXCEPT !.step = "connect", !.token = token]
            ELSE IF sender[x].dir < Accounts THEN [sender[x] EXCEPT !.dir = @ + 1]
            ELSE Ended(x, "no key"))
    /\ OnlySender

\* Whoever listens at the socket of the pid takes the frame if the token is
\* its own.
Connect(x) ==
    /\ LET there == {b \in Bridges : Pid[b] = Pid[sender[x].peer] /\ Running(b)}
       IN SenderAt(x, "connect",
            IF there = {} THEN Ended(x, "nobody there")
            ELSE IF sender[x].token \in there THEN Ended(x, "sent")
            ELSE Ended(x, "bad token"))
    /\ OnlySender

-----------------------------------------------------------------------------
Next ==
    \/ \E b \in Bridges :
          \/ Start(b) \/ Register(b) \/ Serve(b) \/ Leave(b) \/ Deregister(b)
          \/ Exit(b) \/ Crash(b)
          \/ \E s \in Statuses : BeginStatus(b, s) \/ ReadStatus(b, s) \/ WriteStatus(b, s)
    \/ \E x \in Senders : Look(x) \/ Glob(x) \/ Read(x) \/ Ps(x)
                          \/ Resolve(x) \/ Key(x) \/ Connect(x)

Spec == Init /\ [][Next]_vars

-----------------------------------------------------------------------------
Records  == [owner : Bridges, status : Statuses]
OrNone(S) == S \cup {None}
Outcome  == {"no such peer", "no key", "nobody there", "bad token", "sent"}

\* Every variable holds a value the program can give it: no thread runs past
\* the last account, or after its process.
TypeOK ==
    /\ record \in [Dirs -> [Pids -> OrNone(Records)]]
    /\ key \in [Dirs -> [Pids -> OrNone(Bridges)]]
    /\ phase \in [Bridges -> {"unborn", "registering", "up", "deregistering",
                              "gone", "crashed"}]
    /\ at \in [Bridges -> [dir : 1..(Accounts + 1), file : {"record", "key"}]]
    /\ status \in [Bridges -> Statuses]
    /\ setter \in [Bridges -> [Statuses ->
                     [step : {"none", "read", "write"}, dir : Dirs, was : OrNone(Records)]]]
    /\ \A x \in Senders :
          /\ sender[x].step \in {"new", "glob", "read", "ps", "key", "connect"} \cup Outcome
          /\ sender[x].dir \in Dirs
    /\ \A b \in Bridges, s \in Statuses :
          setter[b][s].step # "none" => setter[b][s].dir \in Dirs /\ Running(b)

\* While a bridge serves and no status is being set, its record shows its
\* status, and its key its token, in every account that can be written,
\* whatever failed in the others and however its turns' threads interleaved.
RecordShowsStatus ==
    \A b \in Bridges, d \in Dirs \ Flaky :
        phase[b] = "up" /\ ~Setting(b) =>
            /\ record[d][Pid[b]] = [owner |-> b, status |-> status[b]]
            /\ key[d][Pid[b]] = b

\* registry.deregister: "Remove the record and key from every account's
\* registry": after a clean exit no key is left where files can be removed,
\* and a record only if a turn's thread was rewriting it at the same time.
NothingLeftBehind ==
    \A b \in Bridges, d \in Dirs \ Flaky :
        phase[b] = "gone" =>
            /\ key[d][Pid[b]] # b
            /\ record[d][Pid[b]] # None /\ record[d][Pid[b]].owner = b => b \in raced

\* An earlier owner's file is still where b could not write its own.
Masked(b) == \E d \in Dirs : \/ key[d][Pid[b]] \notin {b, None}
                             \/ /\ record[d][Pid[b]] # None
                                /\ record[d][Pid[b]].owner # b

\* Another bridge that ran while x listed, and to which what x wants applies
\* as well: resolve takes whichever it comes upon first.
Rivalled(b, x) ==
    \E c \in sender[x].ran \ {b} : Wanted[x] \in {Name[c], Ref[c]}

\* A bridge that serves all along is found under its name or ref, and reached
\* with a token it accepts, whatever is written meanwhile, unless it is masked,
\* or another of that name or ref runs at the time; bridges of that name that
\* have ended before, with their pids and files, do not stand in its way.
LivePeerReached ==
    \A x \in Senders :
        sender[x].step \in Outcome =>
            \A b \in sender[x].steady :
                Wanted[x] \in {Name[b], Ref[b]} /\ ~Masked(b) /\ ~Rivalled(b, x) =>
                    sender[x].step = "sent" /\ sender[x].token = b
=============================================================================
