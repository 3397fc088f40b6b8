------------------------------- MODULE Bridge -------------------------------
(***************************************************************************)
(* One bridge process of cxpeer (cxpeer/bridge.py) and the Codex session   *)
(* it stands in front of.                                                  *)
(*                                                                         *)
(* The main thread accepts connections, expires old requests and cleans up *)
(* at exit.  Every connection gets a thread of its own: one per peer       *)
(* message (on_user), one per notify_when_idle (on_control) and two per    *)
(* Codex turn (on_turn_started, on_turn_ended).  The threads share the     *)
(* tables below behind one lock, which no handler holds from its start to  *)
(* its end: an action here is one critical section, or one send or one     *)
(* `codex queue` made between two of them.                                 *)
(*                                                                         *)
(* Accepting a connection is not a step: a handler's first critical        *)
(* section may come at any later time, so a thread accepted just before    *)
(* the loop ends may still run during cleanup.  Death of the process       *)
(* (main = "down") kills every thread where it stands (they are daemons).  *)
(***************************************************************************)
EXTENDS Naturals, FiniteSets

CONSTANTS
    Msgs,          \* peer messages, named by their msg_id
    Subs,          \* notify_when_idle requests
    SubSock,       \* the reply socket of each of them
    NoReply,       \* messages whose "from" is no usable reply address
    Matching,      \* the messages whose msg_id begins with the short id that
                   \* queue_text puts into each message's text
    Whole,         \* messages whose msg_id is no longer than a short id
    None,          \* no request; also the prompt of a turn a human typed
    MaxTurns,      \* bound: how many turns Codex runs
    Endings,       \* which ways a turn may end, of EndingKinds
    QueueOutcomes, \* which ways a `codex queue` call may go
    HooksInOrder,  \* a hook's frame is handled before the next hook fires
    HooksMayLose,  \* a hook may fail to deliver its frame (hooks.run swallows)
    TtlCoversQueue,\* PENDING_TTL_SECONDS > CODEX_QUEUE_TIMEOUT_SECONDS
    MayStop,       \* shutdown frame, SIGTERM or death of the watched pid
    MayCrash       \* SIGKILL or a machine reset

Turns  == 1..MaxTurns
Main   == 0                       \* the main thread, as a firer of notices
Firers == {Main} \cup Turns \cup Subs
EndingKinds == {"answer", "empty", "interrupted"}

ASSUME DataAssumption ==
    /\ MaxTurns \in Nat
    /\ NoReply \subseteq Msgs /\ Whole \subseteq Msgs
    /\ Matching \in [Msgs -> SUBSET Msgs] /\ \A m \in Msgs : m \in Matching[m]
    /\ None \notin Msgs
    /\ Subs \cap Nat = {}
    /\ Endings \subseteq EndingKinds
    /\ QueueOutcomes \subseteq {"queued", "refused", "late", "raised"}
    /\ {HooksInOrder, HooksMayLose, TtlCoversQueue, MayStop, MayCrash} \subseteq BOOLEAN

VARIABLES
    pending,       \* Bridge.pending, as the set of its keys
    active,        \* Bridge.active
    status,        \* Bridge.status
    subscriptions, \* Bridge.idle_subscriptions, at most one per socket
    user,          \* where the on_user thread of each message is
    control,       \* where the on_control thread of each subscription is
    started,       \* where the on_turn_started thread of each turn is
    ended,         \* where the on_turn_ended thread of each turn is
    ending,        \* what the Stop or Interrupt hook reported of each turn
    popped,        \* on_turn_ended's local `request`
    taken,         \* _fire_idle_notices' local `subscribers`, per thread
    main,          \* where the main thread is
    stale,         \* _expire_pending's local `stale`, what is left of it
    codexQ,        \* external: texts queued into Codex, not yet submitted
    turn,          \* external: the number of the last turn Codex began
    prompt,        \* external: the message a turn was submitted with, or None
    replies,       \* history: what was sent back about each message
    notices,       \* history: the idle notices that were sent
    owed           \* history: what was pending when a session subscribed

table   == <<pending, active, status, subscriptions>>
threads == <<user, control, started, ended, ending, popped, taken>>
codex   == <<codexQ, turn, prompt>>
loop    == <<main, stale>>
history == <<replies, notices, owed>>
vars    == <<table, threads, codex, loop, history>>

Init ==
    /\ pending = {} /\ active = None /\ status = "idle"
    /\ subscriptions = {}
    /\ user    = [m \in Msgs |-> "unsent"]
    /\ control = [c \in Subs |-> "unsent"]
    /\ started = [t \in Turns |-> "none"]
    /\ ended   = [t \in Turns |-> "none"]
    /\ ending  = [t \in Turns |-> "none"]
    /\ popped  = [t \in Turns |-> None]
    /\ taken   = [k \in Firers |-> {}]
    /\ main = "loop" /\ stale = {}
    /\ codexQ = {} /\ turn = 0 /\ prompt = [t \in Turns |-> None]
    /\ replies = {} /\ notices = {} /\ owed = [c \in Subs |-> {}]

Alive == main # "down"

\* A message to m's sender; without a reply address nothing is sent.
Reply(m, kind, t) ==
    replies' = IF m \in NoReply THEN replies
               ELSE replies \cup {[msg |-> m, kind |-> kind, turn |-> t]}

\* The test on_control, _expire_pending and (in part) on_turn_ended make.
IdleNow == status = "idle" /\ active = None /\ pending = {}

-----------------------------------------------------------------------------
(* _fire_idle_notices: copy and clear the table under the lock, then send. *)

\* Mutant: the list is copied, the table is not cleared.
TakeSubscribers_Keeps(k) ==
    /\ taken' = [taken EXCEPT ![k] = subscriptions]
    /\ UNCHANGED <<table, user, started, ending, popped, stale, codex, history>>

TakeSubscribers(k) ==
    /\ taken' = [taken EXCEPT ![k] = subscriptions]
    /\ subscriptions' = {}
    /\ UNCHANGED <<pending, active, status, user, started, ending,
                   popped, stale, codex, history>>

Tell(k, c) ==
    /\ Alive
    /\ c \in taken[k]
    /\ taken' = [taken EXCEPT ![k] = @ \ {c}]
    /\ notices' = notices \cup {[sub |-> c, by |-> k,
                        state |-> IF k = Main /\ main = "farewell"
                                  THEN "exited" ELSE "idle"]}
    /\ UNCHANGED <<table, user, control, started, ended, ending, popped,
                   codex, loop, replies, owed>>

-----------------------------------------------------------------------------
(* on_user: register, run `codex queue`, and on an error take it back.     *)

Register(m) ==
    /\ Alive /\ user[m] = "unsent"
    /\ user' = [user EXCEPT ![m] = "queueing"]
    /\ pending' = pending \cup {m}
    /\ UNCHANGED <<active, status, subscriptions, control, started, ended,
                   ending, popped, taken, codex, loop, history>>

\* `codex queue` makes progress; `enqueued` says whether the text got in.
QueueStep(m, from, to, enqueued) ==
    /\ Alive /\ user[m] = from
    /\ user' = [user EXCEPT ![m] = to]
    /\ codexQ' = IF enqueued THEN codexQ \cup {m} ELSE codexQ
    /\ UNCHANGED <<table, control, started, ended, ending, popped, taken,
                   turn, prompt, loop, history>>

Queued(m)  == "queued" \in QueueOutcomes /\ QueueStep(m, "queueing", "done", TRUE)
\* A non-zero exit status, no codex binary, or a time-out before the text got in.
Refused(m) == "refused" \in QueueOutcomes /\ QueueStep(m, "queueing", "failed", FALSE)
\* The text is in, but the command is still running when the 30 s are over.
Hangs(m)   == "late" \in QueueOutcomes /\ QueueStep(m, "queueing", "hung", TRUE)
TimesOut(m) == QueueStep(m, "hung", "failed", FALSE)
\* Any other OSError leaves on_user and ends the connection's thread.
Raises(m)  == "raised" \in QueueOutcomes /\ QueueStep(m, "queueing", "aborted", FALSE)

TakeBack(m) ==
    /\ Alive /\ user[m] = "failed"
    /\ user' = [user EXCEPT ![m] = "noting"]
    /\ pending' = pending \ {m}
    /\ UNCHANGED <<active, status, subscriptions, control, started,
                   ended, ending, popped, taken, codex, loop, history>>

NoteUndeliverable(m) ==
    /\ Alive /\ user[m] = "noting"
    /\ user' = [user EXCEPT ![m] = "undelivered"]
    /\ Reply(m, "undeliverable", 0)
    /\ UNCHANGED <<table, control, started, ended, ending, popped, taken,
                   codex, loop, notices, owed>>

-----------------------------------------------------------------------------
(* on_control: subscribe (the last one of a socket counts), maybe fire.    *)

\* Mutant: a subscriber is only ever told at the end of a turn.
Subscribe_Waits(c) ==
    /\ Alive /\ control[c] = "unsent"
    /\ subscriptions' = {d \in subscriptions : SubSock[d] # SubSock[c]} \cup {c}
    /\ control' = [control EXCEPT ![c] = "done"]
    /\ owed' = [owed EXCEPT ![c] = pending]
    /\ UNCHANGED <<pending, active, status, user, started, ended,
                   ending, popped, taken, codex, loop, replies, notices>>

Subscribe(c) ==
    /\ Alive /\ control[c] = "unsent"
    /\ subscriptions' = {d \in subscriptions : SubSock[d] # SubSock[c]} \cup {c}
    /\ control' = [control EXCEPT ![c] = IF IdleNow THEN "firing" ELSE "done"]
    /\ owed' = [owed EXCEPT ![c] = pending]
    /\ UNCHANGED <<pending, active, status, user, started, ended,
                   ending, popped, taken, codex, loop, replies, notices>>

ControlFires(c) ==
    /\ Alive /\ control[c] = "firing"
    /\ control' = [control EXCEPT ![c] = "done"]
    /\ TakeSubscribers(c)
    /\ UNCHANGED <<ended, main>>

-----------------------------------------------------------------------------
(* Codex and its hooks.  A turn begins with a queued text or a human's     *)
(* prompt, and the UserPromptSubmit hook connects to the bridge; it ends   *)
(* with Stop or Interrupt.  The hook does not wait for an answer.          *)

Sent == {"sent"} \cup (IF HooksMayLose THEN {"lost"} ELSE {})

\* on_turn_ended has finished with the shared state.
Settled(t) == ended[t] \in {"lost", "firing", "telling", "done"}

BeginTurn(p) ==
    /\ main = "loop" /\ turn < MaxTurns
    /\ turn > 0 => ended[turn] # "none"
    /\ HooksInOrder /\ turn > 0 => Settled(turn)
    /\ p \in codexQ \cup {None}
    /\ turn' = turn + 1
    /\ prompt' = [prompt EXCEPT ![turn + 1] = p]
    /\ codexQ' = codexQ \ {p}
    /\ \E s \in Sent : started' = [started EXCEPT ![turn + 1] = s]
    /\ UNCHANGED <<table, user, control, ended, ending, popped, taken, loop,
                   history>>

EndTurn(t) ==
    /\ main = "loop" /\ t = turn /\ ended[t] = "none"
    /\ HooksInOrder => started[t] \in {"done", "lost"}
    /\ \E s \in Sent : ended' = [ended EXCEPT ![t] = s]
    /\ \E e \in Endings : ending' = [ending EXCEPT ![t] = e]
    /\ UNCHANGED <<table, user, control, started, popped, taken, codex, loop,
                   history>>

-----------------------------------------------------------------------------
(* on_turn_started: two critical sections.                                 *)

SetBusy(t) ==
    /\ Alive /\ started[t] = "sent"
    /\ started' = [started EXCEPT ![t] = "busied"]
    /\ status' = "busy"
    /\ UNCHANGED <<pending, active, subscriptions, user, control, ended,
                   ending, popped, taken, codex, loop, history>>

\* Mutant: the only pending request is taken to be the one, whatever the marker.
PendingIdFor_Guesses(p) ==
    IF \E k \in pending : pending = {k}
    THEN CHOOSE k \in pending : pending = {k}
    ELSE None

\* _pending_id_for: the request whose msg_id is the marker, or else the one
\* pending request that the marker is a prefix of.
PendingIdFor(p) ==
    LET matches == {k \in pending : p \in Msgs /\ k \in Matching[p]}
        exact == {k \in matches \cap Whole : p \in Matching[k]}
    IN  IF exact # {} THEN CHOOSE k \in exact : TRUE
        ELSE IF \E k \in matches : matches = {k}
        THEN CHOOSE k \in matches : matches = {k}
        ELSE None

SetActive(t) ==
    /\ Alive /\ started[t] = "busied"
    /\ started' = [started EXCEPT ![t] = "done"]
    /\ active' = PendingIdFor(prompt[t])
    /\ UNCHANGED <<pending, status, subscriptions, user, control, ended,
                   ending, popped, taken, codex, loop, history>>

-----------------------------------------------------------------------------
(* on_turn_ended: status, then pop, then count, then fire, then answer.    *)

\* Mutant: the word of an exit notice is written into the status.
SetIdle_Exited(t) ==
    /\ Alive /\ ended[t] = "sent"
    /\ ended' = [ended EXCEPT ![t] = "idled"]
    /\ status' = "exited"
    /\ UNCHANGED <<pending, active, subscriptions, user, control,
                   started, ending, popped, taken, codex, loop, history>>

SetIdle(t) ==
    /\ Alive /\ ended[t] = "sent"
    /\ ended' = [ended EXCEPT ![t] = "idled"]
    /\ status' = "idle"
    /\ UNCHANGED <<pending, active, subscriptions, user, control,
                   started, ending, popped, taken, codex, loop, history>>

\* Mutant: the active request is not reset.
PopActive_StaysActive(t) ==
    /\ Alive /\ ended[t] = "idled"
    /\ ended' = [ended EXCEPT ![t] = "popped"]
    /\ popped' = [popped EXCEPT ![t] = IF active \in pending THEN active ELSE None]
    /\ pending' = pending \ {active}
    /\ UNCHANGED <<active, status, subscriptions, user, control, started,
                   ending, taken, codex, loop, history>>

\* Mutant: the request is looked up, not popped.
PopActive_Peeks(t) ==
    /\ Alive /\ ended[t] = "idled"
    /\ ended' = [ended EXCEPT ![t] = "popped"]
    /\ popped' = [popped EXCEPT ![t] = IF active \in pending THEN active ELSE None]
    /\ active' = None
    /\ UNCHANGED <<pending, status, subscriptions, user, control, started,
                   ending, taken, codex, loop, history>>

PopActive(t) ==
    /\ Alive /\ ended[t] = "idled"
    /\ ended' = [ended EXCEPT ![t] = "popped"]
    /\ popped' = [popped EXCEPT ![t] = IF active \in pending THEN active ELSE None]
    /\ pending' = pending \ {active}
    /\ active' = None
    /\ UNCHANGED <<status, subscriptions, user, control, started, ending,
                   taken, codex, loop, history>>

CountPending(t) ==
    /\ Alive /\ ended[t] = "popped"
    /\ ended' = [ended EXCEPT ![t] = IF pending = {} THEN "firing" ELSE "telling"]
    /\ UNCHANGED <<table, user, control, started, ending, popped, taken, codex,
                   loop, history>>

TurnFires(t) ==
    /\ Alive /\ ended[t] = "firing"
    /\ ended' = [ended EXCEPT ![t] = "telling"]
    /\ TakeSubscribers(t)
    /\ UNCHANGED <<control, main>>

Answer(t) ==
    /\ Alive /\ ended[t] = "telling" /\ taken[t] = {}
    /\ ended' = [ended EXCEPT ![t] = "done"]
    /\ popped' = [popped EXCEPT ![t] = None]
    /\ IF popped[t] = None THEN replies' = replies
       ELSE Reply(popped[t], ending[t], t)
    /\ UNCHANGED <<table, user, control, started, ending, taken, codex, loop,
                   notices, owed>>

-----------------------------------------------------------------------------
(* The main thread: _expire_pending every few seconds, cleanup at the end. *)

\* Mutant: the entries stay in the table.
Expire_Keeps(S) ==
    /\ main = "loop" /\ S # {}
    /\ S \subseteq pending \ {active}
    /\ TtlCoversQueue => \A m \in S : user[m] \notin {"queueing", "hung", "failed"}
    /\ main' = "noting"
    /\ stale' = S
    /\ UNCHANGED <<table, threads, codex, history>>

\* Mutant: the active request is not spared.
Expire_Active(S) ==
    /\ main = "loop" /\ S # {}
    /\ S \subseteq pending
    /\ TtlCoversQueue => \A m \in S : user[m] \notin {"queueing", "hung", "failed"}
    /\ main' = "noting"
    /\ stale' = S
    /\ pending' = pending \ S
    /\ UNCHANGED <<active, status, subscriptions, threads, codex, history>>

\* The requests older than the TTL; the active one is spared.  Requests age
\* at any time, but not past a longer TTL while `codex queue` still runs.
Expire(S) ==
    /\ main = "loop" /\ S # {}
    /\ S \subseteq pending \ {active}
    /\ TtlCoversQueue => \A m \in S : user[m] \notin {"queueing", "hung", "failed"}
    /\ main' = "noting"
    /\ stale' = S
    /\ pending' = pending \ S
    /\ UNCHANGED <<active, status, subscriptions, threads, codex, history>>

\* Mutant: the expiry is logged only.
NoteUnanswered_Silent(m) ==
    /\ main = "noting" /\ m \in stale
    /\ stale' = stale \ {m}
    /\ UNCHANGED <<table, threads, codex, main, history>>

NoteUnanswered(m) ==
    /\ main = "noting" /\ m \in stale
    /\ stale' = stale \ {m}
    /\ Reply(m, "unanswered", 0)
    /\ UNCHANGED <<table, threads, codex, main, notices, owed>>

\* Mutant: an expiry that empties the table wakes nobody.
CheckDrained_Silent ==
    /\ main = "noting" /\ stale = {}
    /\ main' = "loop"
    /\ UNCHANGED <<table, threads, codex, stale, history>>

CheckDrained ==
    /\ main = "noting" /\ stale = {}
    /\ main' = IF IdleNow THEN "firing" ELSE "loop"
    /\ UNCHANGED <<table, threads, codex, stale, history>>

MainFires ==
    /\ main = "firing"
    /\ main' = "telling"
    /\ TakeSubscribers(Main)
    /\ UNCHANGED <<control, ended>>

BackToLoop ==
    /\ main = "telling" /\ taken[Main] = {}
    /\ main' = "loop"
    /\ UNCHANGED <<table, threads, codex, stale, history>>

LeaveLoop ==
    /\ MayStop /\ main = "loop"
    /\ main' = "cleanup"
    /\ UNCHANGED <<table, threads, codex, stale, history>>

CleanupFires ==
    /\ main = "cleanup"
    /\ main' = "farewell"
    /\ TakeSubscribers(Main)
    /\ UNCHANGED <<control, ended>>

\* The rest of cleanup touches no shared table; then the process exits.
Exit ==
    /\ main = "farewell" /\ taken[Main] = {}
    /\ main' = "down"
    /\ UNCHANGED <<table, threads, codex, stale, history>>

Crash ==
    /\ MayCrash /\ Alive
    /\ main' = "down"
    /\ UNCHANGED <<table, threads, codex, stale, history>>

-----------------------------------------------------------------------------
UserStep(m) == \/ Register(m) \/ Queued(m) \/ Refused(m) \/ Hangs(m)
               \/ TimesOut(m) \/ Raises(m) \/ TakeBack(m) \/ NoteUndeliverable(m)
ControlStep(c) == Subscribe(c) \/ ControlFires(c)
TurnStep(t) == \/ EndTurn(t) \/ SetBusy(t) \/ SetActive(t) \/ SetIdle(t)
               \/ PopActive(t) \/ CountPending(t) \/ TurnFires(t) \/ Answer(t)
MainStep == \/ \E S \in SUBSET Msgs : Expire(S)
            \/ \E m \in Msgs : NoteUnanswered(m)
            \/ CheckDrained \/ MainFires \/ BackToLoop
            \/ LeaveLoop \/ CleanupFires \/ Exit \/ Crash

Next == \/ \E m \in Msgs : UserStep(m)
        \/ \E c \in Subs : ControlStep(c)
        \/ \E t \in Turns : TurnStep(t)
        \/ \E p \in Msgs \cup {None} : BeginTurn(p)
        \/ \E k \in Firers, c \in Subs : Tell(k, c)
        \/ MainStep

Spec == Init /\ [][Next]_vars

(* Fairness: a started thread keeps running, `codex queue` returns or is   *)
(* killed by its time-out, Codex submits what is queued and ends its       *)
(* turns, and a request that stays pending grows older than the TTL.       *)
(* Nobody is obliged to send, to type, to stop or to crash.                *)
UserRuns(m) == /\ WF_vars(UserStep(m) /\ user[m] # "unsent")
ControlRuns(c) == WF_vars(ControlFires(c))
TurnRuns(t) == /\ WF_vars(EndTurn(t))
               /\ WF_vars(SetBusy(t) \/ SetActive(t))
               /\ WF_vars(TurnStep(t) /\ ended[t] # "none")
MainRuns == /\ WF_vars(CheckDrained \/ MainFires \/ BackToLoop)
            /\ WF_vars(CleanupFires \/ Exit)
            /\ \A m \in Msgs : /\ WF_vars(NoteUnanswered(m))
                               /\ SF_vars(\E S \in SUBSET Msgs : m \in S /\ Expire(S))
Fairness ==
    /\ \A m \in Msgs : UserRuns(m)
    /\ \A c \in Subs : ControlRuns(c)
    /\ \A t \in Turns : TurnRuns(t)
    /\ \A k \in Firers, c \in Subs : WF_vars(Tell(k, c))
    /\ WF_vars(\E m \in Msgs : BeginTurn(m))
    /\ MainRuns

FairSpec == Spec /\ Fairness
-----------------------------------------------------------------------------
(* What the bridge promises.                                               *)

UserStates    == {"unsent", "queueing", "hung", "failed", "noting", "done",
                  "undelivered", "aborted"}
StartedStates == {"none", "sent", "lost", "busied", "done"}
EndedStates   == {"none", "sent", "lost", "idled", "popped", "firing",
                  "telling", "done"}
MainStates    == {"loop", "noting", "firing", "telling", "cleanup", "farewell",
                  "down"}
ReplyKinds    == Endings \cup {"undeliverable", "unanswered"}

\* Every variable holds a value the program can give it.
TypeOK ==
    /\ pending \subseteq Msgs /\ active \in Msgs \cup {None}
    /\ status \in {"idle", "busy"} /\ subscriptions \subseteq Subs
    /\ user \in [Msgs -> UserStates]
    /\ control \in [Subs -> {"unsent", "firing", "done"}]
    /\ started \in [Turns -> StartedStates] /\ ended \in [Turns -> EndedStates]
    /\ ending \in [Turns -> Endings \cup {"none"}]
    /\ \A t \in Turns : ended[t] # "none" => ending[t] # "none"
    /\ popped \in [Turns -> Msgs \cup {None}]
    /\ taken \in [Firers -> SUBSET Subs]
    /\ main \in MainStates /\ stale \subseteq Msgs
    /\ codexQ \subseteq Msgs /\ turn \in 0..MaxTurns
    /\ prompt \in [Turns -> Msgs \cup {None}]
    /\ replies \subseteq [msg : Msgs, kind : ReplyKinds, turn : 0..MaxTurns]
    /\ notices \subseteq [sub : Subs, by : Firers, state : {"idle", "exited"}]
    /\ owed \in [Subs -> SUBSET Msgs]

\* A sender hears of its request at most once: never an answer and a note,
\* never two of either.  The turn's end, the expiry and the failed
\* `codex queue` race for the entry of the pending table.
AtMostOneOutcome == \A r, s \in replies : r.msg = s.msg => r = s

\* The same for answers alone, whatever goes wrong with queue and hooks:
\* the pop under the lock hands a request to one turn.
AtMostOneAnswer ==
    \A r, s \in replies : r.msg = s.msg /\ r.turn # 0 /\ s.turn # 0 => r = s

\* The active request is a pending one: neither expiry nor a failed queue
\* call takes the entry away from under a running turn.
ActiveIsPending == active # None => active \in pending

\* What is forwarded for a request is the final message of the very turn
\* that was submitted with it (on_turn_started pairs, on_turn_ended answers).
AnswerFromOwnTurn ==
    \A r \in replies : r.turn # 0 => prompt[r.turn] = r.msg

\* A subscription is one-shot: no two threads tell the same subscriber.
OneNoticePerSubscription ==
    \A n, o \in notices : n.sub = o.sub => n = o

\* No lost wake-up: when the peer is idle with nothing pending and somebody
\* is subscribed, a thread is on its way to fire the notices.
NoForgottenSubscriber ==
    Alive /\ IdleNow /\ subscriptions # {} =>
        \/ \E t \in Turns : ended[t] \in {"idled", "popped", "firing"}
        \/ \E c \in Subs : control[c] = "firing"
        \/ main \in {"noting", "firing", "cleanup"}

\* With the frames of the last turn handled, the status a session reads says
\* whether Codex is working, and the active request is that turn's.
StatusTracksTurn ==
    Alive /\ turn > 0 =>
        /\ ended[turn] = "none" /\ started[turn] = "done" =>
               status = "busy" /\ active \in {None, prompt[turn]}
        /\ ended[turn] \notin {"none", "sent", "idled"} =>
               status = "idle" /\ active = None

\* CHANGELOG 0.3.0: "Idle notices are held until every queued request has
\* been answered".  Whoever subscribes while requests are pending is not
\* taken off the table (except to be told of the exit) before they are gone.
HeldUntilAnswered ==
    [][\A c \in subscriptions \ subscriptions' :
          \/ main = "cleanup"
          \/ \E d \in subscriptions' \ subscriptions : SubSock[d] = SubSock[c]
          \/ owed[c] \cap pending = {}]_vars

\* README: "Prompts typed by a human carry no marker and are never
\* forwarded": no answer comes from a turn a human began.
HumanTurnsStayPrivate ==
    \A r \in replies : r.turn # 0 => prompt[r.turn] # None

\* Every request with a reply address is answered or its sender told why not.
EveryRequestSettled ==
    \A m \in Msgs \ NoReply :
        user[m] # "unsent" ~> \E r \in replies : r.msg = m

\* Every subscriber is told, unless a later subscription replaces it at its
\* socket (idle_subscriptions is keyed by reply socket).
EverySubscriberTold ==
    \A c \in Subs : c \in subscriptions ~>
        \/ \E n \in notices : n.sub = c
        \/ \E d \in subscriptions \ {c} : SubSock[d] = SubSock[c]

-----------------------------------------------------------------------------
(* The bridge implements RequestLedger, as its senders see it.             *)

WorkedOn(m) == active = m \/ \E t \in Turns : popped[t] = m

LedgerState(m) ==
    LET said == {r \in replies : r.msg = m}
    IN  IF user[m] = "unsent" THEN "absent"
        ELSE IF said = {} THEN (IF WorkedOn(m) THEN "working" ELSE "open")
        ELSE IF \E r \in said : r.turn # 0 THEN "answered" ELSE "declined"

Ledger == INSTANCE RequestLedger
            WITH Requests <- Msgs \ NoReply,
                 request <- [m \in Msgs \ NoReply |-> LedgerState(m)],
                 up <- Alive

\* A request goes from open to worked on to answered, or from open to
\* declined, and nothing else ever happens to it.
ImplementsLedger == Ledger!Spec
=============================================================================
