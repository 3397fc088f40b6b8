---------------------------- MODULE BridgeProofs ----------------------------
(* Theorems about Bridge, for every value of its constants.                *)
EXTENDS Bridge, TLAPS

(***************************************************************************)
(* Type correctness.                                                       *)
(***************************************************************************)

\* Every value a step writes has its variable's type: TypeOK is inductive.
THEOREM TypeCorrect == Spec => []TypeOK
<1> USE DataAssumption DEF Main, Turns, Firers, EndingKinds, ReplyKinds,
        UserStates, StartedStates, EndedStates, MainStates
<1>1. Init => TypeOK
    BY DEF Init, TypeOK
<1>2. TypeOK /\ [Next]_vars => TypeOK'
  <2> SUFFICES ASSUME TypeOK, [Next]_vars PROVE TypeOK'
      OBVIOUS
  <2> USE DEF TypeOK, table, threads, codex, loop, history
  <2>1. ASSUME NEW m \in Msgs, UserStep(m) PROVE TypeOK'
    <3>1. CASE Register(m)
        BY <3>1 DEF Register
    <3>2. CASE Queued(m) \/ Refused(m) \/ Hangs(m) \/ TimesOut(m) \/ Raises(m)
        BY <3>2 DEF Queued, Refused, Hangs, TimesOut, Raises, QueueStep
    <3>3. CASE TakeBack(m)
        BY <3>3 DEF TakeBack
    <3>4. CASE NoteUndeliverable(m)
      <4>1. replies' \subseteq [msg : Msgs, kind : ReplyKinds, turn : 0..MaxTurns]
          BY <3>4 DEF NoteUndeliverable, Reply
      <4> QED
          BY <3>4, <4>1 DEF NoteUndeliverable
    <3> QED
        BY <2>1, <3>1, <3>2, <3>3, <3>4 DEF UserStep
  <2>2. ASSUME NEW c \in Subs, ControlStep(c) PROVE TypeOK'
    <3>1. CASE Subscribe(c)
        BY <3>1 DEF Subscribe
    <3>2. CASE ControlFires(c)
        BY <3>2 DEF ControlFires, TakeSubscribers
    <3> QED
        BY <2>2, <3>1, <3>2 DEF ControlStep
  <2>3. ASSUME NEW t \in Turns, TurnStep(t) PROVE TypeOK'
    <3>1. CASE EndTurn(t)
      <4>1. /\ ended' \in [Turns -> EndedStates]
            /\ ending' \in [Turns -> Endings \cup {"none"}]
          BY <3>1 DEF EndTurn, Sent
      <4>2. \A u \in Turns : ended'[u] # "none" => ending'[u] # "none"
        <5>1. /\ \A u \in Turns \ {t} : ended'[u] = ended[u] /\ ending'[u] = ending[u]
              /\ ending'[t] \in Endings
            BY <3>1 DEF EndTurn
        <5> QED
            BY <5>1
      <4> QED
          BY <3>1, <4>1, <4>2 DEF EndTurn
    <3>2. CASE SetBusy(t)
        BY <3>2 DEF SetBusy
    <3>8. CASE SetIdle(t)
        BY <3>8 DEF SetIdle
    <3>3. CASE SetActive(t)
      <4>1. PendingIdFor(prompt[t]) \in Msgs \cup {None}
          BY DEF PendingIdFor
      <4> QED
          BY <3>3, <4>1 DEF SetActive
    <3>4. CASE PopActive(t)
        BY <3>4 DEF PopActive
    <3>7. CASE CountPending(t)
        BY <3>7 DEF CountPending
    <3>5. CASE TurnFires(t)
        BY <3>5 DEF TurnFires, TakeSubscribers
    <3>6. CASE Answer(t)
      <4>1. popped[t] # None => popped[t] \in Msgs
          OBVIOUS
      <4>2. ending[t] \in Endings
          BY <3>6 DEF Answer
      <4> QED
          BY <3>6, <4>1, <4>2 DEF Answer, Reply
    <3> QED
        BY <2>3, <3>1, <3>2, <3>3, <3>4, <3>5, <3>6, <3>7, <3>8 DEF TurnStep
  <2>4. ASSUME NEW p \in Msgs \cup {None}, BeginTurn(p) PROVE TypeOK'
        BY <2>4 DEF BeginTurn, Sent
  <2>5. ASSUME NEW k \in Firers, NEW c \in Subs, Tell(k, c) PROVE TypeOK'
    <3>1. taken' \in [Firers -> SUBSET Subs]
        BY <2>5 DEF Tell
    <3>2. notices' \subseteq [sub : Subs, by : Firers, state : {"idle", "exited"}]
        BY <2>5 DEF Tell
    <3> QED
        BY <2>5, <3>1, <3>2 DEF Tell
  <2>6. CASE MainStep
    <3>1. ASSUME NEW S \in SUBSET Msgs, Expire(S) PROVE TypeOK'
        BY <3>1 DEF Expire
    <3>2. ASSUME NEW m \in Msgs, NoteUnanswered(m) PROVE TypeOK'
        BY <3>2 DEF NoteUnanswered, Reply
    <3>3. CASE CheckDrained \/ BackToLoop \/ LeaveLoop \/ Exit \/ Crash
        BY <3>3 DEF CheckDrained, BackToLoop, LeaveLoop, Exit, Crash
    <3>4. CASE MainFires \/ CleanupFires
        BY <3>4 DEF MainFires, CleanupFires, TakeSubscribers
    <3> QED
        BY <2>6, <3>1, <3>2, <3>3, <3>4 DEF MainStep
  <2>7. CASE UNCHANGED vars
        BY <2>7 DEF vars
  <2> QED
        BY <2>1, <2>2, <2>3, <2>4, <2>5, <2>6, <2>7 DEF Next
<1> QED
    BY <1>1, <1>2, PTL DEF Spec

(***************************************************************************)
(* One notice per subscription.  A subscription is in one place at a time: *)
(* not sent yet, in the table, in one thread's list, or told.              *)
(***************************************************************************)
Untold(c) == \A n \in notices : n.sub # c
InNoList(c) == \A k \in Firers : c \notin taken[k]

NoticeInv ==
    /\ \A c \in Subs : control[c] = "unsent" =>
           c \notin subscriptions /\ InNoList(c) /\ Untold(c)
    /\ \A c \in subscriptions : InNoList(c) /\ Untold(c)
    /\ \A k, l \in Firers : \A c \in taken[k] :
           Untold(c) /\ (c \in taken[l] => k = l)
    /\ OneNoticePerSubscription

LEMMA TakeKeepsNoticeInv ==
    ASSUME TypeOK, NoticeInv, NEW k \in Firers, TakeSubscribers(k),
           \A c \in Subs : control'[c] = "unsent" => control[c] = "unsent"
    PROVE  NoticeInv'
<1> USE DEF TypeOK, NoticeInv, Untold, InNoList, OneNoticePerSubscription, history
<1>1. /\ subscriptions' = {} /\ notices' = notices
      /\ \A l \in Firers : taken'[l] = IF l = k THEN subscriptions ELSE taken[l]
    BY DEF TakeSubscribers
<1>2. \A c \in Subs : control'[c] = "unsent" =>
           c \notin subscriptions' /\ InNoList(c)' /\ Untold(c)'
    BY <1>1
<1>3. \A i, l \in Firers : \A c \in taken'[i] :
           Untold(c)' /\ (c \in taken'[l] => i = l)
    BY <1>1
<1> QED
    BY <1>1, <1>2, <1>3

\* No two threads tell the same subscriber, whatever the queue, the hooks
\* and the process do: the table is copied and cleared under one lock.
THEOREM NoticeOnce == Spec => []OneNoticePerSubscription
<1> USE DEF NoticeInv, Untold, InNoList
<1>1. Init => NoticeInv
    BY DEF Init, OneNoticePerSubscription
<1>2. TypeOK /\ NoticeInv /\ [Next]_vars => NoticeInv'
  <2> SUFFICES ASSUME TypeOK, NoticeInv, [Next]_vars PROVE NoticeInv'
      OBVIOUS
  <2> USE DEF TypeOK, table, threads, codex, loop, history
  <2>0. ASSUME UNCHANGED <<control, subscriptions, taken, notices>> PROVE NoticeInv'
      BY <2>0 DEF OneNoticePerSubscription
  <2>1. ASSUME NEW m \in Msgs, UserStep(m) PROVE NoticeInv'
      BY <2>0, <2>1 DEF UserStep, Register, Queued, Refused, Hangs, TimesOut,
         Raises, QueueStep, TakeBack, NoteUndeliverable
  <2>2. ASSUME NEW c \in Subs, Subscribe(c) PROVE NoticeInv'
      BY <2>2 DEF Subscribe, OneNoticePerSubscription
  <2>3. ASSUME NEW c \in Subs, ControlFires(c) PROVE NoticeInv'
      BY <2>3, TakeKeepsNoticeInv DEF ControlFires, Firers
  <2>4. ASSUME NEW t \in Turns, TurnStep(t) PROVE NoticeInv'
    <3>1. CASE TurnFires(t)
        BY <3>1, TakeKeepsNoticeInv DEF TurnFires, Firers
    <3> QED
        BY <2>0, <2>4, <3>1 DEF TurnStep, EndTurn, SetBusy, SetActive, SetIdle,
           PopActive, CountPending, Answer
  <2>5. ASSUME NEW p \in Msgs \cup {None}, BeginTurn(p) PROVE NoticeInv'
      BY <2>0, <2>5 DEF BeginTurn
  <2>6. ASSUME NEW k \in Firers, NEW c \in Subs, Tell(k, c) PROVE NoticeInv'
    <3>1. PICK n : n.sub = c /\ notices' = notices \cup {n}
      <4> DEFINE n == [sub |-> c, by |-> k,
                       state |-> IF k = Main /\ main = "farewell"
                                 THEN "exited" ELSE "idle"]
      <4>1. n.sub = c /\ notices' = notices \cup {n}
          BY <2>6 DEF Tell
      <4> QED
          BY <4>1
    <3>2. /\ c \in taken[k] /\ UNCHANGED <<control, subscriptions>>
          /\ \A l \in Firers : taken'[l] = IF l = k THEN taken[k] \ {c} ELSE taken[l]
        BY <2>6 DEF Tell
    <3> QED
        BY <3>1, <3>2 DEF OneNoticePerSubscription
  <2>7. CASE MainStep
    <3>1. CASE MainFires \/ CleanupFires
        BY <3>1, TakeKeepsNoticeInv DEF MainFires, CleanupFires, Firers
    <3>2. CASE \/ \E S \in SUBSET Msgs : Expire(S)
               \/ \E m \in Msgs : NoteUnanswered(m)
               \/ CheckDrained \/ BackToLoop \/ LeaveLoop \/ Exit \/ Crash
        BY <2>0, <3>2 DEF Expire, NoteUnanswered, CheckDrained, BackToLoop,
           LeaveLoop, Exit, Crash
    <3> QED
        BY <2>7, <3>1, <3>2 DEF MainStep
  <2>8. CASE UNCHANGED vars
      BY <2>0, <2>8 DEF vars
  <2> QED
      BY <2>1, <2>2, <2>3, <2>4, <2>5, <2>6, <2>7, <2>8 DEF Next, ControlStep
<1>3. NoticeInv => OneNoticePerSubscription
    OBVIOUS
<1> QED
    BY <1>1, <1>2, <1>3, TypeCorrect, PTL DEF Spec

(***************************************************************************)
(* One outcome per request.  A request that is pending belongs to nobody;  *)
(* whoever takes it out of the table (the turn's end, the expiry, the      *)
(* failed queue call) is the only one to hold it until its sender is told. *)
(*                                                                         *)
(* That the failed queue call takes out what is still there is the subtle  *)
(* part: its message was not submitted, so no turn carries its marker, and *)
(* it is younger than the TTL.  It fails when the 30 s time-out hits a     *)
(* `codex queue` whose text got in ("late"), or with a TTL below 30 s.     *)
(***************************************************************************)
PromptQueue ==
    /\ "late" \notin QueueOutcomes
    /\ TtlCoversQueue = TRUE
    /\ \A m, n \in Msgs : m \in Matching[n] => m = n

Silent(m) == \A r \in replies : r.msg # m
Unheld(m) == \A t \in Turns : popped[t] # m

OutcomeInv ==
    /\ \A m \in Msgs : user[m] = "unsent" =>
           m \notin pending /\ Unheld(m) /\ m \notin stale /\ Silent(m)
    /\ \A m \in pending :
           Unheld(m) /\ m \notin stale /\ user[m] # "noting" /\ Silent(m)
    /\ \A t, u \in Turns : popped[t] # None =>
           /\ popped[t] = popped[u] => t = u
           /\ popped[t] \notin stale /\ user[popped[t]] # "noting"
           /\ Silent(popped[t])
    /\ \A m \in stale : user[m] # "noting" /\ Silent(m)
    /\ \A m \in Msgs : user[m] = "noting" => Silent(m)
    /\ AtMostOneOutcome

\* What keeps a failed queue call's entry in the table.
QueueInv ==
    /\ \A m \in Msgs : user[m] # "hung"
    /\ \A m \in Msgs : user[m] \in {"queueing", "failed"} => m \in pending
    /\ \A m \in codexQ : user[m] = "done"
    /\ \A t \in Turns : prompt[t] # None => user[prompt[t]] = "done"
    /\ active # None => user[active] = "done"
    /\ ActiveIsPending

LEMMA PendingIdForOwn ==
    ASSUME PromptQueue, TypeOK, NEW t \in Turns
    PROVE  LET k == PendingIdFor(prompt[t])
           IN  k # None => k \in pending /\ k = prompt[t]
BY DataAssumption DEF PromptQueue, PendingIdFor, TypeOK

LEMMA QueueInvInductive ==
    ASSUME PromptQueue
    PROVE  /\ Init => QueueInv
           /\ TypeOK /\ QueueInv /\ [Next]_vars => QueueInv'
<1> USE DataAssumption DEF QueueInv, ActiveIsPending
<1>1. Init => QueueInv
    BY DEF Init
<1>2. TypeOK /\ QueueInv /\ [Next]_vars => QueueInv'
  <2> SUFFICES ASSUME TypeOK, QueueInv, [Next]_vars PROVE QueueInv'
      OBVIOUS
  <2> USE DEF TypeOK, table, threads, codex, loop, history
  <2>0. ASSUME UNCHANGED <<user, pending, codexQ, prompt, active>> PROVE QueueInv'
      BY <2>0
  <2>1. ASSUME NEW m \in Msgs, UserStep(m) PROVE QueueInv'
    <3>1. CASE Register(m)
        BY <3>1 DEF Register
    <3>2. CASE Queued(m)
        BY <3>2 DEF Queued, QueueStep
    <3>3. CASE Refused(m) \/ Raises(m)
        BY <3>3 DEF Refused, Raises, QueueStep
    <3>4. CASE Hangs(m) \/ TimesOut(m)
        BY <3>4 DEF Hangs, TimesOut, QueueStep, PromptQueue
    <3>5. CASE TakeBack(m)
        BY <3>5 DEF TakeBack
    <3>6. CASE NoteUndeliverable(m)
        BY <3>6 DEF NoteUndeliverable
    <3> QED
        BY <2>1, <3>1, <3>2, <3>3, <3>4, <3>5, <3>6 DEF UserStep
  <2>2. ASSUME NEW t \in Turns, TurnStep(t) PROVE QueueInv'
    <3>1. CASE SetActive(t)
        BY <3>1, PendingIdForOwn DEF SetActive
    <3>2. CASE PopActive(t)
        BY <3>2 DEF PopActive
    <3> QED
        BY <2>0, <2>2, <3>1, <3>2 DEF TurnStep, EndTurn, SetBusy, SetIdle,
           CountPending, TurnFires, TakeSubscribers, Answer
  <2>3. ASSUME NEW p \in Msgs \cup {None}, BeginTurn(p) PROVE QueueInv'
      BY <2>3 DEF BeginTurn, Turns
  <2>4. ASSUME NEW S \in SUBSET Msgs, Expire(S) PROVE QueueInv'
      BY <2>4 DEF Expire, PromptQueue
  <2>5. CASE \/ \E c \in Subs : ControlStep(c)
             \/ \E k \in Firers, c \in Subs : Tell(k, c)
             \/ \E m \in Msgs : NoteUnanswered(m)
             \/ CheckDrained \/ MainFires \/ BackToLoop
             \/ LeaveLoop \/ CleanupFires \/ Exit \/ Crash
             \/ UNCHANGED vars
      BY <2>0, <2>5 DEF ControlStep, Subscribe, ControlFires, TakeSubscribers,
         Tell, NoteUnanswered, CheckDrained, MainFires, BackToLoop, LeaveLoop,
         CleanupFires, Exit, Crash, vars
  <2> QED
      BY <2>1, <2>2, <2>3, <2>4, <2>5 DEF Next, MainStep
<1> QED
    BY <1>1, <1>2

\* No entry is taken from under a running turn: the active request stays in
\* the table until the turn's end pops it.
THEOREM ActiveStaysPending ==
    ASSUME PromptQueue
    PROVE  Spec => []ActiveIsPending
<1>1. QueueInv => ActiveIsPending
    BY DEF QueueInv
<1> QED
    BY <1>1, QueueInvInductive, TypeCorrect, PTL DEF Spec

\* Telling one sender, when nobody else holds its request.
LEMMA ReplyOnce ==
    ASSUME NEW m, NEW kind, NEW t, AtMostOneOutcome, Silent(m), Reply(m, kind, t)
    PROVE  /\ AtMostOneOutcome'
           /\ \A n : n # m /\ Silent(n) => Silent(n)'
BY DEF AtMostOneOutcome, Silent, Reply

LEMMA OutcomeInvInductive ==
    ASSUME PromptQueue
    PROVE  /\ Init => OutcomeInv
           /\ TypeOK /\ QueueInv /\ OutcomeInv /\ [Next]_vars => OutcomeInv'
<1> USE DataAssumption DEF OutcomeInv, Unheld
<1>1. Init => OutcomeInv
    BY DEF Init, Silent, AtMostOneOutcome
<1>2. TypeOK /\ QueueInv /\ OutcomeInv /\ [Next]_vars => OutcomeInv'
  <2> SUFFICES ASSUME TypeOK, QueueInv, OutcomeInv, [Next]_vars PROVE OutcomeInv'
      OBVIOUS
  <2> USE DEF TypeOK, table, threads, codex, loop, history
  <2>0. ASSUME UNCHANGED <<user, pending, popped, stale, replies>>
        PROVE  OutcomeInv'
      BY <2>0 DEF Silent, AtMostOneOutcome
  <2>1. ASSUME NEW m \in Msgs, UserStep(m) PROVE OutcomeInv'
    <3>0. ASSUME replies' = replies
          PROVE  AtMostOneOutcome' /\ \A n : Silent(n)' <=> Silent(n)
        BY <3>0 DEF Silent, AtMostOneOutcome
    <3>1. CASE Register(m)
        BY <3>0, <3>1 DEF Register
    <3>2. CASE Queued(m) \/ Refused(m) \/ Hangs(m) \/ TimesOut(m) \/ Raises(m)
        BY <3>0, <3>2 DEF Queued, Refused, Hangs, TimesOut, Raises, QueueStep
    <3>3. CASE TakeBack(m)
        BY <3>0, <3>3 DEF TakeBack, QueueInv
    <3>4. CASE NoteUndeliverable(m)
      <4>1. m \notin pending /\ Unheld(m) /\ m \notin stale /\ Silent(m)
          BY <3>4 DEF NoteUndeliverable
      <4>2. AtMostOneOutcome' /\ \A n : n # m /\ Silent(n) => Silent(n)'
          BY <3>4, <4>1, ReplyOnce DEF NoteUndeliverable
      <4> QED
          BY <3>4, <4>1, <4>2 DEF NoteUndeliverable
    <3> QED
        BY <2>1, <3>1, <3>2, <3>3, <3>4 DEF UserStep
  <2>2. ASSUME NEW t \in Turns, TurnStep(t) PROVE OutcomeInv'
    <3>1. CASE PopActive(t)
      <4>0. AtMostOneOutcome' /\ \A n : Silent(n)' <=> Silent(n)
          BY <3>1 DEF PopActive, Silent, AtMostOneOutcome
      <4>1. popped' = [popped EXCEPT ![t] = active] \/ popped' = [popped EXCEPT ![t] = None]
          BY <3>1 DEF PopActive, QueueInv, ActiveIsPending
      <4>2. active # None => active \in pending
          BY DEF QueueInv, ActiveIsPending
      <4> QED
          BY <3>1, <4>0, <4>1, <4>2 DEF PopActive
    <3>2. CASE Answer(t)
      <4>1. CASE popped[t] = None
          BY <2>0, <3>2, <4>1 DEF Answer
      <4>2. CASE popped[t] # None
        <5> DEFINE m == popped[t]
        <5>1. /\ m \in Msgs /\ m \notin pending /\ m \notin stale /\ Silent(m)
              /\ user[m] \notin {"unsent", "noting"}
              /\ \A u \in Turns \ {t} : popped[u] # m
            BY <4>2
        <5>2. AtMostOneOutcome' /\ \A n : n # m /\ Silent(n) => Silent(n)'
            BY <3>2, <4>2, <5>1, ReplyOnce DEF Answer
        <5>3. /\ \A u \in Turns : popped'[u] = IF u = t THEN None ELSE popped[u]
              /\ UNCHANGED <<user, pending, stale>>
            BY <3>2 DEF Answer
        <5> QED
            BY <5>1, <5>2, <5>3
      <4> QED
          BY <4>1, <4>2
    <3> QED
        BY <2>0, <2>2, <3>1, <3>2 DEF TurnStep, EndTurn, SetBusy, SetActive,
           SetIdle, CountPending, TurnFires, TakeSubscribers
  <2>3. ASSUME NEW S \in SUBSET Msgs, Expire(S) PROVE OutcomeInv'
    <3>1. AtMostOneOutcome' /\ \A n : Silent(n)' <=> Silent(n)
        BY <2>3 DEF Expire, Silent, AtMostOneOutcome
    <3> QED
        BY <2>3, <3>1 DEF Expire
  <2>4. ASSUME NEW m \in Msgs, NoteUnanswered(m) PROVE OutcomeInv'
    <3>1. m \in stale /\ Silent(m)
        BY <2>4 DEF NoteUnanswered
    <3>2. AtMostOneOutcome' /\ \A n : n # m /\ Silent(n) => Silent(n)'
        BY <2>4, <3>1, ReplyOnce DEF NoteUnanswered
    <3> QED
        BY <2>4, <3>1, <3>2 DEF NoteUnanswered
  <2>5. CASE \/ \E c \in Subs : ControlStep(c)
             \/ \E p \in Msgs \cup {None} : BeginTurn(p)
             \/ \E k \in Firers, c \in Subs : Tell(k, c)
             \/ CheckDrained \/ MainFires \/ BackToLoop
             \/ LeaveLoop \/ CleanupFires \/ Exit \/ Crash
             \/ UNCHANGED vars
      BY <2>0, <2>5 DEF ControlStep, Subscribe, ControlFires, TakeSubscribers,
         BeginTurn, Tell, CheckDrained, MainFires, BackToLoop, LeaveLoop,
         CleanupFires, Exit, Crash, vars
  <2> QED
      BY <2>1, <2>2, <2>3, <2>4, <2>5 DEF Next, MainStep
<1> QED
    BY <1>1, <1>2

\* No sender ever gets two outcomes for one request, as long as a failed
\* `codex queue` has not put the text in, the TTL covers the queue call and
\* short ids differ; hooks may be lost or late, the process may stop or die.
THEOREM OutcomeOnce ==
    ASSUME PromptQueue
    PROVE  Spec => []AtMostOneOutcome
<1>1. OutcomeInv => AtMostOneOutcome
    BY DEF OutcomeInv
<1> QED
    BY <1>1, QueueInvInductive, OutcomeInvInductive, TypeCorrect, PTL DEF Spec

(***************************************************************************)
(* No forgotten subscriber, unless `codex queue` fails: every way in which *)
(* the bridge becomes idle with an empty table leaves a thread that goes   *)
(* on to fire the notices.                                                 *)
(***************************************************************************)
NeverRefused == "refused" \notin QueueOutcomes

WakeInv ==
    /\ \A m \in Msgs : user[m] # "failed"
    /\ NoForgottenSubscriber

\* Between two notices nobody is forgotten: whenever somebody waits at an
\* idle bridge, some thread is about to tell them.
THEOREM NobodyForgotten ==
    ASSUME PromptQueue, NeverRefused
    PROVE  Spec => []NoForgottenSubscriber
<1> USE DEF WakeInv, NoForgottenSubscriber, IdleNow, Alive
<1>1. Init => WakeInv
    BY DEF Init
<1>2. TypeOK /\ QueueInv /\ WakeInv /\ [Next]_vars => WakeInv'
  <2> SUFFICES ASSUME TypeOK, QueueInv, WakeInv, [Next]_vars PROVE WakeInv'
      OBVIOUS
  <2> USE DEF TypeOK, table, threads, codex, loop, history
  <2>1. ASSUME NEW m \in Msgs, UserStep(m) PROVE WakeInv'
    <3>1. CASE Register(m)
        BY <3>1 DEF Register
    <3>2. CASE Queued(m) \/ Hangs(m) \/ Raises(m)
        BY <3>2 DEF Queued, Hangs, Raises, QueueStep
    <3>3. CASE Refused(m) \/ TimesOut(m) \/ TakeBack(m)
        BY <3>3, NeverRefused DEF Refused, TimesOut, TakeBack, QueueStep,
           QueueInv, NeverRefused
    <3>4. CASE NoteUndeliverable(m)
        BY <3>4 DEF NoteUndeliverable
    <3> QED
        BY <2>1, <3>1, <3>2, <3>3, <3>4 DEF UserStep
  <2>2. ASSUME NEW c \in Subs, ControlStep(c) PROVE WakeInv'
    <3>1. CASE Subscribe(c)
        BY <3>1 DEF Subscribe
    <3>2. CASE ControlFires(c)
        BY <3>2 DEF ControlFires, TakeSubscribers
    <3> QED
        BY <2>2, <3>1, <3>2 DEF ControlStep
  <2>3. ASSUME NEW t \in Turns, TurnStep(t) PROVE WakeInv'
    <3>1. CASE EndTurn(t)
        BY <3>1 DEF EndTurn
    <3>2. CASE SetBusy(t)
        BY <3>2 DEF SetBusy
    <3>3. CASE SetActive(t)
        BY <3>3 DEF SetActive, QueueInv, ActiveIsPending
    <3>4. CASE SetIdle(t)
        BY <3>4 DEF SetIdle
    <3>5. CASE PopActive(t)
        BY <3>5 DEF PopActive
    <3>6. CASE CountPending(t)
        BY <3>6 DEF CountPending
    <3>7. CASE TurnFires(t)
        BY <3>7 DEF TurnFires, TakeSubscribers
    <3>8. CASE Answer(t)
        BY <3>8 DEF Answer
    <3> QED
        BY <2>3, <3>1, <3>2, <3>3, <3>4, <3>5, <3>6, <3>7, <3>8 DEF TurnStep
  <2>4. ASSUME NEW p \in Msgs \cup {None}, BeginTurn(p) PROVE WakeInv'
      BY <2>4 DEF BeginTurn
  <2>5. ASSUME NEW k \in Firers, NEW c \in Subs, Tell(k, c) PROVE WakeInv'
      BY <2>5 DEF Tell
  <2>6. CASE MainStep
    <3>1. CASE \E S \in SUBSET Msgs : Expire(S)
        BY <3>1 DEF Expire
    <3>2. CASE \E m \in Msgs : NoteUnanswered(m)
        BY <3>2 DEF NoteUnanswered
    <3>3. CASE CheckDrained
        BY <3>3 DEF CheckDrained
    <3>4. CASE MainFires \/ CleanupFires
        BY <3>4 DEF MainFires, CleanupFires, TakeSubscribers
    <3>5. CASE BackToLoop \/ LeaveLoop \/ Exit \/ Crash
        BY <3>5 DEF BackToLoop, LeaveLoop, Exit, Crash
    <3> QED
        BY <2>6, <3>1, <3>2, <3>3, <3>4, <3>5 DEF MainStep
  <2>7. CASE UNCHANGED vars
      BY <2>7 DEF vars
  <2> QED
      BY <2>1, <2>2, <2>3, <2>4, <2>5, <2>6, <2>7 DEF Next
<1>3. WakeInv => NoForgottenSubscriber
    OBVIOUS
<1> QED
    BY <1>1, <1>2, <1>3, QueueInvInductive, TypeCorrect, PTL DEF Spec

(***************************************************************************)
(* The bridge implements RequestLedger when hooks are delivered in order:  *)
(* then the frames of a turn find the state as the turn before left it.    *)
(***************************************************************************)
OrderedHooks == HooksInOrder = TRUE /\ HooksMayLose = FALSE

Popped(t) == ended[t] \in {"popped", "firing", "telling", "done"}

OrderInv ==
    /\ \A t \in Turns : t > turn => started[t] = "none" /\ ended[t] = "none"
    /\ \A t \in Turns : t < turn => started[t] = "done" /\ Settled(t) /\ Popped(t)
    /\ \A t \in Turns : t = turn =>
           /\ started[t] \in {"sent", "busied", "done"}
           /\ ended[t] # "lost"
           /\ ended[t] # "none" => started[t] = "done"
           /\ started[t] # "done" \/ Popped(t) => active = None
    /\ turn = 0 => active = None
    /\ \A t \in Turns : popped[t] # None => Popped(t)

LEMMA OrderInvInductive ==
    ASSUME OrderedHooks
    PROVE  /\ Init => OrderInv
           /\ TypeOK /\ OrderInv /\ [Next]_vars => OrderInv'
<1> USE DataAssumption DEF OrderInv, Popped, Settled, Turns
<1>1. Init => OrderInv
    BY DEF Init
<1>2. TypeOK /\ OrderInv /\ [Next]_vars => OrderInv'
  <2> SUFFICES ASSUME TypeOK, OrderInv, [Next]_vars PROVE OrderInv'
      OBVIOUS
  <2> USE DEF TypeOK, table, threads, codex, loop, history
  <2>0. ASSUME UNCHANGED <<started, ended, turn, active, popped>> PROVE OrderInv'
      BY <2>0
  <2>1. ASSUME NEW t \in Turns, TurnStep(t) PROVE OrderInv'
    <3>1. CASE EndTurn(t)
      <4>1. ended' = [ended EXCEPT ![t] = "sent"] /\ started[t] = "done" /\ t = turn
          BY <3>1 DEF EndTurn, Sent, OrderedHooks
      <4> QED
          BY <3>1, <4>1 DEF EndTurn
    <3>2. CASE SetBusy(t)
        BY <3>2 DEF SetBusy
    <3>3. CASE SetActive(t)
      <4>1. t = turn /\ ended[t] = "none"
          BY <3>3 DEF SetActive
      <4> QED
          BY <3>3, <4>1 DEF SetActive
    <3>4. CASE SetIdle(t)
        BY <3>4 DEF SetIdle
    <3>5. CASE PopActive(t)
      <4>0. ended[t] = "idled"
          BY <3>5 DEF PopActive
      <4>1. t = turn
        <5>1. ~(t < turn)
            BY <4>0
        <5>2. ~(t > turn)
            BY <4>0
        <5> QED
            BY <5>1, <5>2
      <4>2. /\ UNCHANGED <<turn, started>> /\ active' = None
            /\ \A u \in Turns : ended'[u] = IF u = t THEN "popped" ELSE ended[u]
            /\ \A u \in Turns \ {t} : popped'[u] = popped[u]
          BY <3>5 DEF PopActive
      <4>3. started[t] = "done"
          BY <3>5, <4>1 DEF PopActive
      <4> QED
          BY <4>1, <4>2, <4>3
    <3>6. CASE CountPending(t)
        BY <3>6 DEF CountPending
    <3>7. CASE TurnFires(t)
        BY <3>7 DEF TurnFires, TakeSubscribers
    <3>8. CASE Answer(t)
        BY <3>8 DEF Answer
    <3> QED
        BY <2>1, <3>1, <3>2, <3>3, <3>4, <3>5, <3>6, <3>7, <3>8 DEF TurnStep
  <2>2. ASSUME NEW p \in Msgs \cup {None}, BeginTurn(p) PROVE OrderInv'
    <3>1. /\ turn' = turn + 1 /\ turn + 1 \in Turns
          /\ started' = [started EXCEPT ![turn + 1] = "sent"]
          /\ UNCHANGED <<ended, active, popped>>
        BY <2>2 DEF BeginTurn, Sent, OrderedHooks
    <3>2. active = None
        BY <2>2 DEF BeginTurn, OrderedHooks
    <3>3. turn > 0 => started[turn] = "done" /\ Settled(turn) /\ Popped(turn)
        BY <2>2 DEF BeginTurn, OrderedHooks
    <3>4. \A t \in Turns : popped'[t] # None => Popped(t)'
        BY <3>1
    <3>5. \A t \in Turns : t > turn + 1 =>
              started'[t] = "none" /\ ended'[t] = "none"
        BY <3>1
    <3>6. \A t \in Turns : t < turn + 1 =>
              started'[t] = "done" /\ Settled(t)' /\ Popped(t)'
        BY <3>1, <3>3
    <3>7. started'[turn + 1] = "sent" /\ ended'[turn + 1] = "none"
        BY <3>1
    <3> QED
        BY <3>1, <3>2, <3>4, <3>5, <3>6, <3>7
  <2>3. CASE \/ \E m \in Msgs : UserStep(m)
             \/ \E c \in Subs : Subscribe(c)
             \/ \E k \in Firers, c \in Subs : Tell(k, c)
             \/ MainStep
             \/ UNCHANGED vars
      BY <2>0, <2>3 DEF UserStep, Register, Queued, Refused, Hangs, TimesOut,
         Raises, QueueStep, TakeBack, NoteUndeliverable, Subscribe, Tell,
         MainStep, Expire, NoteUnanswered, CheckDrained, MainFires, BackToLoop,
         LeaveLoop, CleanupFires, Exit, Crash, TakeSubscribers, vars
  <2>4. ASSUME NEW c \in Subs, ControlFires(c) PROVE OrderInv'
      BY <2>0, <2>4 DEF ControlFires, TakeSubscribers
  <2> QED
      BY <2>1, <2>2, <2>3, <2>4 DEF Next, ControlStep
<1> QED
    BY <1>1, <1>2

\* A step that leaves a request where it was, as its sender sees it.
LEMMA LedgerSame ==
    ASSUME replies' = replies,
           \A m \in Msgs : (user'[m] = "unsent") <=> (user[m] = "unsent"),
           \A m \in Msgs : WorkedOn(m)' <=> WorkedOn(m)
    PROVE  \A m \in Msgs : LedgerState(m)' = LedgerState(m)
BY DEF LedgerState

LEMMA LedgerStays ==
    ASSUME UNCHANGED <<user, replies, active, popped>>
    PROVE  \A m \in Msgs : LedgerState(m)' = LedgerState(m)
BY DEF LedgerState, WorkedOn

\* A note or an answer moves its own request only.
LEMMA LedgerTold ==
    ASSUME TypeOK, NEW m \in Msgs, NEW kind, NEW t \in 0..MaxTurns,
           Reply(m, kind, t), Silent(m), user'[m] # "unsent",
           \A n \in Msgs \ {m} : (user'[n] = "unsent") <=> (user[n] = "unsent"),
           \A n \in Msgs \ {m} : WorkedOn(n)' <=> WorkedOn(n)
    PROVE  /\ \A n \in Msgs \ {m} : LedgerState(n)' = LedgerState(n)
           /\ m \notin NoReply =>
                  LedgerState(m)' = IF t # 0 THEN "answered" ELSE "declined"
<1> DEFINE r == [msg |-> m, kind |-> kind, turn |-> t]
<1>1. replies' = IF m \in NoReply THEN replies ELSE replies \cup {r}
    BY DEF Reply
<1>2. \A n \in Msgs \ {m} :
          {q \in replies' : q.msg = n} = {q \in replies : q.msg = n}
    BY <1>1
<1>3. m \notin NoReply => {q \in replies' : q.msg = m} = {r}
    BY <1>1 DEF Silent
<1>4. r.turn = t
    OBVIOUS
<1>5. \A n \in Msgs \ {m} : LedgerState(n)' = LedgerState(n)
    BY <1>2 DEF LedgerState
<1>6. m \notin NoReply =>
          LedgerState(m)' = IF t # 0 THEN "answered" ELSE "declined"
    BY <1>3, <1>4 DEF LedgerState
<1> QED
    BY <1>5, <1>6

ledger == <<[m \in Msgs \ NoReply |-> LedgerState(m)], Alive>>

LEMMA LedgerStutter ==
    ASSUME \A m \in Msgs : LedgerState(m)' = LedgerState(m), Alive' = Alive
    PROVE  UNCHANGED ledger
BY DEF ledger

LEMMA LedgerMove ==
    ASSUME NEW m \in Msgs \ NoReply, NEW from, NEW to, Alive, Alive',
           LedgerState(m) = from, LedgerState(m)' = to,
           \A n \in Msgs \ {m} : LedgerState(n)' = LedgerState(n)
    PROVE  Ledger!Move(m, from, to)
BY DEF Ledger!Move

\* Towards its senders the bridge is a RequestLedger: open, worked on,
\* answered; or open and declined; and each of these once.
THEOREM BridgeImplementsLedger ==
    ASSUME PromptQueue, OrderedHooks
    PROVE  Spec => ImplementsLedger
<1> USE DataAssumption
<1>1. Init => Ledger!Init
    BY DEF Init, Ledger!Init, LedgerState, Alive
<1>2. TypeOK /\ QueueInv /\ OutcomeInv /\ OrderInv /\ [Next]_vars => [Ledger!Next]_ledger
  <2> SUFFICES ASSUME TypeOK, QueueInv, OutcomeInv, OrderInv, [Next]_vars
               PROVE  Ledger!Next \/ UNCHANGED ledger
      OBVIOUS
  <2> USE DEF table, threads, codex, loop, history, Alive
  <2>0. ASSUME UNCHANGED <<user, replies, active, popped>>, Alive' = Alive
        PROVE  UNCHANGED ledger
      BY <2>0, LedgerStays, LedgerStutter
  <2>1. ASSUME NEW m \in Msgs, UserStep(m) PROVE Ledger!Next \/ UNCHANGED ledger
    <3>0. Alive /\ Alive' /\ (\A n \in Msgs : WorkedOn(n)' <=> WorkedOn(n))
        BY <2>1 DEF UserStep, Register, Queued, Refused, Hangs, TimesOut, Raises,
           QueueStep, TakeBack, NoteUndeliverable, WorkedOn
    <3>1. CASE Register(m)
      <4>1. /\ LedgerState(m) = "absent" /\ LedgerState(m)' = "open"
            /\ \A n \in Msgs \ {m} : LedgerState(n)' = LedgerState(n)
          BY <3>0, <3>1 DEF Register, LedgerState, WorkedOn, TypeOK, OutcomeInv,
             QueueInv, Silent, Unheld
      <4>2. CASE m \in NoReply
          BY <3>0, <4>1, <4>2 DEF ledger
      <4>3. CASE m \notin NoReply
        <5>1. Ledger!Open(m)
            BY <3>0, <4>1, <4>3, LedgerMove DEF Ledger!Open
        <5> QED
            BY <4>3, <5>1 DEF Ledger!Next
      <4> QED
          BY <4>2, <4>3
    <3>2. CASE Queued(m) \/ Refused(m) \/ Hangs(m) \/ TimesOut(m) \/ Raises(m)
               \/ TakeBack(m)
      <4>1. replies' = replies /\ \A n \in Msgs : (user'[n] = "unsent") <=> (user[n] = "unsent")
          BY <3>2 DEF Queued, Refused, Hangs, TimesOut, Raises, QueueStep, TakeBack, TypeOK
      <4> QED
          BY <3>0, <4>1, LedgerSame, LedgerStutter
    <3>3. CASE NoteUndeliverable(m)
      <4>1. Silent(m) /\ ~WorkedOn(m) /\ LedgerState(m) = "open"
          BY <3>3 DEF NoteUndeliverable, OutcomeInv, QueueInv, WorkedOn,
             LedgerState, Silent
      <4>2. user'[m] # "unsent" /\ \A n \in Msgs \ {m} : user'[n] = user[n]
          BY <3>3 DEF NoteUndeliverable, TypeOK
      <4>3. /\ \A n \in Msgs \ {m} : LedgerState(n)' = LedgerState(n)
            /\ m \notin NoReply => LedgerState(m)' = "declined"
          BY <3>0, <3>3, <4>1, <4>2, LedgerTold DEF NoteUndeliverable
      <4>4. CASE m \in NoReply
          BY <3>0, <4>3, <4>4 DEF ledger
      <4>5. CASE m \notin NoReply
        <5>1. Ledger!Decline(m)
            BY <3>0, <4>1, <4>3, <4>5, LedgerMove DEF Ledger!Decline
        <5> QED
            BY <4>5, <5>1 DEF Ledger!Next
      <4> QED
          BY <4>4, <4>5
    <3> QED
        BY <2>1, <3>1, <3>2, <3>3 DEF UserStep
  <2>2. ASSUME NEW t \in Turns, SetActive(t) PROVE Ledger!Next \/ UNCHANGED ledger
    <3>1. active = None
        BY <2>2 DEF SetActive, OrderInv, TypeOK, Turns
    <3>2. /\ active' = PendingIdFor(prompt[t])
          /\ UNCHANGED <<user, popped, replies>> /\ Alive /\ Alive'
        BY <2>2 DEF SetActive
    <3>3. CASE active' = None
        BY <2>0, <3>1, <3>2, <3>3
    <3>4. CASE active' # None
      <4>1. PICK k \in Msgs : k = active' /\ k \in pending
          BY <3>2, <3>4, PendingIdForOwn DEF TypeOK
      <4>2. active # k /\ k # None /\ Unheld(k) /\ Silent(k) /\ user[k] # "unsent"
          BY <3>1, <3>4, <4>1 DEF OutcomeInv
      <4>3. \A n \in Msgs \ {k} : WorkedOn(n)' <=> WorkedOn(n)
          BY <3>1, <3>2, <4>1 DEF WorkedOn
      <4>4. WorkedOn(k)' /\ ~WorkedOn(k)
          BY <3>2, <4>1, <4>2 DEF WorkedOn, Unheld
      <4>5. /\ LedgerState(k) = "open" /\ LedgerState(k)' = "working"
            /\ \A n \in Msgs \ {k} : LedgerState(n)' = LedgerState(n)
          BY <3>2, <4>2, <4>3, <4>4 DEF LedgerState, Silent
      <4>6. CASE k \in NoReply
          BY <3>2, <4>5, <4>6 DEF ledger
      <4>7. CASE k \notin NoReply
        <5>1. Ledger!Work(k)
            BY <3>2, <4>5, <4>7, LedgerMove DEF Ledger!Work
        <5> QED
            BY <4>7, <5>1 DEF Ledger!Next
      <4> QED
          BY <4>6, <4>7
    <3> QED
        BY <3>3, <3>4
  <2>3. ASSUME NEW t \in Turns, PopActive(t) PROVE UNCHANGED ledger
    <3>1. popped[t] = None
      <4>1. ended[t] = "idled"
          BY <2>3 DEF PopActive
      <4> QED
          BY <4>1 DEF OrderInv, Popped
    <3>2. /\ active' = None /\ UNCHANGED <<user, replies>> /\ Alive' = Alive
          /\ \A u \in Turns : popped'[u] = IF u = t THEN active ELSE popped[u]
        BY <2>3 DEF PopActive, QueueInv, ActiveIsPending, TypeOK
    <3>3. \A n \in Msgs : WorkedOn(n)' <=> WorkedOn(n)
        BY <3>1, <3>2 DEF WorkedOn
    <3> QED
        BY <3>2, <3>3, LedgerSame, LedgerStutter
  <2>4. ASSUME NEW t \in Turns, Answer(t) PROVE Ledger!Next \/ UNCHANGED ledger
    <3>1. Alive /\ Alive' /\ active' = active /\ user' = user
          /\ \A u \in Turns : popped'[u] = IF u = t THEN None ELSE popped[u]
        BY <2>4 DEF Answer, TypeOK
    <3>2. CASE popped[t] = None
      <4>1. UNCHANGED <<user, replies, active, popped>>
          BY <2>4, <3>2 DEF Answer, TypeOK
      <4> QED
          BY <2>0, <3>1, <4>1
    <3>3. CASE popped[t] # None
      <4>1. PICK m \in Msgs : m = popped[t]
          BY <3>3 DEF TypeOK
      <4>2. /\ Silent(m) /\ user[m] # "unsent" /\ m # None
            /\ \A u \in Turns \ {t} : popped[u] # m
          BY <3>3, <4>1 DEF OutcomeInv, Unheld, TypeOK
      <4>3. \A n \in Msgs \ {m} : WorkedOn(n)' <=> WorkedOn(n)
          BY <3>1, <4>1 DEF WorkedOn
      <4>4. LedgerState(m) = "working"
          BY <4>1, <4>2 DEF LedgerState, WorkedOn, Silent
      <4>5. Reply(m, ending[t], t) /\ t \in 0..MaxTurns /\ t # 0
          BY <2>4, <3>3, <4>1 DEF Answer, Turns
      <4>6. /\ \A n \in Msgs \ {m} : LedgerState(n)' = LedgerState(n)
            /\ m \notin NoReply => LedgerState(m)' = "answered"
        <5>1. user'[m] # "unsent"
            BY <3>1, <4>2
        <5>2. \A n \in Msgs \ {m} : (user'[n] = "unsent") <=> (user[n] = "unsent")
            BY <3>1
        <5> QED
            BY <4>2, <4>3, <4>5, <5>1, <5>2, LedgerTold
      <4>7. CASE m \in NoReply
          BY <3>1, <4>6, <4>7 DEF ledger
      <4>8. CASE m \notin NoReply
        <5>1. Ledger!Answer(m)
            BY <3>1, <4>4, <4>6, <4>8, LedgerMove DEF Ledger!Answer
        <5> QED
            BY <4>8, <5>1 DEF Ledger!Next
      <4> QED
          BY <4>7, <4>8
    <3> QED
        BY <3>2, <3>3
  <2>5. ASSUME NEW m \in Msgs, NoteUnanswered(m) PROVE Ledger!Next \/ UNCHANGED ledger
    <3>1. Alive /\ Alive' /\ UNCHANGED <<user, active, popped, pending>> /\ m \in stale
        BY <2>5 DEF NoteUnanswered
    <3>2. Silent(m) /\ ~WorkedOn(m) /\ user[m] # "unsent"
        BY <3>1 DEF OutcomeInv, QueueInv, ActiveIsPending, WorkedOn, TypeOK
    <3>3. LedgerState(m) = "open" /\ \A n \in Msgs : WorkedOn(n)' <=> WorkedOn(n)
        BY <3>1, <3>2 DEF LedgerState, WorkedOn, Silent
    <3>4. Reply(m, "unanswered", 0) /\ 0 \in 0..MaxTurns
        BY <2>5 DEF NoteUnanswered
    <3>5. /\ \A n \in Msgs \ {m} : LedgerState(n)' = LedgerState(n)
          /\ m \notin NoReply => LedgerState(m)' = "declined"
        BY <3>1, <3>2, <3>3, <3>4, LedgerTold
    <3>6. CASE m \in NoReply
        BY <3>1, <3>5, <3>6 DEF ledger
    <3>7. CASE m \notin NoReply
      <4>1. Ledger!Decline(m)
          BY <3>1, <3>3, <3>5, <3>7, LedgerMove DEF Ledger!Decline
      <4> QED
          BY <3>7, <4>1 DEF Ledger!Next
    <3> QED
        BY <3>6, <3>7
  <2>6. ASSUME Exit \/ Crash PROVE Ledger!Next
    <3>1. Alive /\ ~Alive' /\ UNCHANGED <<user, replies, active, popped>>
        BY <2>6 DEF Exit, Crash
    <3> QED
        BY <3>1, LedgerStays DEF Ledger!Next, Ledger!GoDown
  <2>7. CASE \/ \E c \in Subs : ControlStep(c)
             \/ \E t \in Turns : \/ EndTurn(t) \/ SetBusy(t) \/ SetIdle(t)
                                 \/ CountPending(t) \/ TurnFires(t)
             \/ \E p \in Msgs \cup {None} : BeginTurn(p)
             \/ \E k \in Firers, c \in Subs : Tell(k, c)
             \/ \E S \in SUBSET Msgs : Expire(S)
             \/ CheckDrained \/ MainFires \/ BackToLoop \/ LeaveLoop \/ CleanupFires
             \/ UNCHANGED vars
      BY <2>0, <2>7 DEF ControlStep, Subscribe, ControlFires, TakeSubscribers,
         EndTurn, SetBusy, SetIdle, CountPending, TurnFires, BeginTurn, Tell,
         Expire, CheckDrained, MainFires, BackToLoop, LeaveLoop, CleanupFires, vars
  <2> QED
      BY <2>1, <2>2, <2>3, <2>4, <2>5, <2>6, <2>7 DEF Next, TurnStep, MainStep
<1> QED
    BY <1>1, <1>2, QueueInvInductive, OutcomeInvInductive, OrderInvInductive,
       TypeCorrect, PTL DEF Spec, ImplementsLedger, Ledger!Spec, ledger
(***************************************************************************)
(* One answer per request, whatever the environment does: a request leaves *)
(* the table once, and one turn's thread at most takes it with it.         *)
(***************************************************************************)
Unanswered(m) == \A r \in replies : r.turn # 0 => r.msg # m

AnswerInv ==
    /\ \A m \in Msgs : user[m] = "unsent" =>
           m \notin pending /\ Unheld(m) /\ Unanswered(m)
    /\ \A m \in pending : Unheld(m) /\ Unanswered(m)
    /\ \A t, u \in Turns : popped[t] # None =>
           /\ popped[t] = popped[u] => t = u
           /\ user[popped[t]] # "unsent" /\ Unanswered(popped[t])
    /\ AtMostOneAnswer

\* A note to a sender is no answer.
LEMMA NoteIsNoAnswer ==
    ASSUME NEW m, NEW kind, Reply(m, kind, 0), AtMostOneAnswer
    PROVE  /\ AtMostOneAnswer'
           /\ \A n : Unanswered(n) => Unanswered(n)'
BY DEF AtMostOneAnswer, Unanswered, Reply

LEMMA AnswerOnce ==
    ASSUME NEW m, NEW kind, NEW t, Reply(m, kind, t), Unanswered(m), AtMostOneAnswer
    PROVE  /\ AtMostOneAnswer'
           /\ \A n : n # m /\ Unanswered(n) => Unanswered(n)'
BY DEF AtMostOneAnswer, Unanswered, Reply

\* No request is answered twice, even if `codex queue` times out with the text
\* in, the TTL is shorter than the call, hooks are lost or overtake each
\* other, and short ids are the same.
THEOREM AnsweredOnce == Spec => []AtMostOneAnswer
<1> USE DataAssumption DEF AnswerInv, Unheld
<1>1. Init => AnswerInv
    BY DEF Init, Unanswered, AtMostOneAnswer
<1>2. TypeOK /\ AnswerInv /\ [Next]_vars => AnswerInv'
  <2> SUFFICES ASSUME TypeOK, AnswerInv, [Next]_vars PROVE AnswerInv'
      OBVIOUS
  <2> USE DEF TypeOK, table, threads, codex, loop, history
  <2>0. ASSUME replies' = replies
        PROVE  AtMostOneAnswer' /\ \A n : Unanswered(n)' <=> Unanswered(n)
      BY <2>0 DEF Unanswered, AtMostOneAnswer
  <2>1. ASSUME UNCHANGED <<user, pending, popped, replies>> PROVE AnswerInv'
      BY <2>0, <2>1
  <2>2. ASSUME NEW m \in Msgs, UserStep(m) PROVE AnswerInv'
    <3>1. CASE Register(m)
        BY <2>0, <3>1 DEF Register
    <3>2. CASE Queued(m) \/ Refused(m) \/ Hangs(m) \/ TimesOut(m) \/ Raises(m)
        BY <2>0, <3>2 DEF Queued, Refused, Hangs, TimesOut, Raises, QueueStep
    <3>3. CASE TakeBack(m)
        BY <2>0, <3>3 DEF TakeBack
    <3>4. CASE NoteUndeliverable(m)
      <4>1. AtMostOneAnswer' /\ \A n : Unanswered(n) => Unanswered(n)'
          BY <3>4, NoteIsNoAnswer DEF NoteUndeliverable
      <4> QED
          BY <3>4, <4>1 DEF NoteUndeliverable
    <3> QED
        BY <2>2, <3>1, <3>2, <3>3, <3>4 DEF UserStep
  <2>3. ASSUME NEW t \in Turns, PopActive(t) PROVE AnswerInv'
    <3>1. CASE active \in pending
      <4>1. /\ UNCHANGED <<user, replies>> /\ pending' = pending \ {active}
            /\ \A u \in Turns : popped'[u] = IF u = t THEN active ELSE popped[u]
          BY <2>3, <3>1 DEF PopActive
      <4>2. active \in Msgs /\ Unheld(active) /\ Unanswered(active)
            /\ user[active] # "unsent"
          BY <3>1
      <4> QED
          BY <2>0, <4>1, <4>2
    <3>2. CASE active \notin pending
      <4>1. /\ UNCHANGED <<user, replies>> /\ pending' = pending
            /\ \A u \in Turns : popped'[u] = IF u = t THEN None ELSE popped[u]
          BY <2>3, <3>2 DEF PopActive
      <4> QED
          BY <2>0, <4>1
    <3> QED
        BY <3>1, <3>2
  <2>4. ASSUME NEW t \in Turns, Answer(t) PROVE AnswerInv'
    <3>1. CASE popped[t] = None
        BY <2>1, <2>4, <3>1 DEF Answer
    <3>2. CASE popped[t] # None
      <4> DEFINE m == popped[t]
      <4>1. /\ m \in Msgs /\ m \notin pending /\ Unanswered(m) /\ user[m] # "unsent"
            /\ \A u \in Turns \ {t} : popped[u] # m
          BY <3>2
      <4>2. AtMostOneAnswer' /\ \A n : n # m /\ Unanswered(n) => Unanswered(n)'
          BY <2>4, <3>2, <4>1, AnswerOnce DEF Answer
      <4>3. /\ \A u \in Turns : popped'[u] = IF u = t THEN None ELSE popped[u]
            /\ UNCHANGED <<user, pending>>
          BY <2>4 DEF Answer
      <4> QED
          BY <4>1, <4>2, <4>3
    <3> QED
        BY <3>1, <3>2
  <2>5. ASSUME NEW S \in SUBSET Msgs, Expire(S) PROVE AnswerInv'
      BY <2>0, <2>5 DEF Expire
  <2>6. ASSUME NEW m \in Msgs, NoteUnanswered(m) PROVE AnswerInv'
    <3>1. AtMostOneAnswer' /\ \A n : Unanswered(n) => Unanswered(n)'
        BY <2>6, NoteIsNoAnswer DEF NoteUnanswered
    <3> QED
        BY <2>6, <3>1 DEF NoteUnanswered
  <2>7. CASE \/ \E c \in Subs : ControlStep(c)
             \/ \E t \in Turns : \/ EndTurn(t) \/ SetBusy(t) \/ SetActive(t)
                                 \/ SetIdle(t) \/ CountPending(t) \/ TurnFires(t)
             \/ \E p \in Msgs \cup {None} : BeginTurn(p)
             \/ \E k \in Firers, c \in Subs : Tell(k, c)
             \/ CheckDrained \/ MainFires \/ BackToLoop
             \/ LeaveLoop \/ CleanupFires \/ Exit \/ Crash
             \/ UNCHANGED vars
      BY <2>1, <2>7 DEF ControlStep, Subscribe, ControlFires, TakeSubscribers,
         EndTurn, SetBusy, SetActive, SetIdle, CountPending, TurnFires,
         BeginTurn, Tell, CheckDrained, MainFires, BackToLoop,
         LeaveLoop, CleanupFires, Exit, Crash, vars
  <2> QED
      BY <2>2, <2>3, <2>4, <2>5, <2>6, <2>7 DEF Next, TurnStep, MainStep
<1>3. AnswerInv => AtMostOneAnswer
    OBVIOUS
<1> QED
    BY <1>1, <1>2, <1>3, TypeCorrect, PTL DEF Spec

(***************************************************************************)
(* With hooks in order, status, active request and answers are those of    *)
(* the turn whose frames have been handled last.                           *)
(***************************************************************************)
\* Turn t was submitted with a text that carries the marker of m.
Marked(m, t) == prompt[t] \in Msgs /\ m \in Matching[prompt[t]]

TurnInv ==
    /\ active # None => turn > 0 /\ Marked(active, turn)
    /\ \A t \in Turns : popped[t] # None => Marked(popped[t], t)
    /\ \A r \in replies : r.turn <= turn /\ (r.turn # 0 => Marked(r.msg, r.turn))
    /\ turn > 0 =>
          /\ started[turn] \in {"busied", "done"} /\ ended[turn] \in {"none", "sent"}
                 => status = "busy"
          /\ ended[turn] \notin {"none", "sent"} => status = "idle"

LEMMA PendingIdForMarked ==
    ASSUME TypeOK, NEW t \in Turns
    PROVE  PendingIdFor(prompt[t]) # None => Marked(PendingIdFor(prompt[t]), t)
BY DataAssumption DEF PendingIdFor, TypeOK, Marked

LEMMA TurnInvInductive ==
    ASSUME OrderedHooks
    PROVE  /\ Init => TurnInv
           /\ TypeOK /\ OrderInv /\ TurnInv /\ [Next]_vars => TurnInv'
<1> USE DataAssumption DEF TurnInv, Marked, Turns
<1>1. Init => TurnInv
    BY DEF Init
<1>2. TypeOK /\ OrderInv /\ TurnInv /\ [Next]_vars => TurnInv'
  <2> SUFFICES ASSUME TypeOK, OrderInv, TurnInv, [Next]_vars PROVE TurnInv'
      OBVIOUS
  <2> USE DEF TypeOK, table, threads, codex, loop, history
  <2>0. ASSUME UNCHANGED <<active, status, started, ended, turn, prompt, popped, replies>>
        PROVE  TurnInv'
      BY <2>0
  <2>1. ASSUME NEW m \in Msgs, NEW kind, Reply(m, kind, 0),
               UNCHANGED <<active, status, started, ended, turn, prompt, popped>>
        PROVE  TurnInv'
    <3>1. \A r \in replies' : r \in replies \/ r.turn = 0
        BY <2>1 DEF Reply
    <3> QED
        BY <2>1, <3>1
  <2>2. ASSUME NEW m \in Msgs, UserStep(m) PROVE TurnInv'
    <3>1. CASE NoteUndeliverable(m)
        BY <2>1, <3>1 DEF NoteUndeliverable
    <3> QED
        BY <2>0, <2>2, <3>1 DEF UserStep, Register, Queued, Refused, Hangs,
           TimesOut, Raises, QueueStep, TakeBack
  <2>3. ASSUME NEW t \in Turns, TurnStep(t) PROVE TurnInv'
    <3>0. started[t] \in {"sent", "busied"} \/ ended[t] \in {"sent", "idled"} => t = turn
      <4>1. t > turn => started[t] = "none" /\ ended[t] = "none"
          BY DEF OrderInv
      <4>2. t < turn => started[t] = "done" /\ Settled(t) /\ Popped(t)
          BY DEF OrderInv
      <4> QED
          BY <4>1, <4>2 DEF Popped
    <3>1. CASE EndTurn(t)
      <4>1. /\ t = turn /\ started[t] = "done" /\ ended[t] = "none"
            /\ ended' = [ended EXCEPT ![t] = "sent"]
            /\ UNCHANGED <<active, status, started, turn, prompt, popped, replies>>
          BY <3>1 DEF EndTurn, Sent, OrderedHooks, OrderInv
      <4>2. ended'[turn] = "sent"
          BY <4>1
      <4> QED
          BY <4>1, <4>2
    <3>2. CASE SetBusy(t)
      <4>1. /\ t = turn /\ started[t] = "sent" /\ status' = "busy"
            /\ UNCHANGED <<active, ended, turn, prompt, popped, replies>>
          BY <3>0, <3>2 DEF SetBusy
      <4>2. ended[t] = "none"
          BY <4>1 DEF OrderInv
      <4>3. started'[turn] = "busied"
          BY <3>2, <4>1 DEF SetBusy
      <4> QED
          BY <4>1, <4>2, <4>3
    <3>3. CASE SetActive(t)
      <4>1. /\ t = turn /\ started[t] = "busied" /\ started'[t] = "done"
            /\ active' = PendingIdFor(prompt[t])
            /\ UNCHANGED <<status, ended, turn, prompt, popped, replies>>
          BY <3>0, <3>3 DEF SetActive
      <4>2. active' # None => Marked(active', t)
          BY <4>1, PendingIdForMarked
      <4>3. active' # None => turn' > 0 /\ Marked(active, turn)'
          BY <4>1, <4>2 DEF Marked
      <4>4. ended'[turn'] \in {"none", "sent"} => status' = "busy"
          BY <4>1
      <4> QED
          BY <4>1, <4>3, <4>4
    <3>4. CASE SetIdle(t)
      <4>1. /\ t = turn /\ status' = "idle" /\ ended'[t] = "idled"
            /\ UNCHANGED <<active, started, turn, prompt, popped, replies>>
          BY <3>0, <3>4 DEF SetIdle
      <4> QED
          BY <4>1
    <3>5. CASE PopActive(t)
      <4>1. /\ t = turn /\ ended[t] = "idled" /\ ended'[t] = "popped" /\ active' = None
            /\ \A u \in Turns : popped'[u] \in {None, IF u = t THEN active ELSE popped[u]}
            /\ UNCHANGED <<status, started, turn, prompt, replies>>
          BY <3>0, <3>5 DEF PopActive
      <4> QED
          BY <4>1
    <3>6. CASE CountPending(t) \/ TurnFires(t)
      <4>1. /\ ended[t] \in {"popped", "firing"} /\ ended'[t] \in {"firing", "telling"}
            /\ \A u \in Turns \ {t} : ended'[u] = ended[u]
            /\ UNCHANGED <<active, status, started, turn, prompt, popped, replies>>
          BY <3>6 DEF CountPending, TurnFires, TakeSubscribers
      <4>2. CASE t = turn
        <5>1. status = "idle"
            BY <4>1, <4>2
        <5> QED
            BY <4>1, <4>2, <5>1
      <4>3. CASE t # turn
        <5>1. turn > 0 => ended'[turn] = ended[turn]
            BY <4>1, <4>3
        <5> QED
            BY <4>1, <5>1
      <4> QED
          BY <4>2, <4>3
    <3>7. CASE Answer(t)
      <4>1. /\ ended[t] = "telling" /\ ended'[t] = "done"
            /\ \A u \in Turns \ {t} : ended'[u] = ended[u]
            /\ \A u \in Turns : popped'[u] \in {None, popped[u]}
            /\ UNCHANGED <<active, status, started, turn, prompt>>
          BY <3>7 DEF Answer
      <4>2. t <= turn
        <5>1. t > turn => ended[t] = "none"
            BY DEF OrderInv
        <5> QED
            BY <4>1, <5>1
      <4>3. \A r \in replies' : r \in replies \/ (r.turn = t /\ Marked(r.msg, t))
          BY <3>7 DEF Answer, Reply
      <4>4. \A r \in replies' : r.turn <= turn /\ (r.turn # 0 => Marked(r.msg, r.turn))
          BY <4>2, <4>3
      <4> QED
          BY <4>1, <4>4
    <3> QED
        BY <2>3, <3>1, <3>2, <3>3, <3>4, <3>5, <3>6, <3>7 DEF TurnStep
  <2>4. ASSUME NEW p \in Msgs \cup {None}, BeginTurn(p) PROVE TurnInv'
    <3>1. /\ turn' = turn + 1 /\ turn + 1 \in Turns
          /\ started'[turn + 1] = "sent" /\ ended'[turn + 1] = "none"
          /\ \A t \in Turns : t <= turn => prompt'[t] = prompt[t]
          /\ UNCHANGED <<active, status, popped, replies>>
        BY <2>4 DEF BeginTurn, Sent, OrderedHooks, OrderInv
    <3>2. active = None
        BY <2>4 DEF BeginTurn, OrderedHooks, OrderInv, Popped, Settled
    <3>3. \A t \in Turns : popped[t] # None => t <= turn
      <4>1. \A t \in Turns : t > turn => ~Popped(t)
          BY DEF OrderInv, Popped
      <4>2. \A t \in Turns : popped[t] # None => Popped(t)
          BY DEF OrderInv
      <4> QED
          BY <4>1, <4>2
    <3>4. \A r \in replies' : r.turn <= turn' /\ (r.turn # 0 => Marked(r.msg, r.turn)')
      <4>1. \A r \in replies : r.turn \in 0..MaxTurns
          OBVIOUS
      <4> QED
          BY <3>1, <4>1
    <3> QED
        BY <3>1, <3>2, <3>3, <3>4
  <2>5. ASSUME NEW m \in Msgs, NoteUnanswered(m) PROVE TurnInv'
      BY <2>1, <2>5 DEF NoteUnanswered
  <2>6. CASE \/ \E c \in Subs : ControlStep(c)
             \/ \E k \in Firers, c \in Subs : Tell(k, c)
             \/ \E S \in SUBSET Msgs : Expire(S)
             \/ CheckDrained \/ MainFires \/ BackToLoop
             \/ LeaveLoop \/ CleanupFires \/ Exit \/ Crash
             \/ UNCHANGED vars
      BY <2>0, <2>6 DEF ControlStep, Subscribe, ControlFires, TakeSubscribers,
         Tell, Expire, CheckDrained, MainFires, BackToLoop,
         LeaveLoop, CleanupFires, Exit, Crash, vars
  <2> QED
      BY <2>2, <2>3, <2>4, <2>5, <2>6 DEF Next, MainStep
<1> QED
    BY <1>1, <1>2

LEMMA TurnInvAlways ==
    ASSUME OrderedHooks
    PROVE  Spec => []TurnInv
BY OrderInvInductive, TurnInvInductive, TypeCorrect, PTL DEF Spec

\* Short ids tell the messages apart.
DistinctMarkers == \A m, n \in Msgs : m \in Matching[n] => m = n

\* "Prompts typed by a human carry no marker and are never forwarded", when
\* hooks are handled in order, whatever `codex queue` does and however short
\* the ids are; out of order they may be (bug_human_turn_forwarded).
THEOREM HumanTurnsPrivate ==
    ASSUME OrderedHooks
    PROVE  Spec => []HumanTurnsStayPrivate
<1>1. TurnInv => HumanTurnsStayPrivate
    BY DataAssumption DEF TurnInv, Marked, HumanTurnsStayPrivate
<1> QED
    BY <1>1, TurnInvAlways, PTL

\* What is forwarded for a request is the final message of the turn that was
\* submitted with it, when hooks are handled in order and short ids differ.
THEOREM OwnAnswer ==
    ASSUME OrderedHooks, DistinctMarkers
    PROVE  Spec => []AnswerFromOwnTurn
<1>1. TypeOK /\ TurnInv => AnswerFromOwnTurn
    BY DEF TypeOK, TurnInv, Marked, DistinctMarkers, AnswerFromOwnTurn
<1> QED
    BY <1>1, TurnInvAlways, TypeCorrect, PTL

\* When a turn's frames have been handled, the status says whether Codex is
\* working, and the active request is that turn's.
THEOREM StatusTrue ==
    ASSUME OrderedHooks, DistinctMarkers
    PROVE  Spec => []StatusTracksTurn
<1>1. TypeOK /\ OrderInv /\ TurnInv => StatusTracksTurn
    BY DEF TypeOK, OrderInv, TurnInv, Marked, DistinctMarkers, StatusTracksTurn,
       Popped, Turns, EndedStates
<1> QED
    BY <1>1, OrderInvInductive, TurnInvAlways, TypeCorrect, PTL DEF Spec

(***************************************************************************)
(* No request is lost on the way, whatever the queue, the hooks and the    *)
(* expiry do: what EveryRequestSettled promises for the end is still owed. *)
(***************************************************************************)

\* Somebody in the bridge still has the request: it is pending, or a thread
\* that has taken it out of the table is about to tell its sender.
InHand(m) ==
    \/ m \in pending \cup stale
    \/ user[m] = "noting"
    \/ \E t \in Turns : popped[t] = m

ToldOf(m) == \E r \in replies : r.msg = m

NoRequestLost == \A m \in Msgs \ NoReply : user[m] # "unsent" => InHand(m) \/ ToldOf(m)

LEMMA ReplyTells ==
    ASSUME NEW m, NEW kind, NEW t, Reply(m, kind, t),
           NEW n \in Msgs \ NoReply, ToldOf(n) \/ n = m
    PROVE  ToldOf(n)'
<1>1. CASE m \in NoReply
    BY <1>1 DEF Reply, ToldOf
<1>2. CASE m \notin NoReply
  <2> DEFINE s == [msg |-> m, kind |-> kind, turn |-> t]
  <2>1. replies' = replies \cup {s} /\ s.msg = m
      BY <1>2 DEF Reply
  <2> HIDE DEF s
  <2> QED
      BY <2>1 DEF ToldOf
<1> QED
    BY <1>1, <1>2

\* Nothing that is taken out of the table overwrites what was taken before.
HandInv ==
    /\ NoRequestLost
    /\ main \notin {"noting", "down"} => stale = {}
    /\ \A t \in Turns : popped[t] # None => Popped(t)

\* Every request is pending, in the hands of the one thread that is about to
\* answer it or to say why not, or settled: none falls between the turn's end,
\* the expiry and the failed `codex queue`.
THEOREM RequestsKept == Spec => []NoRequestLost
<1> USE DataAssumption DEF HandInv, NoRequestLost, InHand, ToldOf
<1>1. Init => HandInv
    BY DEF Init
<1>2. TypeOK /\ HandInv /\ [Next]_vars => HandInv'
  <2> SUFFICES ASSUME TypeOK, HandInv, [Next]_vars PROVE HandInv'
      OBVIOUS
  <2> USE DEF TypeOK, table, threads, codex, loop, history
  <2>0. ASSUME UNCHANGED <<pending, stale, user, popped, replies, main>>,
               \A t \in Turns : Popped(t) => Popped(t)'
        PROVE  HandInv'
      BY <2>0
  <2>1. ASSUME NEW m \in Msgs, UserStep(m) PROVE HandInv'
    <3>1. CASE Register(m)
        BY <3>1 DEF Register, Popped
    <3>2. CASE Queued(m) \/ Refused(m) \/ Hangs(m) \/ TimesOut(m) \/ Raises(m)
        BY <3>2 DEF Queued, Refused, Hangs, TimesOut, Raises, QueueStep, Popped
    <3>3. CASE TakeBack(m)
        BY <3>3 DEF TakeBack, Popped
    <3>4. CASE NoteUndeliverable(m)
      <4>1. \A n \in Msgs \ NoReply : ToldOf(n) \/ n = m => ToldOf(n)'
          BY <3>4, ReplyTells DEF NoteUndeliverable
      <4> QED
          BY <3>4, <4>1 DEF NoteUndeliverable, Popped
    <3> QED
        BY <2>1, <3>1, <3>2, <3>3, <3>4 DEF UserStep
  <2>2. ASSUME NEW t \in Turns, TurnStep(t) PROVE HandInv'
    <3>1. CASE EndTurn(t) \/ SetBusy(t) \/ SetActive(t) \/ SetIdle(t)
               \/ CountPending(t) \/ TurnFires(t)
        BY <2>0, <3>1 DEF EndTurn, SetBusy, SetActive, SetIdle, CountPending, TurnFires,
           TakeSubscribers, Popped
    <3>2. CASE PopActive(t)
      <4>1. popped[t] = None /\ active \in Msgs \cup {None}
          BY <3>2 DEF PopActive, Popped
      <4>2. /\ \A u \in Turns : popped'[u] = IF u # t THEN popped[u]
                                            ELSE IF active \in pending THEN active ELSE None
            /\ \A u \in Turns : ended'[u] = IF u = t THEN "popped" ELSE ended[u]
            /\ pending' = pending \ {active}
            /\ UNCHANGED <<stale, user, replies, main>>
          BY <3>2 DEF PopActive
      <4>3. ASSUME NEW m \in Msgs, InHand(m) PROVE InHand(m)'
        <5>1. CASE m \in pending /\ m = active
            BY <4>2, <5>1
        <5>2. CASE m \in pending \ {active} \/ m \in stale \/ user[m] = "noting"
            BY <4>2, <5>2
        <5>3. CASE \E u \in Turns : popped[u] = m
            BY <4>1, <4>2, <5>3
        <5> QED
            BY <4>3, <5>1, <5>2, <5>3
      <4>4. \A u \in Turns : popped'[u] # None => Popped(u)'
          BY <4>2 DEF Popped
      <4> QED
          BY <4>2, <4>3, <4>4
    <3>3. CASE Answer(t)
      <4>1. /\ \A u \in Turns : popped'[u] = IF u = t THEN None ELSE popped[u]
            /\ \A u \in Turns : ended'[u] = IF u = t THEN "done" ELSE ended[u]
            /\ UNCHANGED <<pending, stale, user, main>>
          BY <3>3 DEF Answer
      <4>2. \A n \in Msgs \ NoReply : ToldOf(n) \/ popped[t] = n => ToldOf(n)'
        <5>1. CASE popped[t] = None
            BY <3>3, <5>1 DEF Answer
        <5>2. CASE popped[t] # None
          <6>1. Reply(popped[t], ending[t], t)
              BY <3>3, <5>2 DEF Answer
          <6> QED
              BY <6>1, ReplyTells
        <5> QED
            BY <5>1, <5>2
      <4>3. ASSUME NEW n \in Msgs \ NoReply, InHand(n) PROVE InHand(n)' \/ ToldOf(n)'
          BY <4>1, <4>2, <4>3
      <4>4. \A u \in Turns : popped'[u] # None => Popped(u)'
          BY <4>1 DEF Popped
      <4> QED
          BY <4>1, <4>2, <4>3, <4>4
    <3> QED
        BY <2>2, <3>1, <3>2, <3>3 DEF TurnStep
  <2>3. ASSUME NEW S \in SUBSET Msgs, Expire(S) PROVE HandInv'
      BY <2>3 DEF Expire, Popped
  <2>4. ASSUME NEW m \in Msgs, NoteUnanswered(m) PROVE HandInv'
    <3>1. \A n \in Msgs \ NoReply : ToldOf(n) \/ n = m => ToldOf(n)'
        BY <2>4, ReplyTells DEF NoteUnanswered
    <3> QED
        BY <2>4, <3>1 DEF NoteUnanswered, Popped
  <2>5. CASE CheckDrained \/ MainFires \/ BackToLoop \/ LeaveLoop \/ CleanupFires
             \/ Exit \/ Crash
      BY <2>5 DEF CheckDrained, MainFires, BackToLoop, LeaveLoop, CleanupFires,
         Exit, Crash, TakeSubscribers, Popped
  <2>6. CASE \/ \E c \in Subs : ControlStep(c)
             \/ \E k \in Firers, c \in Subs : Tell(k, c)
             \/ \E p \in Msgs \cup {None} : BeginTurn(p)
             \/ UNCHANGED vars
      BY <2>0, <2>6 DEF ControlStep, Subscribe, ControlFires, TakeSubscribers,
         Tell, BeginTurn, vars, Popped
  <2> QED
      BY <2>1, <2>2, <2>3, <2>4, <2>5, <2>6 DEF Next, MainStep
<1>3. HandInv => NoRequestLost
    OBVIOUS
<1> QED
    BY <1>1, <1>2, <1>3, TypeCorrect, PTL DEF Spec

(***************************************************************************)
(* No subscriber is lost on the way: the same for EverySubscriberTold.     *)
(***************************************************************************)

\* A later subscription has taken its place at its socket.
Replaced(c) == \E d \in Subs \ {c} : SubSock[d] = SubSock[c] /\ control[d] # "unsent"

\* In the table, or on the list of a thread that is telling.
Awaited(c) == c \in subscriptions \/ \E k \in Firers : c \in taken[k]

NoSubscriberLost ==
    \A c \in Subs : control[c] # "unsent" =>
        Awaited(c) \/ Replaced(c) \/ \E n \in notices : n.sub = c

\* No thread takes the table over while it still has a list of its own.
ListInv ==
    /\ NoSubscriberLost
    /\ \A c \in Subs : taken[c] # {} => control[c] = "done"
    /\ \A t \in Turns : taken[t] # {} => ended[t] = "telling"
    /\ taken[Main] # {} => main \in {"telling", "farewell", "down"}

LEMMA TakeKeepsSubscribers ==
    ASSUME TypeOK, NoSubscriberLost, NEW k \in Firers, TakeSubscribers(k), taken[k] = {},
           \A c \in Subs : control'[c] # "unsent" <=> control[c] # "unsent"
    PROVE  NoSubscriberLost'
<1>1. /\ \A l \in Firers : taken'[l] = IF l = k THEN subscriptions ELSE taken[l]
      /\ notices' = notices
    BY DEF TakeSubscribers, TypeOK, history
<1>2. ASSUME NEW c \in Subs, Awaited(c) PROVE Awaited(c)'
  <2>1. CASE c \in subscriptions
      BY <1>1, <2>1 DEF Awaited
  <2>2. ASSUME NEW l \in Firers, c \in taken[l] PROVE Awaited(c)'
      BY <1>1, <2>2 DEF Awaited
  <2> QED
      BY <1>2, <2>1, <2>2 DEF Awaited
<1>3. \A c \in Subs : Replaced(c) => Replaced(c)'
    BY DEF Replaced
<1> QED
    BY <1>1, <1>2, <1>3 DEF NoSubscriberLost

\* Every subscriber waits in the table, is on the list of the one thread that
\* is telling, has been told, or was replaced at its socket: taking the table
\* over and clearing it loses nobody, whichever threads fire at once.
THEOREM SubscribersKept == Spec => []NoSubscriberLost
<1> USE DataAssumption DEF ListInv, Main, Firers
<1>0. /\ Main \in Firers /\ \A t \in Turns : t \in Firers /\ t \notin Subs /\ t # Main
      /\ \A c \in Subs : c \in Firers /\ c # Main
    BY DEF Turns
<1>1. Init => ListInv
    BY DEF Init, NoSubscriberLost
<1>2. TypeOK /\ ListInv /\ [Next]_vars => ListInv'
  <2> SUFFICES ASSUME TypeOK, ListInv, [Next]_vars PROVE ListInv'
      OBVIOUS
  <2> USE DEF table, threads, codex, loop, history
  <2>0. ASSUME UNCHANGED <<subscriptions, taken, notices, control>>
        PROVE  NoSubscriberLost'
      BY <2>0 DEF NoSubscriberLost, Awaited, Replaced
  <2>1. ASSUME NEW c \in Subs, Subscribe(c) PROVE ListInv'
    <3>1. /\ control[c] = "unsent" /\ \A d \in Subs \ {c} : control'[d] = control[d]
          /\ control'[c] # "unsent"
          /\ subscriptions' = {d \in subscriptions : SubSock[d] # SubSock[c]} \cup {c}
          /\ UNCHANGED <<taken, notices, ended, main>>
        BY <2>1 DEF Subscribe, TypeOK
    <3>2. ASSUME NEW d \in Subs, control'[d] # "unsent"
          PROVE  Awaited(d)' \/ Replaced(d)' \/ \E n \in notices' : n.sub = d
      <4>1. CASE d = c
          BY <3>1, <4>1 DEF Awaited
      <4>2. CASE d # c /\ SubSock[d] = SubSock[c]
          BY <3>1, <4>2 DEF Replaced
      <4>3. CASE d # c /\ SubSock[d] # SubSock[c]
        <5>1. Awaited(d) \/ Replaced(d) \/ \E n \in notices : n.sub = d
            BY <3>1, <3>2, <4>3 DEF NoSubscriberLost
        <5>2. Replaced(d) => Replaced(d)'
            BY <3>1 DEF Replaced
        <5>3. Awaited(d) => Awaited(d)'
            BY <3>1, <4>3 DEF Awaited, TypeOK
        <5> QED
            BY <3>1, <5>1, <5>2, <5>3
      <4> QED
          BY <4>1, <4>2, <4>3
    <3>3. \A d \in Subs : taken'[d] # {} => control'[d] = "done"
        BY <3>1
    <3> QED
        BY <3>1, <3>2, <3>3 DEF NoSubscriberLost
  <2>2. ASSUME NEW c \in Subs, ControlFires(c) PROVE ListInv'
    <3>1. /\ control[c] = "firing" /\ control' = [control EXCEPT ![c] = "done"]
          /\ TakeSubscribers(c) /\ UNCHANGED <<ended, main>>
          /\ \A l \in Firers : taken'[l] = IF l = c THEN subscriptions ELSE taken[l]
        BY <2>2 DEF ControlFires, TakeSubscribers, TypeOK
    <3>2. taken[c] = {}
        BY <3>1
    <3>3. \A d \in Subs : control'[d] = IF d = c THEN "done" ELSE control[d]
        BY <3>1 DEF TypeOK
    <3>6. \A d \in Subs : control'[d] # "unsent" <=> control[d] # "unsent"
        BY <3>1, <3>3
    <3>7. c \in Firers /\ NoSubscriberLost
        BY <1>0
    <3>4. NoSubscriberLost'
        BY <3>1, <3>2, <3>6, <3>7, TakeKeepsSubscribers
    <3>5. \A t \in Turns : taken'[t] = taken[t]
        BY <1>0, <3>1
    <3> QED
        BY <1>0, <3>1, <3>3, <3>4, <3>5
  <2>3. ASSUME NEW t \in Turns, TurnFires(t) PROVE ListInv'
    <3>1. /\ ended[t] = "firing" /\ TakeSubscribers(t) /\ UNCHANGED <<control, main>>
          /\ \A u \in Turns : ended'[u] = IF u = t THEN "telling" ELSE ended[u]
          /\ \A l \in Firers : taken'[l] = IF l = t THEN subscriptions ELSE taken[l]
        BY <1>0, <2>3 DEF TurnFires, TakeSubscribers, TypeOK
    <3>2. taken[t] = {}
        BY <3>1
    <3>4. NoSubscriberLost'
        BY <1>0, <3>1, <3>2, TakeKeepsSubscribers
    <3>5. \A c \in Subs \cup {Main} : taken'[c] = taken[c]
        BY <1>0, <3>1
    <3>6. \A u \in Turns : taken'[u] # {} => ended'[u] = "telling"
        BY <3>1
    <3> QED
        BY <3>1, <3>4, <3>5, <3>6
  <2>4. ASSUME MainFires \/ CleanupFires PROVE ListInv'
    <3>1. /\ main \in {"firing", "cleanup"} /\ main' \in {"telling", "farewell"}
          /\ TakeSubscribers(Main) /\ UNCHANGED <<control, ended>>
          /\ \A l \in Firers : taken'[l] = IF l = Main THEN subscriptions ELSE taken[l]
        BY <1>0, <2>4 DEF MainFires, CleanupFires, TakeSubscribers, TypeOK
    <3>2. taken[Main] = {}
        BY <3>1
    <3>4. NoSubscriberLost'
        BY <1>0, <3>1, <3>2, TakeKeepsSubscribers
    <3>5. \A k \in Subs \cup Turns : taken'[k] = taken[k]
        BY <1>0, <3>1
    <3> QED
        BY <3>1, <3>4, <3>5
  <2>5. ASSUME NEW k \in Firers, NEW c \in Subs, Tell(k, c) PROVE ListInv'
    <3>1. /\ \A l \in Firers : taken'[l] = IF l = k THEN taken[k] \ {c} ELSE taken[l]
          /\ \E n \in notices' : n.sub = c
          /\ notices \subseteq notices'
          /\ UNCHANGED <<subscriptions, control, ended, main>>
      <4>1. PICK s \in {"exited", "idle"} :
                notices' = notices \cup {[sub |-> c, by |-> k, state |-> s]}
          BY <2>5 DEF Tell
      <4> DEFINE notice == [sub |-> c, by |-> k, state |-> s]
      <4>5. notice.sub = c
          OBVIOUS
      <4>2. /\ taken' = [taken EXCEPT ![k] = taken[k] \ {c}]
            /\ UNCHANGED <<subscriptions, control, ended, main>>
          BY <2>5 DEF Tell
      <4>6. notices' = notices \cup {notice}
          BY <4>1
      <4>3. notices \subseteq notices' /\ \E n \in notices' : n.sub = c
        <5> HIDE DEF notice
        <5> QED
            BY <4>5, <4>6
      <4>4. taken \in [Firers -> SUBSET Subs]
          BY DEF TypeOK
      <4> HIDE DEF Firers
      <4> QED
          BY <2>5, <4>2, <4>3, <4>4
    <3>2. ASSUME NEW d \in Subs, d # c, Awaited(d) PROVE Awaited(d)'
      <4>1. CASE d \in subscriptions
          BY <3>1, <4>1 DEF Awaited
      <4>2. ASSUME NEW l \in Firers, d \in taken[l] PROVE Awaited(d)'
          BY <3>1, <3>2, <4>2 DEF Awaited
      <4> QED
          BY <3>2, <4>1, <4>2 DEF Awaited
    <3>3. \A d \in Subs : Replaced(d) => Replaced(d)'
        BY <3>1 DEF Replaced
    <3>4. NoSubscriberLost'
        BY <3>1, <3>2, <3>3 DEF NoSubscriberLost
    <3>5. \A l \in Firers : taken'[l] # {} => taken[l] # {}
        BY <3>1
    <3> QED
        BY <1>0, <3>1, <3>4, <3>5
  <2>6. ASSUME NEW t \in Turns, UNCHANGED <<subscriptions, taken, notices, control, main>>,
               \A u \in Turns : ended[u] # ended'[u] => u = t /\ taken[t] = {}
        PROVE  ListInv'
      BY <2>0, <2>6
  <2>7. ASSUME NEW t \in Turns, TurnStep(t), ~TurnFires(t) PROVE ListInv'
    <3>1. /\ UNCHANGED <<subscriptions, taken, notices, control, main>>
          /\ \A u \in Turns \ {t} : ended'[u] = ended[u]
          /\ ended'[t] # ended[t] => ended[t] # "telling" \/ taken[t] = {}
        BY <2>7 DEF TurnStep, EndTurn, SetBusy, SetActive, SetIdle, PopActive, CountPending,
           Answer, TypeOK
    <3> QED
        BY <2>6, <3>1
  <2>8. CASE CheckDrained \/ BackToLoop \/ LeaveLoop \/ Exit \/ Crash
    <3>1. /\ UNCHANGED <<subscriptions, taken, notices, control, ended>>
          /\ taken[Main] # {} => main' \in {"telling", "farewell", "down"}
        BY <2>8 DEF CheckDrained, BackToLoop, LeaveLoop, Exit, Crash
    <3> QED
        BY <2>0, <3>1
  <2>9. CASE \/ \E m \in Msgs : UserStep(m) \/ NoteUnanswered(m)
             \/ \E S \in SUBSET Msgs : Expire(S)
             \/ \E p \in Msgs \cup {None} : BeginTurn(p)
             \/ UNCHANGED vars
    <3>1. /\ UNCHANGED <<subscriptions, taken, notices, control, ended>>
          /\ main' = main \/ main = "loop"
        BY <2>9 DEF UserStep, Register, Queued, Refused, Hangs, TimesOut, Raises, QueueStep,
           TakeBack, NoteUndeliverable, NoteUnanswered, Expire, BeginTurn, vars
    <3> QED
        BY <2>0, <3>1
  <2> QED
      BY <2>1, <2>2, <2>3, <2>4, <2>5, <2>7, <2>8, <2>9 DEF Next, ControlStep, MainStep
<1>3. ListInv => NoSubscriberLost
    OBVIOUS
<1> QED
    BY <1>1, <1>2, <1>3, TypeCorrect, PTL DEF Spec
=============================================================================
