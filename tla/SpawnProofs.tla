----------------------------- MODULE SpawnProofs -----------------------------
(***************************************************************************)
(* What `cxpeer spawn` types and what it waits for, for any number of      *)
(* spawns and other sessions, any order of dialogs and however late Codex  *)
(* reads what is typed.                                                    *)
(***************************************************************************)
EXTENDS Spawn, TLAPS

-----------------------------------------------------------------------------
(* The invariant.                                                          *)

\* A dialog that has been left was answered, and does not come back.
DialogInv(s) ==
    /\ past[s] \subseteq answered[s]
    /\ todo[s] \cap answered[s] = {}
    /\ codex[s] \notin todo[s]
    /\ codex[s] = "none" => answered[s] = {}

\* What has been typed and not read: nothing, or the answer to the dialog that
\* is up; once the input box is up, no answer to a dialog.
KeysInv(s) ==
    /\ codex[s] \in {"none", "loading"} => keys[s] = <<>>
    /\ codex[s] \in Dialogs =>
           keys[s] = IF codex[s] \in answered[s] THEN <<codex[s]>> ELSE <<>>
    /\ codex[s] \in {"input", "working"} =>
           \A n \in DOMAIN keys[s] : keys[s][n] \notin Dialogs

\* Where spawn is tells what it has seen of Codex.
WhereInv(s) ==
    /\ spawn[s] \in {"idle", "starting", "refused"} <=> codex[s] = "none"
    /\ spawn[s] = "typed" => codex[s] \in {"input", "working"}

SpawnInv ==
    /\ SpawnTypeOK /\ NoStrayKeys
    /\ \A s \in Spawns : DialogInv(s) /\ KeysInv(s) /\ WhereInv(s)

LEMMA SpawnInitGood == SpawnInit => SpawnInv
<1> SUFFICES ASSUME SpawnInit PROVE SpawnInv
    OBVIOUS
<1> USE SpawnAssumption DEF SpawnInit
<1>1. SpawnTypeOK
      BY DEF SpawnTypeOK, SpawnEnded, Sessions
<1>2. NoStrayKeys
      BY DEF NoStrayKeys
<1>3. \A s \in Spawns : DialogInv(s) /\ KeysInv(s)
      BY DEF DialogInv, KeysInv, Dialogs
<1>4. \A s \in Spawns : WhereInv(s)
      BY DEF WhereInv
<1> QED BY <1>1, <1>2, <1>3, <1>4 DEF SpawnInv

-----------------------------------------------------------------------------
(* The steps.                                                              *)

\* Of all that may be on the screen, spawn answers the dialog that is up.
LEMMA AnswersWhatIsUp ==
    ASSUME NEW s \in Spawns, DialogInv(s), NEW screen \in Screens(s),
           NEW d \in ToAnswer(screen, answered[s])
    PROVE  d = codex[s] /\ codex[s] \in Dialogs /\ codex[s] \notin answered[s]
<1>1. d \in screen \ answered[s]
      BY DEF ToAnswer
<1>2. PICK old \in SUBSET past[s] : screen = old \cup ({codex[s]} \cap Dialogs)
      BY DEF Screens
<1> QED BY <1>1, <1>2 DEF DialogInv

\* The types, in groups of variables that no step mixes.
PlaceType ==
    /\ spawn \in [Spawns -> SpawnEnded \cup {"idle", "starting", "dialogs",
                                             "typed", "looking"}]
    /\ codex \in [Spawns -> Dialogs \cup {"none", "loading", "input", "working"}]
    /\ box \in [Spawns -> {"empty", "READY"}]
    /\ patient \in [Spawns -> BOOLEAN]
DialogType ==
    /\ answered \in [Spawns -> SUBSET Dialogs]
    /\ todo \in [Spawns -> SUBSET Dialogs] /\ past \in [Spawns -> SUBSET Dialogs]
KeysType == keys \in [Spawns -> Seq(Keys)] /\ stray \subseteq Spawns
FileType ==
    /\ reported \in [Spawns -> Sessions \cup {NoSession}]
    /\ files \subseteq Sessions
ClockType ==
    /\ start \in [Spawns -> 0..MaxNow] /\ started \in [Sessions -> 0..MaxNow]
    /\ now \in 0..MaxNow

LEMMA SpawnTypeInParts ==
    SpawnTypeOK <=> PlaceType /\ DialogType /\ KeysType /\ FileType /\ ClockType
BY Zenon DEF SpawnTypeOK, PlaceType, DialogType, KeysType, FileType, ClockType

LEMMA PlaceStep == PlaceType /\ DialogType /\ [SpawnNext]_spawnVars => PlaceType'
<1> SUFFICES ASSUME PlaceType, DialogType, [SpawnNext]_spawnVars PROVE PlaceType'
    OBVIOUS
<1> USE DEF SpawnAt, theSpawn, theCodex, PlaceType, SpawnEnded
<1>1. ASSUME NEW s \in Spawns, HasSession(s) \/ NewSession(s) PROVE PlaceType'
      BY <1>1 DEF HasSession, NewSession
<1>2. ASSUME NEW s \in Spawns, AnswerDialog(s) \/ SeeInputBox(s) \/ PressEnter(s)
      PROVE  PlaceType'
      BY <1>2 DEF AnswerDialog, SeeInputBox, PressEnter
<1>3. ASSUME NEW s \in Spawns, FindBridge(s) \/ TimedOut(s) PROVE PlaceType'
      BY <1>3 DEF FindBridge, TimedOut
<1>4. ASSUME NEW s \in Spawns, ShowNext(s) PROVE PlaceType'
  <2>1. \E d \in Dialogs \cup {"working", "input"} : codex' = [codex EXCEPT ![s] = d]
        BY <1>4 DEF ShowNext, DialogType
  <2> QED BY <1>4, <2>1 DEF ShowNext
<1>5. ASSUME NEW s \in Spawns, ReadKey(s) PROVE PlaceType'
      BY <1>5 DEF ReadKey
<1>6. ASSUME NEW s \in Spawns, BridgeUp(s) PROVE PlaceType'
      BY <1>6 DEF BridgeUp
<1>7. ASSUME NEW r \in Strangers, StrangerUp(r) \/ StrangerGone(r) PROVE PlaceType'
      BY <1>7 DEF StrangerUp, StrangerGone
<1>8. CASE Tick \/ UNCHANGED spawnVars
      BY <1>8 DEF Tick, spawnVars
<1> QED BY <1>1, <1>2, <1>3, <1>4, <1>5, <1>6, <1>7, <1>8 DEF SpawnNext, SpawnStep, CodexStep

LEMMA DialogStep == PlaceType /\ DialogType /\ [SpawnNext]_spawnVars => DialogType'
<1> SUFFICES ASSUME PlaceType, DialogType, [SpawnNext]_spawnVars PROVE DialogType'
    OBVIOUS
<1> USE DEF theSpawn, theCodex, DialogType
<1>1. ASSUME NEW s \in Spawns, HasSession(s) \/ NewSession(s) PROVE DialogType'
      BY <1>1 DEF HasSession, NewSession
<1>2. ASSUME NEW s \in Spawns, AnswerDialog(s) PROVE DialogType'
  <2>1. PICK screen \in Screens(s) : \E d \in ToAnswer(screen, answered[s]) :
            answered' = [answered EXCEPT ![s] = @ \cup {d}]
        BY <1>2 DEF AnswerDialog
  <2>2. PICK d \in ToAnswer(screen, answered[s]) :
            answered' = [answered EXCEPT ![s] = @ \cup {d}]
        BY <2>1
  <2>3. d \in Dialogs
        BY DEF Screens, ToAnswer
  <2> QED BY <1>2, <2>2, <2>3 DEF AnswerDialog
<1>3. ASSUME NEW s \in Spawns, SeeInputBox(s) \/ PressEnter(s) PROVE DialogType'
      BY <1>3 DEF SeeInputBox, PressEnter
<1>4. ASSUME NEW s \in Spawns, FindBridge(s) \/ TimedOut(s) PROVE DialogType'
      BY <1>4 DEF FindBridge, TimedOut
<1>5. ASSUME NEW s \in Spawns, ShowNext(s) PROVE DialogType'
      BY <1>5 DEF ShowNext
<1>6. ASSUME NEW s \in Spawns, ReadKey(s) PROVE DialogType'
  <2>1. \/ UNCHANGED past
        \/ codex[s] \in Dialogs /\ past' = [past EXCEPT ![s] = @ \cup {codex[s]}]
        BY <1>6 DEF ReadKey
  <2>2. UNCHANGED <<answered, todo>>
        BY <1>6 DEF ReadKey
  <2> QED BY <2>1, <2>2
<1>7. ASSUME NEW s \in Spawns, BridgeUp(s) PROVE DialogType'
      BY <1>7 DEF BridgeUp
<1>8. ASSUME NEW r \in Strangers, StrangerUp(r) \/ StrangerGone(r) PROVE DialogType'
      BY <1>8 DEF StrangerUp, StrangerGone
<1>9. CASE Tick \/ UNCHANGED spawnVars
      BY <1>9 DEF Tick, spawnVars
<1> QED BY <1>1, <1>2, <1>3, <1>4, <1>5, <1>6, <1>7, <1>8, <1>9 DEF SpawnNext, SpawnStep, CodexStep

LEMMA KeysStep == DialogType /\ KeysType /\ [SpawnNext]_spawnVars => KeysType'
<1> SUFFICES ASSUME DialogType, KeysType, [SpawnNext]_spawnVars PROVE KeysType'
    OBVIOUS
<1> USE DEF theSpawn, theCodex, KeysType
<1>1. ASSUME NEW s \in Spawns, HasSession(s) \/ NewSession(s) PROVE KeysType'
      BY <1>1 DEF HasSession, NewSession
<1>2. ASSUME NEW s \in Spawns, NEW k \in Keys, Type(s, k), UNCHANGED stray PROVE KeysType'
  <2>1. Append(keys[s], k) \in Seq(Keys)
        OBVIOUS
  <2> QED BY <1>2, <2>1 DEF Type
<1>3. ASSUME NEW s \in Spawns, AnswerDialog(s) PROVE KeysType'
  <2>1. PICK screen \in Screens(s) : \E d \in ToAnswer(screen, answered[s]) : Type(s, d)
        BY <1>3 DEF AnswerDialog
  <2>2. PICK d \in ToAnswer(screen, answered[s]) : Type(s, d)
        BY <2>1
  <2>3. d \in Dialogs
        BY DEF Screens, ToAnswer, DialogType
  <2>4. d \in Keys
        BY <2>3 DEF Keys
  <2> QED BY <1>2, <1>3, <2>2, <2>4 DEF AnswerDialog
<1>4. ASSUME NEW s \in Spawns, SeeInputBox(s) \/ PressEnter(s) PROVE KeysType'
  <2>1. {"READY", "Enter"} \subseteq Keys
        BY DEF Keys
  <2> QED BY <1>2, <1>4, <2>1 DEF SeeInputBox, PressEnter
<1>5. ASSUME NEW s \in Spawns, FindBridge(s) \/ TimedOut(s) \/ ShowNext(s) PROVE KeysType'
      BY <1>5 DEF FindBridge, TimedOut, ShowNext
<1>6. ASSUME NEW s \in Spawns, ReadKey(s) PROVE KeysType'
  <2>1. keys[s] # <<>> /\ keys' = [keys EXCEPT ![s] = Tail(@)]
        BY <1>6 DEF ReadKey
  <2>2. Tail(keys[s]) \in Seq(Keys)
        BY <2>1
  <2>3. stray' \subseteq stray \cup {s}
        BY <1>6 DEF ReadKey
  <2> QED BY <2>1, <2>2, <2>3
<1>7. ASSUME NEW s \in Spawns, BridgeUp(s) PROVE KeysType'
      BY <1>7 DEF BridgeUp
<1>8. ASSUME NEW r \in Strangers, StrangerUp(r) \/ StrangerGone(r) PROVE KeysType'
      BY <1>8 DEF StrangerUp, StrangerGone
<1>9. CASE Tick \/ UNCHANGED spawnVars
      BY <1>9 DEF Tick, spawnVars
<1> QED BY <1>1, <1>3, <1>4, <1>5, <1>6, <1>7, <1>8, <1>9 DEF SpawnNext, SpawnStep, CodexStep

LEMMA FileStep == FileType /\ [SpawnNext]_spawnVars => FileType'
<1> SUFFICES ASSUME FileType, [SpawnNext]_spawnVars PROVE FileType'
    OBVIOUS
<1>0. Spawns \subseteq Sessions /\ Strangers \subseteq Sessions
      BY DEF Sessions
<1> USE <1>0 DEF theSpawn, theCodex, FileType
<1>1. ASSUME NEW s \in Spawns, HasSession(s) \/ NewSession(s) \/ AnswerDialog(s)
      PROVE  FileType'
      BY <1>1 DEF HasSession, NewSession, AnswerDialog
<1>2. ASSUME NEW s \in Spawns, SeeInputBox(s) \/ PressEnter(s) \/ TimedOut(s)
      PROVE  FileType'
      BY <1>2 DEF SeeInputBox, PressEnter, TimedOut
<1>3. ASSUME NEW s \in Spawns, FindBridge(s) PROVE FileType'
      BY <1>3 DEF FindBridge, Candidates
<1>4. ASSUME NEW s \in Spawns, ShowNext(s) \/ ReadKey(s) PROVE FileType'
      BY <1>4 DEF ShowNext, ReadKey
<1>5. ASSUME NEW s \in Spawns, BridgeUp(s) PROVE FileType'
      BY <1>5 DEF BridgeUp
<1>6. ASSUME NEW r \in Strangers, StrangerUp(r) \/ StrangerGone(r) PROVE FileType'
      BY <1>6 DEF StrangerUp, StrangerGone
<1>7. CASE Tick \/ UNCHANGED spawnVars
      BY <1>7 DEF Tick, spawnVars
<1> QED BY <1>1, <1>2, <1>3, <1>4, <1>5, <1>6, <1>7 DEF SpawnNext, SpawnStep, CodexStep

LEMMA ClockStep == ClockType /\ [SpawnNext]_spawnVars => ClockType'
<1> SUFFICES ASSUME ClockType, [SpawnNext]_spawnVars PROVE ClockType'
    OBVIOUS
<1>0. /\ Spawns \subseteq Sessions /\ Strangers \subseteq Sessions
      /\ MaxNow \in Nat
      BY SpawnAssumption DEF Sessions
<1> USE <1>0 DEF theSpawn, theCodex, ClockType
<1>1. ASSUME NEW s \in Spawns, HasSession(s) PROVE ClockType'
  <2>1. now \in Nat /\ SecondOf(now) \in 0..now
        BY DEF SecondOf
  <2>2. SecondOf(now) \in 0..MaxNow
        BY <2>1
  <2> QED BY <1>1, <2>2 DEF HasSession
<1>2. ASSUME NEW s \in Spawns, NewSession(s) \/ AnswerDialog(s) \/ SeeInputBox(s)
      PROVE  ClockType'
      BY <1>2 DEF NewSession, AnswerDialog, SeeInputBox
<1>3. ASSUME NEW s \in Spawns, PressEnter(s) \/ FindBridge(s) \/ TimedOut(s)
      PROVE  ClockType'
      BY <1>3 DEF PressEnter, FindBridge, TimedOut
<1>4. ASSUME NEW s \in Spawns, ShowNext(s) \/ ReadKey(s) PROVE ClockType'
      BY <1>4 DEF ShowNext, ReadKey
<1>5. ASSUME NEW r \in Sessions, started' = [started EXCEPT ![r] = now],
             UNCHANGED <<start, now>>
      PROVE  ClockType'
      BY <1>5
<1>6. ASSUME NEW s \in Spawns, BridgeUp(s) PROVE ClockType'
      BY <1>5, <1>6 DEF BridgeUp
<1>7. ASSUME NEW r \in Strangers, StrangerUp(r) PROVE ClockType'
      BY <1>5, <1>7 DEF StrangerUp
<1>8. ASSUME NEW r \in Strangers, StrangerGone(r) PROVE ClockType'
      BY <1>8 DEF StrangerGone
<1>9. CASE Tick
  <2>1. now \in 0..MaxNow /\ now < MaxNow /\ now' = now + 1
        BY <1>9 DEF Tick
  <2>2. now' \in 0..MaxNow /\ now <= now'
        BY <2>1
  <2>3. UNCHANGED <<start, started>>
        BY <1>9 DEF Tick
  <2>4. \A r \in Sessions : started[r] \in 0..MaxNow
        OBVIOUS
  <2> QED BY <2>1, <2>2, <2>3, <2>4
<1>10. CASE UNCHANGED spawnVars
      BY <1>10 DEF spawnVars
<1> QED BY <1>1, <1>2, <1>3, <1>4, <1>6, <1>7, <1>8, <1>9, <1>10
        DEF SpawnNext, SpawnStep, CodexStep

\* What concerns one spawn: a step of another spawn, or of a stranger, leaves it.
OneInv(s) == DialogInv(s) /\ KeysInv(s) /\ WhereInv(s)

\* A spawn's own steps, and those of the Codex it has started, keep what
\* concerns it.
LEMMA OwnStep ==
    ASSUME PlaceType, DialogType, KeysType, FileType, ClockType,
           NEW s \in Spawns, OneInv(s), NoStrayKeys,
           SpawnStep(s) \/ TimedOut(s) \/ ShowNext(s) \/ ReadKey(s)
    PROVE  OneInv(s)' /\ NoStrayKeys'
<1> USE DEF SpawnAt, theSpawn, theCodex, NoStrayKeys
<1>1. CASE HasSession(s)
  <2>1. /\ spawn'[s] \in {"refused", "starting"} /\ spawn[s] = "idle"
        /\ UNCHANGED <<answered, reported, patient, theCodex, files, started, now>>
        BY <1>1 DEF HasSession, PlaceType
  <2>2. codex[s] = "none"
        BY <2>1 DEF OneInv, WhereInv
  <2>3. WhereInv(s)'
        BY <2>1, <2>2 DEF WhereInv
  <2>4. DialogInv(s)' /\ KeysInv(s)'
        BY <2>1 DEF OneInv, DialogInv, KeysInv
  <2> QED BY <2>1, <2>3, <2>4 DEF OneInv
<1>2. CASE NewSession(s)
  <2>1. /\ spawn[s] = "starting" /\ codex[s] = "none"
        /\ UNCHANGED <<start, answered, reported, past, keys, box, stray, files,
                       started, now>>
        BY <1>2 DEF NewSession, OneInv, WhereInv
  <2>2. \/ spawn'[s] = "refused" /\ UNCHANGED <<codex, todo>>
        \/ spawn'[s] = "dialogs" /\ codex'[s] = "loading"
        BY <1>2 DEF NewSession, PlaceType
  <2>3. WhereInv(s)'
        BY <2>1, <2>2 DEF WhereInv
  <2>4. answered[s] = {} /\ past[s] = {} /\ keys[s] = <<>>
        BY <2>1 DEF OneInv, DialogInv, KeysInv
  <2>5. codex'[s] \notin todo'[s]
        BY <1>2, <2>1, <2>2 DEF NewSession, OneInv, DialogInv, DialogType, Dialogs, PlaceType
  <2>6. KeysInv(s)'
        BY <2>1, <2>2, <2>4 DEF KeysInv, Dialogs
  <2>7. DialogInv(s)'
        BY <2>1, <2>2, <2>4, <2>5 DEF DialogInv
  <2> QED BY <2>1, <2>3, <2>6, <2>7 DEF OneInv
<1>3. CASE AnswerDialog(s)
  <2>1. PICK screen \in Screens(s) : \E d \in ToAnswer(screen, answered[s]) :
            Type(s, d) /\ answered' = [answered EXCEPT ![s] = @ \cup {d}]
        BY <1>3 DEF AnswerDialog
  <2>2. PICK d \in ToAnswer(screen, answered[s]) :
            Type(s, d) /\ answered' = [answered EXCEPT ![s] = @ \cup {d}]
        BY <2>1
  <2>3. d = codex[s] /\ codex[s] \in Dialogs /\ codex[s] \notin answered[s]
        BY AnswersWhatIsUp DEF OneInv
  <2>4. keys[s] = <<>>
        BY <2>3 DEF OneInv, KeysInv
  <2>5. keys'[s] = <<codex[s]>> /\ answered'[s] = answered[s] \cup {codex[s]}
        BY <2>2, <2>3, <2>4 DEF Type, KeysType, DialogType
  <2>6. UNCHANGED <<spawn, start, reported, patient, codex, todo, past, box,
                    stray, files, started, now>>
        BY <1>3 DEF AnswerDialog
  <2>7. KeysInv(s)'
        BY <2>3, <2>5, <2>6 DEF KeysInv, Dialogs
  <2>8. DialogInv(s)'
        BY <2>3, <2>5, <2>6 DEF OneInv, DialogInv, Dialogs
  <2>9. WhereInv(s)'
        BY <2>6 DEF OneInv, WhereInv
  <2> QED BY <2>6, <2>7, <2>8, <2>9 DEF OneInv
<1>4. CASE SeeInputBox(s) \/ PressEnter(s)
  <2>1. /\ spawn[s] \in {"dialogs", "typed"} /\ spawn'[s] \in {"typed", "looking"}
        /\ codex[s] \in {"input", "working"}
        BY <1>4 DEF SeeInputBox, PressEnter, InputBoxShown, PlaceType, OneInv, WhereInv
  <2>2. UNCHANGED <<start, answered, reported, patient, codex, todo, past, box,
                    stray, files, started, now>>
        BY <1>4 DEF SeeInputBox, PressEnter
  <2>3. UNCHANGED keys \/ Type(s, "READY") \/ Type(s, "Enter")
        BY <1>4 DEF SeeInputBox, PressEnter
  <2>4. \A n \in DOMAIN keys'[s] : keys'[s][n] \notin Dialogs
    <3>1. \A n \in DOMAIN keys[s] : keys[s][n] \notin Dialogs
          BY <2>1 DEF OneInv, KeysInv
    <3>2. ASSUME NEW k \in {"READY", "Enter"}, Type(s, k)
          PROVE  \A n \in DOMAIN keys'[s] : keys'[s][n] \notin Dialogs
      <4>1. keys[s] \in Seq(Keys) /\ k \in Keys /\ k \notin Dialogs
            BY DEF KeysType, Keys, Dialogs
      <4>2. keys'[s] = Append(keys[s], k)
            BY <3>2 DEF Type, KeysType
      <4> QED BY <3>1, <4>1, <4>2
    <3> QED BY <2>3, <3>1, <3>2
  <2>5. KeysInv(s)'
        BY <2>1, <2>2, <2>4 DEF KeysInv, Dialogs
  <2>6. DialogInv(s)'
        BY <2>2 DEF OneInv, DialogInv
  <2>7. WhereInv(s)'
        BY <2>1, <2>2 DEF OneInv, WhereInv
  <2> QED BY <2>2, <2>5, <2>6, <2>7 DEF OneInv
<1>5. CASE FindBridge(s)
  <2>1. /\ spawn[s] = "looking" /\ spawn'[s] = "reported"
        /\ UNCHANGED <<start, answered, patient, theCodex, files, started, now>>
        BY <1>5 DEF FindBridge, PlaceType
  <2>2. WhereInv(s)'
        BY <2>1 DEF OneInv, WhereInv
  <2>3. DialogInv(s)' /\ KeysInv(s)'
        BY <2>1 DEF OneInv, DialogInv, KeysInv
  <2> QED BY <2>1, <2>2, <2>3 DEF OneInv
<1>6. CASE TimedOut(s)
  <2>1. /\ spawn[s] \in {"dialogs", "looking"} /\ spawn'[s] = "timed out"
        /\ UNCHANGED <<start, answered, reported, patient, theCodex, files, started, now>>
        BY <1>6 DEF TimedOut, PlaceType
  <2>2. WhereInv(s)'
        BY <2>1 DEF OneInv, WhereInv
  <2>3. DialogInv(s)' /\ KeysInv(s)'
        BY <2>1 DEF OneInv, DialogInv, KeysInv
  <2> QED BY <2>1, <2>2, <2>3 DEF OneInv
<1>7. CASE ShowNext(s)
  <2>1. /\ codex[s] = "loading" /\ keys[s] = <<>>
        /\ UNCHANGED <<theSpawn, past, keys, box, stray, files, started, now>>
        BY <1>7 DEF ShowNext, OneInv, KeysInv
  <2>2. CASE \E d \in todo[s] : /\ codex' = [codex EXCEPT ![s] = d]
                                /\ todo' = [todo EXCEPT ![s] = @ \ {d}]
    <3>1. PICK d \in todo[s] : codex'[s] = d /\ todo'[s] = todo[s] \ {d}
          BY <2>2 DEF PlaceType, DialogType
    <3>2. d \in Dialogs /\ d \notin answered[s]
          BY DEF DialogType, OneInv, DialogInv
    <3>3. KeysInv(s)'
          BY <2>1, <3>1, <3>2 DEF KeysInv, Dialogs
    <3>4. DialogInv(s)'
          BY <2>1, <3>1, <3>2 DEF OneInv, DialogInv, Dialogs
    <3>5. WhereInv(s)'
          BY <2>1, <3>1, <3>2 DEF OneInv, WhereInv, Dialogs
    <3> QED BY <2>1, <3>3, <3>4, <3>5 DEF OneInv
  <2>3. CASE /\ todo[s] = {} /\ UNCHANGED todo
             /\ codex' = [codex EXCEPT ![s] = IF s \in Prompted THEN "working" ELSE "input"]
    <3>1. codex'[s] \in {"input", "working"}
          BY <2>3 DEF PlaceType
    <3>2. KeysInv(s)'
          BY <2>1, <3>1 DEF KeysInv, Dialogs
    <3>3. DialogInv(s)'
          BY <2>1, <2>3, <3>1 DEF OneInv, DialogInv
    <3>4. WhereInv(s)'
          BY <2>1, <3>1 DEF OneInv, WhereInv
    <3> QED BY <2>1, <3>2, <3>3, <3>4 DEF OneInv
  <2> QED BY <1>7, <2>2, <2>3 DEF ShowNext
<1>8. CASE ReadKey(s)
  <2> DEFINE k == Head(keys[s])
  <2>1. /\ keys[s] # <<>> /\ keys'[s] = Tail(keys[s]) /\ keys[s] \in Seq(Keys)
        /\ UNCHANGED <<theSpawn, todo, files, started, now>>
        BY <1>8 DEF ReadKey, KeysType
  <2>2. CASE codex[s] \in Dialogs
    <3>1. codex[s] \in answered[s] /\ keys[s] = <<codex[s]>>
          BY <2>1, <2>2 DEF OneInv, KeysInv
    <3>2. k = codex[s] /\ keys'[s] = <<>>
          BY <2>1, <3>1
    <3>3. /\ codex'[s] = "loading" /\ past'[s] = past[s] \cup {codex[s]}
          /\ stray' = stray
          BY <1>8, <2>2, <3>2 DEF ReadKey, PlaceType, DialogType, Dialogs
    <3>4. KeysInv(s)'
          BY <3>2, <3>3 DEF KeysInv, Dialogs
    <3>5. DialogInv(s)'
          BY <2>1, <3>1, <3>3 DEF OneInv, DialogInv, DialogType, Dialogs
    <3>6. WhereInv(s)'
          BY <2>1, <2>2, <3>3 DEF OneInv, WhereInv, Dialogs
    <3> QED BY <3>3, <3>4, <3>5, <3>6 DEF OneInv
  <2>3. CASE codex[s] \in {"input", "working"}
    <3>1. \A n \in DOMAIN keys[s] : keys[s][n] \notin Dialogs
          BY <2>3 DEF OneInv, KeysInv
    <3>2. k \notin Dialogs
          BY <2>1, <3>1
    <3>3. \A n \in DOMAIN keys'[s] : keys'[s][n] \notin Dialogs
          BY <2>1, <3>1
    <3>4. /\ codex'[s] \in {"input", "working"} /\ UNCHANGED past
          /\ stray' = stray
          BY <1>8, <2>3, <3>2 DEF ReadKey, PlaceType, Dialogs
    <3>5. KeysInv(s)'
          BY <3>3, <3>4 DEF KeysInv, Dialogs
    <3>6. DialogInv(s)'
          BY <2>1, <3>4 DEF OneInv, DialogInv, DialogType, Dialogs
    <3>7. WhereInv(s)'
          BY <2>1, <2>3, <3>4 DEF OneInv, WhereInv
    <3> QED BY <3>4, <3>5, <3>6, <3>7 DEF OneInv
  <2> QED BY <1>8, <2>2, <2>3 DEF ReadKey, PlaceType
<1> QED BY <1>1, <1>2, <1>3, <1>4, <1>5, <1>6, <1>7, <1>8 DEF SpawnStep

\* They leave what concerns any other.
LEMMA OtherStep ==
    ASSUME PlaceType, DialogType, KeysType, FileType, ClockType,
           NEW s \in Spawns, NEW p \in Spawns, p # s, OneInv(s),
           SpawnStep(p) \/ TimedOut(p) \/ ShowNext(p) \/ ReadKey(p)
    PROVE  OneInv(s)'
<1>1. started' = started
      BY DEF SpawnStep, HasSession, NewSession, AnswerDialog, SeeInputBox,
         PressEnter, FindBridge, TimedOut, ShowNext, ReadKey
<1>2. /\ spawn'[s] = spawn[s] /\ start'[s] = start[s]
      /\ reported'[s] = reported[s]
      BY DEF SpawnStep, HasSession, NewSession, AnswerDialog, SeeInputBox,
         PressEnter, FindBridge, TimedOut, ShowNext, ReadKey, SpawnAt, theSpawn,
         PlaceType, ClockType, FileType
<1>3. codex'[s] = codex[s] /\ todo'[s] = todo[s]
      BY DEF SpawnStep, HasSession, NewSession, AnswerDialog, SeeInputBox,
         PressEnter, FindBridge, TimedOut, ShowNext, ReadKey, theCodex,
         PlaceType, DialogType
<1>4. answered'[s] = answered[s]
      BY DEF SpawnStep, HasSession, NewSession, AnswerDialog, SeeInputBox,
         PressEnter, FindBridge, TimedOut, ShowNext, ReadKey, theSpawn, DialogType
<1>5. past'[s] = past[s]
      BY DEF SpawnStep, HasSession, NewSession, AnswerDialog, SeeInputBox,
         PressEnter, FindBridge, TimedOut, ShowNext, ReadKey, theCodex, DialogType
<1>6. keys'[s] = keys[s]
      BY DEF SpawnStep, HasSession, NewSession, AnswerDialog, SeeInputBox,
         PressEnter, FindBridge, TimedOut, ShowNext, ReadKey, theCodex, Type,
         KeysType
<1> QED BY <1>1, <1>2, <1>3, <1>4, <1>5, <1>6
        DEF OneInv, DialogInv, KeysInv, WhereInv

LEMMA SpawnStepGood == SpawnInv /\ [SpawnNext]_spawnVars => SpawnInv'
<1> SUFFICES ASSUME SpawnInv, [SpawnNext]_spawnVars PROVE SpawnInv'
    OBVIOUS
<1>1. /\ PlaceType /\ DialogType /\ KeysType /\ FileType /\ ClockType
      /\ NoStrayKeys
      BY SpawnTypeInParts DEF SpawnInv
<1>2. \A s \in Spawns : OneInv(s)
      BY DEF SpawnInv, OneInv
<1>3. PlaceType' /\ DialogType' /\ KeysType' /\ FileType' /\ ClockType'
      BY <1>1, PlaceStep, DialogStep, KeysStep, FileStep, ClockStep
<1>4. SpawnTypeOK'
      BY <1>3, Zenon DEF SpawnTypeOK, PlaceType, DialogType, KeysType, FileType, ClockType
<1> DEFINE Rest == NoStrayKeys /\ \A s \in Spawns : OneInv(s)
<1>5. ASSUME NEW p \in Spawns, SpawnStep(p) \/ TimedOut(p) \/ ShowNext(p) \/ ReadKey(p)
      PROVE  Rest'
  <2>1. OneInv(p)' /\ NoStrayKeys'
        BY <1>1, <1>2, <1>5, OwnStep
  <2>2. \A s \in Spawns : s # p => OneInv(s)'
        BY <1>1, <1>2, <1>5, OtherStep
  <2> QED BY <2>1, <2>2
<1>6. ASSUME UNCHANGED <<theSpawn, theCodex>> PROVE Rest'
      BY <1>1, <1>2, <1>6 DEF theSpawn, theCodex, NoStrayKeys, OneInv, DialogInv,
         KeysInv, WhereInv
<1>7. ASSUME NEW p \in Spawns, BridgeUp(p) PROVE Rest'
      BY <1>6, <1>7 DEF BridgeUp
<1>8. ASSUME NEW r \in Strangers, StrangerUp(r) \/ StrangerGone(r) PROVE Rest'
      BY <1>6, <1>8 DEF StrangerUp, StrangerGone
<1>9. ASSUME Tick \/ UNCHANGED spawnVars PROVE Rest'
      BY <1>6, <1>9 DEF Tick, spawnVars
<1>10. Rest'
      BY <1>5, <1>7, <1>8, <1>9 DEF SpawnNext, CodexStep
<1> QED BY <1>3, <1>4, <1>10 DEF SpawnInv, OneInv

LEMMA SpawnInvAlways == SpawnSpec => []SpawnInv
BY SpawnInitGood, SpawnStepGood, PTL DEF SpawnSpec

-----------------------------------------------------------------------------
\* Each dialog gets its own answer, once, and the input box gets none, for any
\* order of the dialogs and however old the screen is that spawn looks at.
THEOREM NoKeyStrays == SpawnSpec => []NoStrayKeys
<1>1. SpawnInv => NoStrayKeys
      BY DEF SpawnInv
<1> QED BY <1>1, SpawnInvAlways, PTL

-----------------------------------------------------------------------------
(***************************************************************************)
(* Nothing that spawn waits for is lost on the way: what SpawnReports      *)
(* promises for the end is still to come.                                  *)
(***************************************************************************)

\* The prompt on its way through the keys and the input box, as far as spawn
\* has come: the text, which may stay in the box, then Enter once more.
Submitting(s) ==
    CASE spawn[s] = "dialogs" -> keys[s] = <<>> /\ box[s] = "empty"
      [] spawn[s] = "typed"   -> \/ keys[s] = <<"READY">> /\ box[s] = "empty"
                                 \/ keys[s] = <<>> /\ box[s] = "READY"
      [] spawn[s] = "looking" -> \/ keys[s] = <<"READY", "Enter">> /\ box[s] = "empty"
                                 \/ keys[s] = <<"Enter">> /\ box[s] = "READY"
      [] OTHER                -> TRUE

\* An input box comes up empty, and stays until the prompt is submitted.
BoxInv(s) ==
    /\ codex[s] \notin {"input", "working"} => box[s] = "empty"
    /\ codex[s] = "input" => s \notin Prompted /\ Submitting(s)
    /\ spawn[s] \in {"typed", "looking"} => codex[s] \in {"input", "working"}
    /\ start[s] <= now
    /\ s \in files => spawn[s] \notin {"idle", "starting", "refused"}
                      /\ started[s] >= start[s]

LEMMA BoxInit == SpawnInit => \A s \in Spawns : BoxInv(s)
<1> SUFFICES ASSUME SpawnInit, NEW s \in Spawns PROVE BoxInv(s)
    OBVIOUS
<1>1. /\ spawn[s] = "idle" /\ codex[s] = "none" /\ box[s] = "empty"
      /\ start[s] = 0 /\ now = 1 /\ s \notin files
      BY DEF SpawnInit
<1>2. start[s] <= now
      BY <1>1
<1> QED BY <1>1, <1>2 DEF BoxInv

LEMMA Appended ==
    /\ Append(<<>>, "Enter") = <<"Enter">>
    /\ Append(<<"READY">>, "Enter") = <<"READY", "Enter">>
<1>1. Append(<<>>, "Enter") = <<"Enter">>
      OBVIOUS
<1> DEFINE a == Append(<<"READY">>, "Enter")
           b == <<"READY", "Enter">>
<1>2. a \in Seq({"READY", "Enter"}) /\ b \in Seq({"READY", "Enter"})
      OBVIOUS
<1>3. Len(a) = 2 /\ a[1] = "READY" /\ a[2] = "Enter"
      OBVIOUS
<1>4. Len(b) = 2 /\ b[1] = "READY" /\ b[2] = "Enter"
      OBVIOUS
<1> HIDE DEF a, b
<1>5. a = b
      BY <1>2, <1>3, <1>4
<1> QED BY <1>1, <1>5 DEF a, b

LEMMA Tails ==
    /\ Tail(<<"READY">>) = <<>>
    /\ Tail(<<"READY", "Enter">>) = <<"Enter">>
    /\ Head(<<"Enter">>) = "Enter"
OBVIOUS

\* What the steps of one spawn and its Codex do to its own BoxInv.
LEMMA OwnBoxStep ==
    ASSUME PlaceType, DialogType, KeysType, FileType, ClockType,
           NEW s \in Spawns, OneInv(s), BoxInv(s),
           SpawnStep(s) \/ TimedOut(s) \/ ShowNext(s) \/ ReadKey(s)
    PROVE  BoxInv(s)'
<1>0. UNCHANGED <<files, started, now>>
      BY DEF SpawnStep, HasSession, NewSession, AnswerDialog, SeeInputBox,
         PressEnter, FindBridge, TimedOut, ShowNext, ReadKey
<1>1. CASE HasSession(s)
  <2>1. /\ spawn[s] = "idle" /\ spawn'[s] \in {"refused", "starting"}
        /\ UNCHANGED <<codex, keys, box>>
        BY <1>1 DEF HasSession, SpawnAt, PlaceType, theCodex
  <2>2. start'[s] = SecondOf(now) /\ SecondOf(now) <= now
        BY <1>1, SpawnAssumption DEF HasSession, ClockType, SecondOf
  <2>3. codex[s] = "none"
        BY <2>1 DEF OneInv, WhereInv
  <2> QED BY <1>0, <2>1, <2>2, <2>3 DEF BoxInv
<1>2. CASE NewSession(s)
  <2>1. /\ spawn[s] = "starting" /\ codex[s] = "none"
        /\ UNCHANGED <<start, keys, box>>
        BY <1>2 DEF NewSession, SpawnAt, OneInv, WhereInv
  <2>2. \/ spawn'[s] = "refused" /\ codex'[s] = "none"
        \/ spawn'[s] = "dialogs" /\ codex'[s] = "loading"
        BY <1>2, <2>1 DEF NewSession, SpawnAt, PlaceType
  <2> QED BY <1>0, <2>1, <2>2 DEF BoxInv
<1>3. CASE AnswerDialog(s)
  <2>1. /\ spawn[s] = "dialogs" /\ codex[s] \notin {"input", "working"}
        /\ UNCHANGED <<spawn, start, codex, box>>
        BY <1>3 DEF AnswerDialog, InputBoxShown
  <2> QED BY <1>0, <2>1 DEF BoxInv
<1>4. CASE SeeInputBox(s)
  <2>1. /\ spawn[s] = "dialogs" /\ codex[s] \in {"input", "working"}
        /\ UNCHANGED <<start, codex, box>>
        BY <1>4 DEF SeeInputBox, InputBoxShown, SpawnAt
  <2>2. CASE s \in Prompted
    <3>1. spawn'[s] = "looking"
          BY <1>4, <2>2 DEF SeeInputBox, SpawnAt, PlaceType
    <3> QED BY <1>0, <2>1, <2>2, <3>1 DEF BoxInv
  <2>3. CASE s \notin Prompted
    <3>1. spawn'[s] = "typed" /\ keys'[s] = Append(keys[s], "READY")
          BY <1>4, <2>3 DEF SeeInputBox, SpawnAt, Type, PlaceType, KeysType
    <3>2. ASSUME codex[s] = "input"
          PROVE  keys'[s] = <<"READY">> /\ box[s] = "empty"
      <4>1. keys[s] = <<>> /\ box[s] = "empty"
            BY <2>1, <3>2 DEF BoxInv, Submitting
      <4> QED BY <3>1, <4>1
    <3>3. codex'[s] = "input" => Submitting(s)'
          BY <2>1, <3>1, <3>2 DEF Submitting
    <3> QED BY <1>0, <2>1, <2>3, <3>1, <3>3 DEF BoxInv
  <2> QED BY <2>2, <2>3
<1>5. CASE PressEnter(s)
  <2>1. /\ spawn[s] = "typed" /\ spawn'[s] = "looking"
        /\ keys'[s] = Append(keys[s], "Enter")
        /\ UNCHANGED <<start, codex, box>>
        BY <1>5 DEF PressEnter, SpawnAt, Type, PlaceType, KeysType
  <2>2. codex[s] \in {"input", "working"}
        BY <2>1 DEF BoxInv
  <2>3. ASSUME codex[s] = "input" PROVE Submitting(s)'
    <3>1. \/ keys[s] = <<"READY">> /\ box[s] = "empty"
          \/ keys[s] = <<>> /\ box[s] = "READY"
          BY <2>1, <2>3 DEF BoxInv, Submitting
    <3>2. \/ keys'[s] = <<"READY", "Enter">> /\ box'[s] = "empty"
          \/ keys'[s] = <<"Enter">> /\ box'[s] = "READY"
          BY <2>1, <3>1, Appended
    <3> QED BY <2>1, <3>2 DEF Submitting
  <2> QED BY <1>0, <2>1, <2>2, <2>3 DEF BoxInv
<1>6. CASE FindBridge(s) \/ TimedOut(s)
  <2>1. /\ spawn'[s] \in {"reported", "timed out"}
        /\ spawn[s] \in {"dialogs", "looking"}
        /\ UNCHANGED <<start, codex, keys, box>>
        BY <1>6 DEF FindBridge, TimedOut, SpawnAt, theCodex, PlaceType
  <2>2. Submitting(s)'
        BY <2>1 DEF Submitting
  <2> QED BY <1>0, <2>1, <2>2 DEF BoxInv
<1>7. CASE ShowNext(s)
  <2>1. /\ codex[s] = "loading" /\ keys[s] = <<>> /\ box[s] = "empty"
        /\ UNCHANGED <<spawn, start, keys, box>>
        BY <1>7 DEF ShowNext, theSpawn, OneInv, KeysInv, BoxInv
  <2>2. \/ codex'[s] \in Dialogs
        \/ codex'[s] = IF s \in Prompted THEN "working" ELSE "input"
        BY <1>7 DEF ShowNext, PlaceType, DialogType
  <2>3. spawn[s] \notin {"typed", "looking"}
        BY <2>1 DEF BoxInv
  <2>4. Submitting(s)'
        BY <2>1, <2>3 DEF Submitting
  <2> QED BY <1>0, <2>1, <2>2, <2>3, <2>4 DEF BoxInv, Dialogs
<1>8. CASE ReadKey(s)
  <2>1. /\ keys[s] # <<>> /\ keys'[s] = Tail(keys[s])
        /\ UNCHANGED <<spawn, start>>
        BY <1>8 DEF ReadKey, KeysType, theSpawn
  <2>2. CASE codex[s] \in Dialogs
    <3>1. codex'[s] = "loading" /\ UNCHANGED box
          BY <1>8, <2>2 DEF ReadKey, PlaceType, Dialogs
    <3> QED BY <1>0, <2>1, <2>2, <3>1 DEF BoxInv, Dialogs
  <2>3. CASE codex[s] = "working"
    <3>1. codex'[s] = "working" /\ UNCHANGED box
          BY <1>8, <2>3 DEF ReadKey, PlaceType, Dialogs
    <3> QED BY <1>0, <2>1, <2>3, <3>1 DEF BoxInv
  <2>4. CASE codex[s] = "input"
    <3>1. \/ codex'[s] = "working"
          \/ /\ codex'[s] = "input" /\ Head(keys[s]) = "READY" /\ box'[s] = "READY"
          \/ /\ codex'[s] = "input" /\ Head(keys[s]) \in Dialogs
          BY <1>8, <2>4 DEF ReadKey, PlaceType, Dialogs
    <3>2. Head(keys[s]) \notin Dialogs
      <4>1. \A n \in DOMAIN keys[s] : keys[s][n] \notin Dialogs
            BY <2>4 DEF OneInv, KeysInv
      <4> QED BY <2>1, <4>1 DEF KeysType
    <3>3. CASE codex'[s] = "working"
          BY <1>0, <2>1, <2>4, <3>3 DEF BoxInv
    <3>4. CASE /\ codex'[s] = "input" /\ Head(keys[s]) = "READY" /\ box'[s] = "READY"
      <4>1. s \notin Prompted /\ Submitting(s)
            BY <2>4 DEF BoxInv
      <4>2. ASSUME spawn[s] = "dialogs" PROVE Submitting(s)'
            BY <2>1, <4>1, <4>2 DEF Submitting
      <4>3. ASSUME spawn[s] = "typed" PROVE Submitting(s)'
        <5>1. keys[s] = <<"READY">>
              BY <2>1, <4>1, <4>3 DEF Submitting
        <5>2. keys'[s] = <<>>
              BY <2>1, <5>1
        <5> QED BY <2>1, <3>4, <4>3, <5>2 DEF Submitting
      <4>4. ASSUME spawn[s] = "looking" PROVE Submitting(s)'
        <5>1. keys[s] = <<"READY", "Enter">> \/ keys[s] = <<"Enter">>
              BY <4>1, <4>4 DEF Submitting
        <5>2. keys[s] = <<"READY", "Enter">>
              BY <3>4, <5>1
        <5>3. keys'[s] = <<"Enter">>
              BY <2>1, <5>2
        <5> QED BY <2>1, <3>4, <4>4, <5>3 DEF Submitting
      <4>5. Submitting(s)'
            BY <2>1, <4>2, <4>3, <4>4 DEF Submitting
      <4> QED BY <1>0, <2>1, <2>4, <3>4, <4>1, <4>5 DEF BoxInv
    <3> QED BY <3>1, <3>2, <3>3, <3>4
  <2> QED BY <1>8, <2>2, <2>3, <2>4 DEF ReadKey, PlaceType
<1> QED BY <1>1, <1>2, <1>3, <1>4, <1>5, <1>6, <1>7, <1>8 DEF SpawnStep

\* BoxInv of a spawn is about its own variables, the files and the clock.
LEMMA OtherBoxStep ==
    ASSUME PlaceType, DialogType, KeysType, FileType, ClockType,
           NEW s \in Spawns, NEW p \in Spawns, p # s, BoxInv(s),
           SpawnStep(p) \/ TimedOut(p) \/ ShowNext(p) \/ ReadKey(p)
    PROVE  BoxInv(s)'
<1>1. UNCHANGED <<files, started, now>>
      BY DEF SpawnStep, HasSession, NewSession, AnswerDialog, SeeInputBox,
         PressEnter, FindBridge, TimedOut, ShowNext, ReadKey
<1>2. spawn'[s] = spawn[s] /\ start'[s] = start[s]
      BY DEF SpawnStep, HasSession, NewSession, AnswerDialog, SeeInputBox,
         PressEnter, FindBridge, TimedOut, ShowNext, ReadKey, SpawnAt, theSpawn,
         PlaceType, ClockType
<1>3. codex'[s] = codex[s] /\ box'[s] = box[s]
      BY DEF SpawnStep, HasSession, NewSession, AnswerDialog, SeeInputBox,
         PressEnter, FindBridge, TimedOut, ShowNext, ReadKey, theCodex, PlaceType
<1>4. keys'[s] = keys[s]
      BY DEF SpawnStep, HasSession, NewSession, AnswerDialog, SeeInputBox,
         PressEnter, FindBridge, TimedOut, ShowNext, ReadKey, theCodex, Type,
         KeysType
<1> QED BY <1>1, <1>2, <1>3, <1>4 DEF BoxInv, Submitting

LEMMA BoxStep ==
    /\ SpawnInv /\ (\A s \in Spawns : BoxInv(s)) /\ [SpawnNext]_spawnVars
    => (\A s \in Spawns : BoxInv(s))'
<1> SUFFICES ASSUME SpawnInv, \A s \in Spawns : BoxInv(s), [SpawnNext]_spawnVars,
                    NEW s \in Spawns
             PROVE  BoxInv(s)'
    OBVIOUS
<1>1. /\ PlaceType /\ DialogType /\ KeysType /\ FileType /\ ClockType /\ OneInv(s)
      BY SpawnTypeInParts DEF SpawnInv, OneInv
<1>2. ASSUME NEW p \in Spawns, SpawnStep(p) \/ TimedOut(p) \/ ShowNext(p) \/ ReadKey(p)
      PROVE  BoxInv(s)'
      BY <1>1, <1>2, OwnBoxStep, OtherBoxStep
<1>3. ASSUME NEW p \in Spawns, BridgeUp(p) PROVE BoxInv(s)'
  <2>1. /\ codex[p] = "working" /\ files' = files \cup {p}
        /\ started' = [started EXCEPT ![p] = now]
        /\ UNCHANGED <<spawn, start, codex, keys, box, now>>
        BY <1>3 DEF BridgeUp, theSpawn, theCodex
  <2>2. Submitting(s)' <=> Submitting(s)
        BY <2>1 DEF Submitting
  <2>3. CASE s = p
    <3>1. started'[s] = now /\ start[s] <= now
          BY <1>1, <2>1, <2>3 DEF BoxInv, ClockType, Sessions
    <3>2. spawn[s] \notin {"idle", "starting", "refused"}
          BY <1>1, <2>1, <2>3 DEF OneInv, WhereInv
    <3>3. now >= start[s]
          BY <1>1, <3>1, SpawnAssumption DEF ClockType
    <3> QED BY <2>1, <2>2, <3>1, <3>2, <3>3 DEF BoxInv
  <2>4. CASE s # p
    <3>1. started'[s] = started[s] /\ (s \in files' <=> s \in files)
          BY <1>1, <2>1, <2>4 DEF ClockType
    <3> QED BY <2>1, <2>2, <3>1 DEF BoxInv
  <2> QED BY <2>3, <2>4
<1>4. ASSUME NEW r \in Strangers, StrangerUp(r) \/ StrangerGone(r) PROVE BoxInv(s)'
  <2>1. r # s
        BY SpawnAssumption
  <2>2. /\ (s \in files' <=> s \in files) /\ started'[s] = started[s]
        /\ UNCHANGED <<spawn, start, codex, keys, box, now>>
        BY <1>1, <1>4, <2>1 
        DEF StrangerUp, StrangerGone, theSpawn, theCodex, ClockType, Sessions
  <2> QED BY <2>2 DEF BoxInv, Submitting
<1>5. CASE Tick
  <2>1. /\ now' = now + 1
        /\ UNCHANGED <<spawn, start, codex, keys, box, files, started>>
        BY <1>5 DEF Tick, theSpawn, theCodex
  <2>2. start[s] <= now'
        BY <1>1, <2>1, SpawnAssumption DEF BoxInv, ClockType
  <2> QED BY <2>1, <2>2 DEF BoxInv, Submitting
<1>6. CASE UNCHANGED spawnVars
      BY <1>6 DEF spawnVars, theSpawn, theCodex, BoxInv, Submitting
<1> QED BY <1>2, <1>3, <1>4, <1>5, <1>6 DEF SpawnNext, CodexStep

\* No dialog waits for an answer that was given to another, no Enter is lost,
\* and the bridge that has come is one that _find_bridge takes.
THEOREM NothingLostOnTheWay == SpawnSpec => []WaitsForWhatComes
<1>1. SpawnInv /\ (\A s \in Spawns : BoxInv(s)) => WaitsForWhatComes
  <2> SUFFICES ASSUME SpawnInv, \A s \in Spawns : BoxInv(s), NEW s \in Spawns
               PROVE  /\ spawn[s] = "dialogs" /\ codex[s] \in Dialogs =>
                             keys[s] = <<codex[s]>> \/ codex[s] \notin answered[s]
                      /\ spawn[s] = "looking" /\ codex[s] # "working" =>
                             /\ codex[s] = "input"
                             /\ \/ keys[s] = <<"READY", "Enter">> /\ box[s] = "empty"
                                \/ keys[s] = <<"Enter">> /\ box[s] = "READY"
                      /\ spawn[s] = "looking" /\ s \in files => s \in Candidates(s)
      BY DEF WaitsForWhatComes
  <2>1. KeysInv(s) /\ BoxInv(s)
        BY DEF SpawnInv
  <2>2. spawn[s] = "dialogs" /\ codex[s] \in Dialogs =>
            keys[s] = <<codex[s]>> \/ codex[s] \notin answered[s]
        BY <2>1 DEF KeysInv
  <2>3. spawn[s] = "looking" /\ codex[s] # "working" =>
            codex[s] = "input" /\ Submitting(s)
        BY <2>1 DEF BoxInv
  <2>4. s \in files => s \in Candidates(s)
        BY <2>1 DEF BoxInv, Candidates
  <2> QED BY <2>2, <2>3, <2>4 DEF Submitting
<1> QED BY <1>1, BoxInit, BoxStep, SpawnInvAlways, PTL DEF SpawnSpec
=============================================================================
