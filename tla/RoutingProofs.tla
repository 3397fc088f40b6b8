---------------------------- MODULE RoutingProofs ----------------------------
(***************************************************************************)
(* How a command finds its bridge, for every number of bridges, threads    *)
(* and commands, wherever bridges start, end and crash meanwhile.          *)
(***************************************************************************)
EXTENDS Routing, FiniteSetTheorems, NaturalsInduction, WellFoundedInduction, TLAPS

-----------------------------------------------------------------------------
(* The newest of some bridges.                                             *)

StartedType == started \in [Bridges -> 0..Cardinality(Bridges)]

\* A set of start times has a greatest one.
LEMMA NewestIs ==
    ASSUME StartedType, NEW S \in SUBSET Bridges, S # {}
    PROVE  Newest(S) \in S /\ \A c \in S : started[c] <= started[Newest(S)]
<1> DEFINE n == Cardinality(Bridges)
           mirror == {n - started[b] : b \in S}
<1>0. n \in Nat
      BY RoutingAssumption, FS_CardinalityType
<1> HIDE DEF n
<1>1. \A b \in S : started[b] \in Nat /\ started[b] <= n
      BY <1>0 DEF StartedType, n
<1>2. mirror \subseteq Nat /\ mirror # {}
      BY <1>0, <1>1
<1> HIDE DEF mirror
<1>3. PICK l \in mirror : \A m \in mirror : <<m, l>> \notin OpToRel(<, Nat)
      BY <1>2, WFMin, NatLessThanWellFounded, Zenon
<1>4. l \in Nat /\ \A m \in mirror : m \in Nat /\ ~(m < l)
      BY <1>2, <1>3, Zenon DEF OpToRel
<1>5. PICK b \in S : l = n - started[b]
      BY <1>3 DEF mirror
<1>6. ASSUME NEW c \in S PROVE started[c] <= started[b]
  <2>1. n - started[c] \in mirror
        BY DEF mirror
  <2> QED BY <1>0, <1>1, <1>4, <1>5, <2>1
<1> QED BY <1>6 DEF Newest

-----------------------------------------------------------------------------
(* The bridges and their files.                                            *)

Phases == {"unborn", "opening", "up", "leaving", "unlinked", "swept"} \cup Ended

PhaseType == phase \in [Bridges -> Phases]
StateType ==
    /\ state \in [Threads -> Bridges \cup {None}]
    /\ \A t \in Threads : state[t] # None => Thread[state[t]] = t
SnapType ==
    /\ snap \in [Threads -> Contents] /\ tmp \in [Threads -> Contents \ {"old"}]
SnapperType ==
    /\ snapper \in [Bridges -> [Snappers -> {"none", "listing", "in tmp",
                                             "in snapshot", "in nothing", "written"}]]
    /\ \A b \in Bridges : \A w \in Snappers : snapper[b][w] # "none" => Running(b)

\* A bridge that has not started has no start time.
UnbornInv == \A b \in Bridges : phase[b] = "unborn" => started[b] = 0

\* One bridge of a thread at a time.
AloneInv == \A b, c \in Bridges : Running(b) /\ Running(c) /\ Thread[b] = Thread[c] => b = c

\* The state file is that of the bridge that serves its thread, or of one that
\* has crashed.
StateInv ==
    /\ \A t \in Threads : state[t] # None => phase[state[t]] \in {"opening", "up", "leaving", "crashed"}
    /\ \A b \in Bridges : phase[b] \in {"opening", "up", "leaving"} => state[Thread[b]] = b

FilesInv ==
    /\ PhaseType /\ StartedType /\ StateType /\ SnapType /\ SnapperType
    /\ UnbornInv /\ AloneInv /\ StateInv

LEMMA FilesInitGood == Init => FilesInv
<1> SUFFICES ASSUME Init PROVE FilesInv
    OBVIOUS
<1>1. Cardinality(Bridges) \in Nat
      BY RoutingAssumption, FS_CardinalityType
<1>2. PhaseType /\ StateType /\ SnapType /\ SnapperType
      BY RoutingAssumption DEF Init, PhaseType, Phases, StateType, SnapType, SnapperType, Contents
<1>3. StartedType /\ UnbornInv
      BY <1>1 DEF Init, StartedType, UnbornInv
<1>4. AloneInv /\ StateInv
      BY RoutingAssumption DEF Init, AloneInv, StateInv, Running
<1> QED BY <1>2, <1>3, <1>4 DEF FilesInv

\* The start time given is one more than the number of earlier starts.
LEMMA StartedStart ==
    ASSUME FilesInv, NEW b \in Bridges, Start(b)
    PROVE  StartedType' /\ UnbornInv'
<1> DEFINE before == {c \in Bridges : started[c] > 0}
           n == Cardinality(before)
<1>1. IsFiniteSet(Bridges) /\ before \subseteq Bridges
      BY RoutingAssumption
<1>2. b \notin before
      BY DEF Start, FilesInv, UnbornInv
<1>3. IsFiniteSet(before) /\ n \in Nat /\ Cardinality(Bridges) \in Nat
      BY <1>1, FS_Subset, FS_CardinalityType
<1>4. Cardinality(before \cup {b}) = n + 1
      BY <1>2, <1>3, FS_AddElement
<1>5. n + 1 <= Cardinality(Bridges)
      BY <1>1, <1>4, FS_Subset
<1>6. /\ phase' = [phase EXCEPT ![b] = "opening"]
      /\ started' = [started EXCEPT ![b] = 1 + n]
      BY DEF Start
<1> HIDE DEF n, before
<1>7. 1 + n \in 0..Cardinality(Bridges)
      BY <1>3, <1>5
<1> QED BY <1>6, <1>7 DEF FilesInv, StartedType, UnbornInv, PhaseType

\* What the steps of main threads do to phases.
LEMMA FilesStepGood == FilesInv /\ [Next]_vars => FilesInv'
<1> SUFFICES ASSUME FilesInv, [Next]_vars PROVE FilesInv'
    OBVIOUS
<1>0. /\ PhaseType /\ StartedType /\ StateType /\ SnapType /\ SnapperType
      /\ UnbornInv /\ AloneInv /\ StateInv
      BY DEF FilesInv
<1>1. None \notin Bridges /\ First \in Snappers /\ \A b \in Bridges : Thread[b] \in Threads
      BY RoutingAssumption DEF Threads
<1>2. ASSUME NEW b \in Bridges, Start(b) PROVE FilesInv'
  <2>1. /\ phase[b] = "unborn" /\ phase' = [phase EXCEPT ![b] = "opening"]
        /\ \A c \in Bridges : Running(c) => Thread[c] # Thread[b]
        /\ state' = [state EXCEPT ![Thread[b]] = b]
        /\ snapper' = [snapper EXCEPT ![b][First] = "listing"]
        /\ UNCHANGED <<snap, tmp>>
        BY <1>2 DEF Start
  <2>2. PhaseType'
        BY <1>0, <2>1 DEF PhaseType, Phases
  <2>3. StateType'
        BY <1>0, <1>1, <2>1 DEF StateType
  <2>4. SnapType'
        BY <1>0, <2>1 DEF SnapType
  <2>5. \A c \in Bridges : phase'[c] = IF c = b THEN "opening" ELSE phase[c]
        BY <1>0, <2>1 DEF PhaseType
  <2>6. SnapperType'
    <3> DEFINE places == {"none", "listing", "in tmp", "in snapshot", "in nothing", "written"}
    <3>1. snapper'[b] = [snapper[b] EXCEPT ![First] = "listing"]
          BY <1>0, <2>1 DEF SnapperType
    <3>2. snapper'[b] \in [Snappers -> places]
          BY <1>0, <1>1, <3>1 DEF SnapperType
    <3>3. snapper' = [snapper EXCEPT ![b] = snapper'[b]]
          BY <1>0, <2>1, <3>1 DEF SnapperType
    <3>4. snapper' \in [Bridges -> [Snappers -> places]]
          BY <1>0, <3>2, <3>3 DEF SnapperType
    <3>5. \A c \in Bridges \ {b} : snapper'[c] = snapper[c]
          BY <1>0, <2>1 DEF SnapperType
    <3>6. Running(b)' /\ \A c \in Bridges : Running(c) => Running(c)'
          BY <2>5 DEF Running, Ended
    <3> QED BY <1>0, <3>4, <3>5, <3>6 DEF SnapperType
  <2>7. AloneInv'
        BY <1>0, <2>1, <2>5 DEF AloneInv, Running, Ended
  <2>8. StateInv'
    <3>1. \A t \in Threads : state'[t] = IF t = Thread[b] THEN b ELSE state[t]
          BY <1>0, <2>1 DEF StateType
    <3>2. \A c \in Bridges : phase[c] \in {"opening", "up", "leaving"} => Thread[c] # Thread[b]
          BY <2>1 DEF Running, Ended
    <3>3. \A t \in Threads : state[t] # None => state[t] # b /\ state[t] \in Bridges
          BY <1>0, <2>1 DEF StateInv, StateType
    <3> QED BY <1>0, <1>1, <2>5, <3>1, <3>2, <3>3 DEF StateInv
  <2> QED BY <1>2, <2>2, <2>3, <2>4, <2>6, <2>7, <2>8, StartedStart DEF FilesInv
<1>3. ASSUME NEW b \in Bridges, Leave(b) PROVE FilesInv'
  <2>1. /\ phase[b] = "up" /\ phase' = [phase EXCEPT ![b] = "leaving"]
        /\ UNCHANGED <<started, state, snap, tmp, snapper>>
        BY <1>3 DEF Leave
  <2>2. \A c \in Bridges : phase'[c] = IF c = b THEN "leaving" ELSE phase[c]
        BY <1>0, <2>1 DEF PhaseType
  <2>3. \A c \in Bridges : Running(c)' <=> Running(c)
        BY <2>1, <2>2 DEF Running, Ended
  <2>4. PhaseType' /\ StartedType' /\ StateType' /\ SnapType' /\ UnbornInv'
        BY <1>0, <2>1, <2>2 DEF PhaseType, Phases, StartedType, StateType, SnapType, UnbornInv
  <2>5. SnapperType' /\ AloneInv'
        BY <1>0, <2>1, <2>3 DEF SnapperType, AloneInv
  <2>6. StateInv'
        BY <1>0, <2>1, <2>2 DEF StateInv, StateType
  <2> QED BY <2>4, <2>5, <2>6 DEF FilesInv
<1>4. ASSUME NEW b \in Bridges, UnlinkState(b) PROVE FilesInv'
  <2>1. /\ phase[b] = "leaving" /\ phase' = [phase EXCEPT ![b] = "unlinked"]
        /\ state' = [state EXCEPT ![Thread[b]] = None]
        /\ UNCHANGED <<started, snap, tmp, snapper>>
        BY <1>4 DEF UnlinkState
  <2>2. \A c \in Bridges : phase'[c] = IF c = b THEN "unlinked" ELSE phase[c]
        BY <1>0, <2>1 DEF PhaseType
  <2>3. \A c \in Bridges : Running(c)' <=> Running(c)
        BY <2>1, <2>2 DEF Running, Ended
  <2>4. PhaseType' /\ StartedType' /\ StateType' /\ SnapType' /\ UnbornInv'
        BY <1>0, <1>1, <2>1, <2>2 DEF PhaseType, Phases, StartedType, StateType, SnapType, UnbornInv
  <2>5. SnapperType' /\ AloneInv'
        BY <1>0, <2>1, <2>3 DEF SnapperType, AloneInv
  <2>6. StateInv'
    <3>1. \A t \in Threads : state'[t] = IF t = Thread[b] THEN None ELSE state[t]
          BY <1>0, <2>1 DEF StateType
    <3>2. \A c \in Bridges : c # b /\ Running(c) => Thread[c] # Thread[b]
          BY <1>0, <2>1 DEF AloneInv, Running, Ended
    <3>3. \A t \in Threads : t # Thread[b] /\ state[t] # None => state[t] # b /\ state[t] \in Bridges
          BY <1>0 DEF StateType
    <3> QED BY <1>0, <1>1, <2>2, <3>1, <3>2, <3>3 DEF StateInv, Running, Ended
  <2> QED BY <2>4, <2>5, <2>6 DEF FilesInv
<1>5. ASSUME NEW b \in Bridges, UnlinkSnapshot(b) PROVE FilesInv'
  <2>1. /\ phase[b] = "unlinked" /\ phase' = [phase EXCEPT ![b] = "swept"]
        /\ snap' = [snap EXCEPT ![Thread[b]] = "none"]
        /\ snapper' = [snapper EXCEPT ![b] = Detached(b)]
        /\ UNCHANGED <<started, state, tmp>>
        BY <1>5 DEF UnlinkSnapshot
  <2>2. \A c \in Bridges : phase'[c] = IF c = b THEN "swept" ELSE phase[c]
        BY <1>0, <2>1 DEF PhaseType
  <2>3. \A c \in Bridges : Running(c)' <=> Running(c)
        BY <2>1, <2>2 DEF Running, Ended
  <2>4. PhaseType' /\ StartedType' /\ StateType' /\ SnapType' /\ UnbornInv'
        BY <1>0, <2>1, <2>2 DEF PhaseType, Phases, StartedType, StateType, SnapType, UnbornInv, Contents
  <2>5. AloneInv'
        BY <1>0, <2>3 DEF AloneInv
  <2>6. StateInv'
        BY <1>0, <2>1, <2>2 DEF StateInv, StateType
  <2>7. SnapperType'
    <3>1. Detached(b) \in [Snappers -> {"none", "listing", "in tmp",
                                        "in snapshot", "in nothing", "written"}]
          BY <1>0 DEF Detached, SnapperType
    <3>2. Running(b)
          BY <2>1 DEF Running, Ended
    <3> QED BY <1>0, <2>1, <2>3, <3>1, <3>2 DEF SnapperType
  <2> QED BY <2>4, <2>5, <2>6, <2>7 DEF FilesInv
<1>6. ASSUME NEW b \in Bridges, Exit(b) \/ Crash(b) PROVE FilesInv'
  <2>1. PICK how \in Ended :
          /\ phase' = [phase EXCEPT ![b] = how]
          /\ how = "gone" => phase[b] = "swept"
          BY <1>6 DEF Exit, Crash, End, Ended
  <2>2. /\ snapper' = [snapper EXCEPT ![b] = [w \in Snappers |-> "none"]]
        /\ tmp' = [tmp EXCEPT ![Thread[b]] = "none"]
        /\ UNCHANGED <<started, state, snap>>
        /\ phase[b] # "unborn"
        BY <1>6 DEF Exit, Crash, End, Running
  <2>3. \A c \in Bridges : phase'[c] = IF c = b THEN how ELSE phase[c]
        BY <1>0, <2>1 DEF PhaseType
  <2>4. \A c \in Bridges : Running(c)' => Running(c)
        BY <2>3 DEF Running
  <2>5. PhaseType' /\ StartedType' /\ StateType' /\ SnapType' /\ UnbornInv'
        BY <1>0, <2>1, <2>2, <2>3 DEF PhaseType, Phases, StartedType, StateType, SnapType, Contents,
           UnbornInv, Ended
  <2>6. AloneInv'
        BY <1>0, <2>4 DEF AloneInv
  <2>7. StateInv'
        BY <1>0, <2>1, <2>2, <2>3 DEF StateInv, StateType, Ended
  <2>8. SnapperType'
        BY <1>0, <2>2, <2>3 DEF SnapperType, Running
  <2> QED BY <2>5, <2>6, <2>7, <2>8 DEF FilesInv
<1>7. ASSUME NEW b \in Bridges, NEW w \in Snappers,
             \/ BeginSnapshot(b, w) \/ OpenSnapshot(b, w)
             \/ WriteSnapshot(b, w) \/ ReplaceSnapshot(b, w) \/ SnapshotFails(b, w)
      PROVE  FilesInv'
  <2>1. UNCHANGED <<started, state>>
        BY <1>7 DEF BeginSnapshot, OpenSnapshot, WriteSnapshot, ReplaceSnapshot,
           SnapshotFails, SnapshotDone
  <2>2. \/ phase' = phase
        \/ phase[b] = "opening" /\ phase' = [phase EXCEPT ![b] = "up"]
        BY <1>0, <1>7 DEF BeginSnapshot, OpenSnapshot, WriteSnapshot, ReplaceSnapshot,
           SnapshotFails, SnapshotDone, PhaseType
  <2>3. \A c \in Bridges : phase'[c] = phase[c] \/ (phase[c] = "opening" /\ phase'[c] = "up")
        BY <1>0, <2>2 DEF PhaseType
  <2>4. \A c \in Bridges : Running(c)' <=> Running(c)
        BY <2>3 DEF Running, Ended
  <2>5. PhaseType'
        BY <1>0, <2>2 DEF PhaseType, Phases
  <2>6. StartedType' /\ StateType' /\ UnbornInv' /\ AloneInv'
        BY <1>0, <2>1, <2>3, <2>4 DEF StartedType, StateType, UnbornInv, AloneInv
  <2>7. StateInv'
        BY <1>0, <2>1, <2>3 DEF StateInv, StateType
  <2>8. SnapType'
        BY <1>0, <1>1, <1>7 DEF BeginSnapshot, OpenSnapshot, WriteSnapshot, ReplaceSnapshot,
           SnapshotFails, SnapshotDone,
           SnapType, Written, Contents
  <2>9. SnapperType'
    <3>0. Running(b)
          BY <1>0, <1>7 DEF BeginSnapshot, OpenSnapshot, WriteSnapshot, ReplaceSnapshot,
           SnapshotFails, SnapshotDone,
             SnapperAt, SnapperType, Running, Ended
    <3> DEFINE places == {"none", "listing", "in tmp", "in snapshot", "in nothing", "written"}
    <3>1. Renamed(b, w) \in [Snappers -> places]
          BY <1>0 DEF Renamed, Detached, SnapperType
    <3>2. \/ \E p \in places : snapper' = [snapper EXCEPT ![b][w] = p]
          \/ snapper' = [snapper EXCEPT ![b] = Renamed(b, w)]
          BY <1>7 DEF BeginSnapshot, OpenSnapshot, WriteSnapshot, ReplaceSnapshot,
           SnapshotFails, SnapshotDone, SnapperAt
    <3>3. snapper' \in [Bridges -> [Snappers -> places]]
      <4>1. ASSUME NEW p \in places, snapper' = [snapper EXCEPT ![b][w] = p]
            PROVE  snapper' \in [Bridges -> [Snappers -> places]]
        <5>1. [snapper[b] EXCEPT ![w] = p] \in [Snappers -> places]
              BY <1>0, <4>1 DEF SnapperType
        <5>2. snapper' = [snapper EXCEPT ![b] = [snapper[b] EXCEPT ![w] = p]]
              BY <1>0, <4>1 DEF SnapperType
        <5> QED BY <1>0, <5>1, <5>2 DEF SnapperType
      <4>2. ASSUME snapper' = [snapper EXCEPT ![b] = Renamed(b, w)]
            PROVE  snapper' \in [Bridges -> [Snappers -> places]]
            BY <1>0, <3>1, <4>2 DEF SnapperType
      <4> QED BY <3>2, <4>1, <4>2
    <3>4. \A c \in Bridges \ {b} : snapper'[c] = snapper[c]
          BY <1>0, <3>2 DEF SnapperType
    <3> QED BY <1>0, <2>4, <3>0, <3>3, <3>4 DEF SnapperType
  <2> QED BY <2>5, <2>6, <2>7, <2>8, <2>9 DEF FilesInv
<1>8. ASSUME NEW t \in Threads, Age(t) PROVE FilesInv'
  <2>1. /\ snap' = [snap EXCEPT ![t] = "old"]
        /\ UNCHANGED <<phase, started, state, tmp, snapper>>
        BY <1>8 DEF Age
  <2>2. SnapType'
        BY <1>0, <2>1 DEF SnapType, Contents
  <2> QED BY <1>0, <2>1, <2>2 DEF FilesInv, PhaseType, StartedType, StateType,
             SnapperType, UnbornInv, AloneInv, StateInv, Running
<1>9. ASSUME OnlyClient PROVE FilesInv'
      BY <1>0, <1>9 DEF OnlyClient, FilesInv, PhaseType, StartedType, StateType,
         SnapType, SnapperType, UnbornInv, AloneInv, StateInv, Running
<1>10. ASSUME NEW x \in Clients,
              \/ Glob(x) \/ Ask(x) \/ ListPeers(x) \/ Choose(x) \/ Use(x)
              \/ \E t \in Threads : Load(x, t)
              \/ \E b \in Bridges : ReadSnapshot(x, b)
       PROVE  FilesInv'
       BY <1>9, <1>10 DEF Glob, Ask, ListPeers, Choose, Use, Load, ReadSnapshot
<1>11. CASE UNCHANGED vars
       BY <1>9, <1>11 DEF vars, OnlyClient
<1> QED BY <1>2, <1>3, <1>4, <1>5, <1>6, <1>7, <1>8, <1>10, <1>11 DEF Next

LEMMA FilesInvAlways == Spec => []FilesInv
BY FilesInitGood, FilesStepGood, PTL DEF Spec

\* A bridge that has ended stays so, and one that serves started long ago.
LEMMA PhaseSteps ==
    ASSUME FilesInv, [Next]_vars, NEW b \in Bridges
    PROVE  /\ phase[b] \in Ended => phase'[b] = phase[b]
           /\ started'[b] \in Nat /\ started[b] \in Nat /\ started[b] <= started'[b]
           /\ phase[b] = "up" => started'[b] = started[b]
<1>0. PhaseType /\ StartedType /\ UnbornInv /\ FilesInv' /\ Cardinality(Bridges) \in Nat
      BY RoutingAssumption, FilesStepGood, FS_CardinalityType DEF FilesInv
<1>1. started'[b] \in Nat /\ started[b] \in Nat
      BY <1>0 DEF FilesInv, StartedType
<1>2. CASE UNCHANGED <<phase, started>>
      BY <1>1, <1>2
<1>3. CASE \E c \in Bridges : Start(c)
  <2>1. PICK c \in Bridges :
          /\ phase[c] = "unborn" /\ phase' = [phase EXCEPT ![c] = "opening"]
          /\ \A d \in Bridges \ {c} : started'[d] = started[d]
        BY <1>0, <1>3 DEF Start, StartedType
  <2>2. phase[c] = "unborn" => started[c] = 0
        BY <1>0 DEF UnbornInv
  <2> QED BY <1>0, <1>1, <2>1, <2>2 DEF PhaseType, Ended
<1>4. CASE started' = started /\ \E c \in Bridges, p \in Phases :
                phase[c] \notin Ended /\ phase' = [phase EXCEPT ![c] = p]
      BY <1>0, <1>1, <1>4 DEF PhaseType
<1>5. ASSUME NEW c \in Bridges,
             \/ Leave(c) \/ UnlinkState(c) \/ UnlinkSnapshot(c) \/ Exit(c) \/ Crash(c)
             \/ \E w \in Snappers : BeginSnapshot(c, w) \/ OpenSnapshot(c, w)
                                    \/ WriteSnapshot(c, w)
      PROVE  \/ UNCHANGED <<phase, started>>
             \/ started' = started /\ \E d \in Bridges, p \in Phases :
                    phase[d] \notin Ended /\ phase' = [phase EXCEPT ![d] = p]
  <2>1. CASE \E w \in Snappers : BeginSnapshot(c, w) \/ OpenSnapshot(c, w) \/ WriteSnapshot(c, w)
        BY <2>1 DEF BeginSnapshot, OpenSnapshot, WriteSnapshot
  <2>2. CASE Leave(c) \/ UnlinkState(c) \/ UnlinkSnapshot(c) \/ Exit(c) \/ Crash(c)
    <3>1. /\ started' = started /\ phase[c] \notin Ended
          /\ \E p \in Phases : phase' = [phase EXCEPT ![c] = p]
          BY <2>2 DEF Leave, UnlinkState, UnlinkSnapshot, Exit, Crash, End, Running,
             Ended, Phases
    <3> QED BY <3>1
  <2> QED BY <1>5, <2>1, <2>2
<1>6. ASSUME NEW c \in Bridges, NEW w \in Snappers, ReplaceSnapshot(c, w) \/ SnapshotFails(c, w)
      PROVE  \/ UNCHANGED <<phase, started>>
             \/ started' = started /\ \E d \in Bridges, p \in Phases :
                    phase[d] \notin Ended /\ phase' = [phase EXCEPT ![d] = p]
  <2>1. /\ started' = started
        /\ \/ phase[c] = "opening" /\ phase' = [phase EXCEPT ![c] = "up"]
           \/ phase' = phase
        BY <1>0, <1>6 DEF ReplaceSnapshot, SnapshotFails, SnapshotDone, PhaseType
  <2> QED BY <2>1 DEF Ended, Phases
<1>7. CASE \/ \E t \in Threads : Age(t)
           \/ \E x \in Clients :
                \/ Glob(x) \/ Ask(x) \/ ListPeers(x) \/ Choose(x) \/ Use(x)
                \/ \E t \in Threads : Load(x, t)
                \/ \E c \in Bridges : ReadSnapshot(x, c)
           \/ UNCHANGED vars
      BY <1>2, <1>7 DEF Age, Glob, Ask, ListPeers, Choose, Use, Load, ReadSnapshot,
         OnlyClient, vars
<1> QED BY <1>2, <1>3, <1>4, <1>5, <1>6, <1>7 DEF Next

-----------------------------------------------------------------------------
(* The commands: what each has found is true of the bridges.               *)

\* The bridges whose snapshots are always written.
Able == Bridges \ Failing

Steps == {"new", "load", "ask", "choose", "use", "no bridge", "served", "failed"}
Searches == [step : Steps, sandboxed : BOOLEAN, left : SUBSET (Threads \cup Bridges),
             found : SUBSET Bridges, alive : SUBSET Bridges,
             chosen : Bridges \cup {None}, steady : SUBSET Bridges,
             ended : SUBSET Bridges]

SearchType(c) ==
    /\ c \in Searches
    /\ c.alive \subseteq c.found
    /\ c.chosen # None <=> c.step \in {"use", "failed"}
    /\ c.step = "ask" => c.left \subseteq c.found

\* Nothing that had ended before the search is found, or not as alive.
EndGood(c) ==
    /\ c.step = "new" => c.found = {}
    /\ \A b \in c.ended : phase[b] \in Ended /\ (c.sandboxed => phase[b] = "gone")
    /\ c.sandboxed => c.found \cap c.ended = {}
    /\ c.alive \cap c.ended = {}
    /\ c.chosen \notin c.ended

\* LiveBridgeFound for one command.
Found(x, c) ==
    /\ c.step = "no bridge" => c.steady = {}
    /\ c.step = "use" =>
          \A b \in c.steady :
              /\ x \in Covers[b] => x \in Covers[c.chosen]
              /\ (x \in Covers[b] <=> x \in Covers[c.chosen])
                    => started[b] <= started[c.chosen]
    /\ c.step = "failed" => c.chosen \notin c.steady

\* A bridge that serves all along is not lost on the way.
SteadyGood(x, c) ==
    /\ c.step = "new" => c.steady = {}
    /\ \A b \in c.steady : phase[b] = "up"
    /\ c.step = "load" => \A b \in c.steady : b \in c.found \/ Thread[b] \in c.left
    /\ c.step = "ask" =>
          \A b \in c.steady : b \in c.found /\ (c.sandboxed => b \in c.left \cup c.alive)
    /\ c.step = "choose" => c.steady \subseteq c.alive
    /\ c.sandboxed => c.steady \subseteq Able
    /\ Found(x, c)

\* No pid is used twice.
DistinctPids == \A b, c \in Bridges : Pid[b] = Pid[c] => b = c

\* A snapshot thread has a file open, or one it has closed to rename.
Writing(b, w) == snapper[b][w] \notin {"none", "listing"}

\* No two threads of a bridge are between os.open and os.replace at a time.
NoOverlap ==
    \A b \in Bridges : \A v, w \in Snappers : Writing(b, v) /\ Writing(b, w) => v = w

\* What a snapshot thread has open, or has written, is a file of its own.
OwnFile(b, w) ==
    /\ snapper[b][w] \notin {"in snapshot", "in nothing"}
    /\ snapper[b][w] = "in tmp" => tmp[Thread[b]] = "empty"
    /\ snapper[b][w] = "written" => tmp[Thread[b]] = "fresh"

\* So is the snapshot of a bridge that serves, and it is fresh.
SnapFresh ==
    /\ \A b \in Able : \A w \in Snappers : OwnFile(b, w)
    /\ \A b \in Able : phase[b] = "up" => snap[Thread[b]] = "fresh"

ClientTypeInv == DOMAIN client = Clients /\ \A x \in Clients : SearchType(client[x])
ClientEndInv == \A x \in Clients : EndGood(client[x])

\* Of the commands in the shells that K says: TRUE is Codex's sandbox.
ClientSteadyInv(K) ==
    \A x \in Clients : client[x].sandboxed \in K => SteadyGood(x, client[x])

\* A step of one command.
LEMMA OneMoves ==
    ASSUME ClientTypeInv, NEW x \in Clients, NEW from, NEW new, ClientAt(x, from, new)
    PROVE  /\ client[x].step = from
           /\ client'[x] = new
           /\ DOMAIN client' = Clients
           /\ \A y \in Clients \ {x} : client'[y] = client[y]
BY DEF ClientTypeInv, ClientAt

\* The choice is one of those alive, and none of them is better.
LEMMA ChoiceIs ==
    ASSUME StartedType, NEW x \in Clients, SearchType(client[x])
    PROVE  LET alive == client[x].alive
               b == Choice(x)
           IN  /\ alive = {} => b = None
               /\ alive # {} =>
                     /\ b \in alive
                     /\ \A c \in alive :
                           /\ x \in Covers[c] => x \in Covers[b]
                           /\ (x \in Covers[c] <=> x \in Covers[b])
                                 => started[c] <= started[b]
<1> DEFINE alive == client[x].alive
           matching == {b \in alive : x \in Covers[b]}
<1>1. alive \subseteq Bridges
      BY DEF SearchType, Searches
<1>2. Choice(x) = IF matching # {} THEN Newest(matching)
                  ELSE IF alive # {} THEN Newest(alive) ELSE None
      BY DEF Choice
<1>3. matching \in SUBSET Bridges /\ alive \in SUBSET Bridges
      BY <1>1
<1>4. CASE alive = {}
      BY <1>2, <1>4
<1>5. CASE matching # {}
  <2>1. Newest(matching) \in matching /\ \A c \in matching : started[c] <= started[Newest(matching)]
        BY <1>3, <1>5, NewestIs
  <2> QED BY <1>2, <1>5, <2>1
<1>6. CASE alive # {} /\ matching = {}
  <2>1. Newest(alive) \in alive /\ \A c \in alive : started[c] <= started[Newest(alive)]
        BY <1>3, <1>6, NewestIs
  <2>2. \A c \in alive : x \notin Covers[c]
        BY <1>6
  <2> QED BY <1>2, <1>6, <2>1, <2>2
<1> QED BY <1>4, <1>5, <1>6

-----------------------------------------------------------------------------
(* Every step of a command.                                                *)

\* A step of x itself.
Searching(x) ==
    \/ Glob(x) \/ Ask(x) \/ ListPeers(x) \/ Choose(x) \/ Use(x)
    \/ \E t \in Threads : Load(x, t)
    \/ \E b \in Bridges : ReadSnapshot(x, b)

\* Bridge b no longer serves.
Dropped(b, x) ==
    /\ phase'[b] # "up"
    /\ client'[x] = [client[x] EXCEPT !.steady = @ \ {b}]

\* What a step does to a command: nothing, unless it is its own or a bridge
\* that it counts on leaves.
LEMMA ClientMoves ==
    ASSUME FilesInv, ClientTypeInv, [Next]_vars
    PROVE  /\ DOMAIN client' = Clients
           /\ \A x \in Clients :
                 \/ client'[x] = client[x]
                 \/ \E b \in Bridges : Dropped(b, x)
                 \/ Searching(x)
<1>0. DOMAIN client = Clients /\ PhaseType
      BY DEF ClientTypeInv, FilesInv
<1>1. CASE client' = client
      BY <1>0, <1>1
<1>2. ASSUME NEW b \in Bridges, client' = Unsteady(b), phase'[b] # "up"
      PROVE  DOMAIN client' = Clients /\ \A x \in Clients : Dropped(b, x)
      BY <1>2 DEF Unsteady, Dropped
<1>3. ASSUME NEW b \in Bridges, Leave(b) \/ Exit(b) \/ Crash(b)
      PROVE  client' = Unsteady(b) /\ phase'[b] # "up"
      BY <1>0, <1>3 DEF Leave, Exit, Crash, End, PhaseType
<1>4. ASSUME NEW x \in Clients, Searching(x)
      PROVE  DOMAIN client' = Clients /\ \A y \in Clients \ {x} : client'[y] = client[y]
  <2>1. \E new : client' = [client EXCEPT ![x] = new]
        BY <1>4 DEF Searching, Glob, Ask, ListPeers, Choose, Use, Load, ReadSnapshot, ClientAt
  <2> QED BY <1>0, <2>1
<1>5. ASSUME NEW b \in Bridges,
             \/ Start(b) \/ UnlinkState(b) \/ UnlinkSnapshot(b)
             \/ \E w \in Snappers : \/ BeginSnapshot(b, w) \/ OpenSnapshot(b, w)
                                    \/ WriteSnapshot(b, w) \/ ReplaceSnapshot(b, w)
                                    \/ SnapshotFails(b, w)
      PROVE  client' = client
      BY <1>5 DEF Start, UnlinkState, UnlinkSnapshot, BeginSnapshot, OpenSnapshot,
         WriteSnapshot, ReplaceSnapshot, SnapshotFails
<1>6. (\E t \in Threads : Age(t)) \/ UNCHANGED vars => client' = client
      BY DEF Age, vars
<1>7. CASE \E b \in Bridges : Leave(b) \/ Exit(b) \/ Crash(b)
      BY <1>2, <1>3, <1>7
<1>8. CASE \E x \in Clients : Searching(x)
      BY <1>4, <1>8
<1> QED BY <1>1, <1>5, <1>6, <1>7, <1>8 DEF Next, Searching

\* A command's own step keeps its types.
LEMMA SearchingTyped ==
    ASSUME FilesInv, ClientTypeInv, NEW x \in Clients, Searching(x)
    PROVE  SearchType(client'[x])
<1> DEFINE c == client[x]
<1>0. /\ SearchType(c) /\ StateType /\ StartedType /\ DOMAIN client = Clients
      /\ None \notin Bridges
      BY RoutingAssumption DEF ClientTypeInv, FilesInv
<1>1. CASE Glob(x)
  <2>1. PICK inside \in BOOLEAN :
          /\ c.step = "new"
          /\ client'[x] = [c EXCEPT !.step = "load", !.sandboxed = inside,
             !.left = {t \in Threads : state[t] # None},
             !.steady = {b \in Bridges : phase[b] = "up" /\ ~(inside /\ b \in Failing)},
             !.ended = {b \in Bridges : phase[b] \in (IF inside THEN {"gone"} ELSE Ended)}]
        BY <1>0, <1>1 DEF Glob, ClientAt
  <2>2. PICK left \in SUBSET Threads, steady \in SUBSET Bridges, ended \in SUBSET Bridges :
          client'[x] = [c EXCEPT !.step = "load", !.sandboxed = inside, !.left = left,
                                 !.steady = steady, !.ended = ended]
        BY <2>1
  <2> QED BY <1>0, <2>1, <2>2 DEF SearchType, Searches, Steps
<1>2. CASE Ask(x)
  <2>1. /\ c.step = "load"
        /\ client'[x] = [c EXCEPT !.step = "ask", !.left = c.found]
        BY <1>0, <1>2 DEF Ask, ClientAt
  <2> QED BY <1>0, <2>1 DEF SearchType, Searches, Steps
<1>3. CASE ListPeers(x)
  <2>1. /\ c.step = "ask"
        /\ client'[x] = [c EXCEPT !.step = "choose", !.left = {},
             !.alive = {b \in c.found : \E d \in Bridges : Registered(d) /\ Pid[d] = Pid[b]}]
        BY <1>0, <1>3 DEF ListPeers, ClientAt
  <2>2. PICK alive \in SUBSET c.found :
          client'[x] = [c EXCEPT !.step = "choose", !.left = {}, !.alive = alive]
        BY <2>1
  <2> QED BY <1>0, <2>1, <2>2 DEF SearchType, Searches, Steps
<1>4. CASE Choose(x)
  <2>1. /\ client'[x] = [c EXCEPT !.step = IF Choice(x) = None THEN "no bridge" ELSE "use",
                          !.chosen = Choice(x), !.left = {}, !.found = {}, !.alive = {}]
        BY <1>0, <1>4 DEF Choose
  <2>2. Choice(x) \in Bridges \cup {None}
        BY <1>0, ChoiceIs DEF SearchType, Searches
  <2> QED BY <1>0, <2>1, <2>2 DEF SearchType, Searches, Steps
<1>5. CASE Use(x)
  <2>1. /\ c.step = "use"
        /\ \/ client'[x] = [c EXCEPT !.step = "failed"]
           \/ client'[x] = [NotLooking EXCEPT !.step = "served"]
        BY <1>0, <1>5 DEF Use, ClientAt
  <2> QED BY <1>0, <2>1 DEF SearchType, Searches, Steps, NotLooking
<1>6. ASSUME NEW t \in Threads, Load(x, t) PROVE SearchType(client'[x])
  <2>1. /\ c.step = "load"
        /\ client'[x] = [c EXCEPT !.left = @ \ {t}, !.found = @ \cup ({state[t]} \ {None})]
        BY <1>0, <1>6 DEF Load, ClientAt
  <2>2. {state[t]} \ {None} \subseteq Bridges
        BY <1>0 DEF StateType
  <2> QED BY <1>0, <2>1, <2>2 DEF SearchType, Searches, Steps
<1>7. ASSUME NEW b \in Bridges, ReadSnapshot(x, b) PROVE SearchType(client'[x])
  <2>1. /\ c.step = "ask" /\ b \in c.left
        /\ client'[x] = [c EXCEPT !.left = @ \ {b},
                  !.step = IF @ = "ask" /\ c.left = {b} THEN "choose" ELSE @,
                  !.alive = IF snap[Thread[b]] = "fresh" THEN @ \cup {b} ELSE @]
        BY <1>0, <1>7 DEF ReadSnapshot, ClientAt
  <2>2. b \in c.found /\ c.found \subseteq Bridges
        BY <1>0, <2>1 DEF SearchType, Searches
  <2> DEFINE p == IF c.step = "ask" /\ c.left = {b} THEN "choose" ELSE c.step
             a == IF snap[Thread[b]] = "fresh" THEN c.alive \cup {b} ELSE c.alive
  <2>3. p \in {"ask", "choose"} /\ a \in SUBSET c.found
        BY <1>0, <2>1, <2>2 DEF SearchType
  <2>4. client'[x] = [c EXCEPT !.left = @ \ {b}, !.step = p, !.alive = a]
        BY <2>1
  <2> HIDE DEF p, a
  <2> DEFINE l == c.left \ {b}
  <2>5. l \in SUBSET (Threads \cup Bridges) /\ l \subseteq c.found /\ c.chosen = None
        BY <1>0, <2>1 DEF SearchType, Searches
  <2>6. client'[x] = [c EXCEPT !.left = l, !.step = p, !.alive = a]
        BY <2>4
  <2> HIDE DEF l
  <2>7. client'[x] \in Searches
        BY <1>0, <2>2, <2>3, <2>5, <2>6 DEF SearchType, Searches, Steps
  <2>8. /\ client'[x].left = l /\ client'[x].step = p /\ client'[x].alive = a
        /\ client'[x].chosen = c.chosen /\ client'[x].found = c.found
        BY <1>0, <2>6 DEF SearchType, Searches
  <2> QED BY <2>3, <2>5, <2>7, <2>8 DEF SearchType
<1> QED BY <1>1, <1>2, <1>3, <1>4, <1>5, <1>6, <1>7 DEF Searching

LEMMA ClientTypeStep == FilesInv /\ ClientTypeInv /\ [Next]_vars => ClientTypeInv'
<1> SUFFICES ASSUME FilesInv, ClientTypeInv, [Next]_vars PROVE ClientTypeInv'
    OBVIOUS
<1>1. DOMAIN client' = Clients
      BY ClientMoves
<1>2. ASSUME NEW x \in Clients PROVE SearchType(client'[x])
  <2>1. SearchType(client[x])
        BY DEF ClientTypeInv
  <2>2. CASE client'[x] = client[x]
        BY <2>1, <2>2
  <2>3. ASSUME NEW b \in Bridges, Dropped(b, x) PROVE SearchType(client'[x])
        BY <2>1, <2>3 DEF Dropped, SearchType, Searches
  <2>4. CASE Searching(x)
        BY <2>4, SearchingTyped
  <2> QED BY <2>2, <2>3, <2>4, ClientMoves
<1>3. ClientTypeInv' <=> DOMAIN client' = Clients /\ \A x \in Clients : SearchType(client'[x])
      BY DEF ClientTypeInv, SearchType, Searches, Steps
<1> QED BY <1>1, <1>2, <1>3

LEMMA ClientTypeInit == Init => ClientTypeInv
BY RoutingAssumption DEF Init, NotLooking, ClientTypeInv, SearchType, Searches, Steps

\* Every variable of the search holds a value the program can give it: state
\* files name bridges of their thread, snapshot threads belong to a running
\* process, and a command has chosen a bridge exactly when it is about to use
\* it or has failed to.
THEOREM RoutingTypeCorrect == Spec => []TypeOK
<1>1. FilesInv /\ ClientTypeInv => TypeOK
  <2> SUFFICES ASSUME FilesInv, ClientTypeInv PROVE TypeOK
      OBVIOUS
  <2>1. \A x \in Clients :
          /\ client[x].step \in Steps
          /\ client[x].alive \subseteq client[x].found
          /\ client[x].chosen # None <=> client[x].step \in {"use", "failed"}
        BY DEF ClientTypeInv, SearchType, Searches
  <2> QED BY <2>1 DEF FilesInv, PhaseType, Phases, StartedType, StateType, SnapType,
             SnapperType, Steps, TypeOK
<1>2. ClientTypeInv /\ []FilesInv /\ [][Next]_vars => []ClientTypeInv
      BY ClientTypeStep, PTL
<1> QED BY <1>1, <1>2, ClientTypeInit, FilesInvAlways, PTL DEF Spec

-----------------------------------------------------------------------------
(* Bridges that have ended.                                                *)

\* A command's own step finds no bridge that had ended before its search.
LEMMA SearchingEnds ==
    ASSUME DistinctPids, FilesInv, ClientTypeInv, ClientEndInv, NEW x \in Clients, Searching(x)
    PROVE  EndGood(client'[x])
<1> DEFINE c == client[x]
<1>0. /\ SearchType(c) /\ EndGood(c) /\ StateType /\ StateInv /\ StartedType /\ PhaseType
      /\ DOMAIN client = Clients /\ None \notin Bridges
      /\ c.ended \subseteq Bridges /\ c.found \subseteq Bridges
      BY RoutingAssumption DEF ClientTypeInv, ClientEndInv, FilesInv, SearchType, Searches
<1>1. CASE Glob(x)
  <2>1. PICK inside \in BOOLEAN :
          /\ c.step = "new"
          /\ client'[x] = [c EXCEPT !.step = "load", !.sandboxed = inside,
             !.left = {t \in Threads : state[t] # None},
             !.steady = {b \in Bridges : phase[b] = "up" /\ ~(inside /\ b \in Failing)},
             !.ended = {b \in Bridges : phase[b] \in (IF inside THEN {"gone"} ELSE Ended)}]
        BY <1>0, <1>1 DEF Glob, ClientAt
  <2>2. c.found = {} /\ c.alive = {} /\ c.chosen = None
        BY <1>0, <2>1 DEF EndGood, SearchType
  <2>3. /\ client'[x].found = {} /\ client'[x].alive = {} /\ client'[x].chosen = None
        /\ client'[x].step = "load" /\ client'[x].sandboxed = inside
        /\ client'[x].ended = {b \in Bridges : phase[b] \in (IF inside THEN {"gone"} ELSE Ended)}
        BY <1>0, <2>1, <2>2 DEF SearchType, Searches
  <2>4. UNCHANGED phase
        BY <1>1 DEF Glob, OnlyClient
  <2> QED BY <1>0, <2>3, <2>4 DEF EndGood, Ended
<1>2. CASE Ask(x)
  <2>1. client'[x] = [c EXCEPT !.step = "ask", !.left = c.found]
        BY <1>0, <1>2 DEF Ask, ClientAt
  <2> QED BY <1>0, <2>1 DEF SearchType, Searches, EndGood
<1>3. CASE ListPeers(x)
  <2> DEFINE alive == {b \in c.found : \E d \in Bridges : Registered(d) /\ Pid[d] = Pid[b]}
  <2>1. /\ ~c.sandboxed
        /\ client'[x] = [c EXCEPT !.step = "choose", !.left = {}, !.alive = alive]
        BY <1>0, <1>3 DEF ListPeers, ClientAt
  <2>2. alive \cap c.ended = {}
        BY <1>0 DEF DistinctPids, Registered, EndGood, Ended
  <2> HIDE DEF alive
  <2> QED BY <1>0, <2>1, <2>2 DEF SearchType, Searches, EndGood
<1>4. CASE Choose(x)
  <2>1. client'[x] = [c EXCEPT !.step = IF Choice(x) = None THEN "no bridge" ELSE "use",
                          !.chosen = Choice(x), !.left = {}, !.found = {}, !.alive = {}]
        BY <1>0, <1>4 DEF Choose
  <2>2. Choice(x) \in c.alive \cup {None}
        BY <1>0, ChoiceIs
  <2>3. Choice(x) \notin c.ended
        BY <1>0, <2>2 DEF EndGood
  <2> QED BY <1>0, <2>1, <2>3 DEF SearchType, Searches, EndGood
<1>5. CASE Use(x)
  <2>1. \/ client'[x] = [c EXCEPT !.step = "failed"]
        \/ client'[x] = [NotLooking EXCEPT !.step = "served"]
        BY <1>0, <1>5 DEF Use, ClientAt
  <2> QED BY <1>0, <2>1 DEF SearchType, Searches, NotLooking, EndGood
<1>6. ASSUME NEW t \in Threads, Load(x, t) PROVE EndGood(client'[x])
  <2>1. /\ c.step = "load"
        /\ client'[x] = [c EXCEPT !.left = @ \ {t}, !.found = @ \cup ({state[t]} \ {None})]
        BY <1>0, <1>6 DEF Load, ClientAt
  <2>2. c.sandboxed => ({state[t]} \ {None}) \cap c.ended = {}
        BY <1>0 DEF EndGood, StateInv, StateType
  <2> QED BY <1>0, <2>1, <2>2 DEF SearchType, Searches, EndGood
<1>7. ASSUME NEW b \in Bridges, ReadSnapshot(x, b) PROVE EndGood(client'[x])
  <2> DEFINE p == IF c.step = "ask" /\ c.left = {b} THEN "choose" ELSE c.step
             a == IF snap[Thread[b]] = "fresh" THEN c.alive \cup {b} ELSE c.alive
  <2>1. /\ c.step = "ask" /\ b \in c.left /\ c.sandboxed
        /\ client'[x] = [c EXCEPT !.left = @ \ {b}, !.step = p, !.alive = a]
        BY <1>0, <1>7 DEF ReadSnapshot, ClientAt
  <2>2. b \notin c.ended
        BY <1>0, <2>1 DEF SearchType, EndGood
  <2>3. a \cap c.ended = {} /\ p # "new"
        BY <1>0, <2>1, <2>2 DEF EndGood
  <2> HIDE DEF p, a
  <2> QED BY <1>0, <2>1, <2>3 DEF SearchType, Searches, EndGood
<1> QED BY <1>1, <1>2, <1>3, <1>4, <1>5, <1>6, <1>7 DEF Searching

LEMMA ClientEndStep ==
    ASSUME DistinctPids
    PROVE  FilesInv /\ ClientTypeInv /\ ClientEndInv /\ [Next]_vars => ClientEndInv'
<1> SUFFICES ASSUME FilesInv, ClientTypeInv, ClientEndInv, [Next]_vars PROVE ClientEndInv'
    OBVIOUS
<1>1. \A b \in Bridges : phase[b] \in Ended => phase'[b] = phase[b]
      BY PhaseSteps
<1>2. ASSUME NEW x \in Clients PROVE EndGood(client[x])'
  <2>1. /\ EndGood(client[x]) /\ client[x] \in Searches
        BY DEF ClientEndInv, ClientTypeInv, SearchType
  <2>2. CASE client'[x] = client[x]
        BY <1>1, <2>1, <2>2 DEF EndGood, Searches
  <2>3. ASSUME NEW b \in Bridges, Dropped(b, x) PROVE EndGood(client[x])'
        BY <1>1, <2>1, <2>3 DEF Dropped, Searches, EndGood
  <2>4. CASE Searching(x)
    <3>1. EndGood(client'[x])
          BY <2>4, SearchingEnds
    <3>2. UNCHANGED phase
          BY <2>4 DEF Searching, Glob, Ask, ListPeers, Choose, Use, Load, ReadSnapshot, OnlyClient
    <3> QED BY <3>1, <3>2 DEF EndGood
  <2> QED BY <2>2, <2>3, <2>4, ClientMoves
<1> QED BY <1>2 DEF ClientEndInv

\* A search chooses no bridge that had exited before it began, whatever
\* snapshots the threads of that bridge still wrote, nor in an open shell one
\* that had crashed, as long as no pid comes back.
THEOREM EndedPassedOver ==
    ASSUME DistinctPids
    PROVE  Spec => []EndedNotChosen
<1>1. Init => ClientEndInv
      BY RoutingAssumption DEF Init, NotLooking, ClientEndInv, EndGood
<1>2. ClientEndInv => EndedNotChosen
      BY DEF ClientEndInv, EndGood, EndedNotChosen
<1>3. ClientTypeInv /\ []FilesInv /\ [][Next]_vars => []ClientTypeInv
      BY ClientTypeStep, PTL
<1>4. ClientEndInv /\ []FilesInv /\ []ClientTypeInv /\ [][Next]_vars => []ClientEndInv
      BY ClientEndStep, PTL
<1> QED BY <1>1, <1>2, <1>3, <1>4, ClientTypeInit, FilesInvAlways, PTL DEF Spec

-----------------------------------------------------------------------------
(* Bridges that serve.                                                     *)

\* A step keeps SnapFresh when it closes what it changes of the threads, and
\* leaves alone the temporary files of the others.
LEMMA SnapFreshKept ==
    ASSUME SnapFresh,
           \A b \in Able : phase'[b] = "up" => snap'[Thread[b]] = "fresh",
           \A b \in Able : \A w \in Snappers :
               \/ snapper'[b][w] \in {"none", "listing"}
               \/ /\ snapper'[b][w] = snapper[b][w]
                  /\ snapper[b][w] \in {"in tmp", "written"} => tmp'[Thread[b]] = tmp[Thread[b]]
    PROVE  SnapFresh'
<1>1. ASSUME NEW b \in Able, NEW w \in Snappers PROVE OwnFile(b, w)'
  <2>1. OwnFile(b, w)
        BY DEF SnapFresh
  <2>2. CASE snapper'[b][w] \in {"none", "listing"}
        BY <2>2 DEF OwnFile
  <2>3. CASE /\ snapper'[b][w] = snapper[b][w]
             /\ snapper[b][w] \in {"in tmp", "written"} => tmp'[Thread[b]] = tmp[Thread[b]]
        BY <2>1, <2>3 DEF OwnFile
  <2> QED BY <2>2, <2>3
<1> QED BY <1>1 DEF SnapFresh

\* Only the main threads and the snapshot threads touch what SnapFresh is about.
LEMMA SnapFreshStep ==
    FilesInv /\ SnapFresh /\ NoOverlap /\ NoOverlap' /\ [Next]_vars => SnapFresh'
<1> SUFFICES ASSUME FilesInv, SnapFresh, NoOverlap, NoOverlap', [Next]_vars PROVE SnapFresh'
    OBVIOUS
<1>0. /\ PhaseType /\ SnapType /\ SnapperType /\ AloneInv
      /\ \A b \in Bridges : Thread[b] \in Threads
      /\ \A b \in Able : phase[b] = "up" => snap[Thread[b]] = "fresh"
      /\ Able \subseteq Bridges
      BY DEF FilesInv, Threads, SnapFresh, Able
\* Most steps leave the files alone and let no bridge serve.
<1>1. ASSUME UNCHANGED <<snap, tmp>>,
             \A c \in Able : phase'[c] = "up" => phase[c] = "up",
             \A c \in Able : \A w \in Snappers :
                 snapper'[c][w] \in {snapper[c][w], "none", "listing"}
      PROVE  SnapFresh'
  <2>1. \A c \in Able : phase'[c] = "up" => snap'[Thread[c]] = "fresh"
        BY <1>0, <1>1
  <2>2. \A c \in Able : \A w \in Snappers :
            \/ snapper'[c][w] \in {"none", "listing"}
            \/ snapper'[c][w] = snapper[c][w] /\ tmp'[Thread[c]] = tmp[Thread[c]]
        BY <1>1
  <2> QED BY <2>1, <2>2, SnapFreshKept
<1>2. ASSUME NEW b \in Bridges, Start(b) \/ Leave(b) \/ UnlinkState(b) PROVE SnapFresh'
  <2>1. \A c \in Bridges : phase'[c] = "up" => phase[c] = "up"
        BY <1>0, <1>2 DEF Start, Leave, UnlinkState, PhaseType
  <2>2. \A c \in Bridges : \A w \in Snappers : snapper'[c][w] \in {snapper[c][w], "listing"}
    <3>1. CASE Start(b)
      <4>1. snapper' = [snapper EXCEPT ![b] = [snapper[b] EXCEPT ![First] = "listing"]]
            BY <3>1 DEF Start
      <4>2. \A c \in Bridges : snapper'[c] = IF c = b THEN [snapper[b] EXCEPT ![First] = "listing"]
                                             ELSE snapper[c]
            BY <1>0, <4>1 DEF SnapperType
      <4>3. \A w \in Snappers : snapper'[b][w] \in {snapper[b][w], "listing"}
            BY <1>0, <4>2 DEF SnapperType
      <4> QED BY <4>2, <4>3
    <3>2. CASE Leave(b) \/ UnlinkState(b)
          BY <3>2 DEF Leave, UnlinkState
    <3> QED BY <1>2, <3>1, <3>2
  <2>3. UNCHANGED <<snap, tmp>>
        BY <1>2 DEF Start, Leave, UnlinkState
  <2> QED BY <1>0, <1>1, <2>1, <2>2, <2>3
<1>3. ASSUME NEW b \in Bridges, UnlinkSnapshot(b) PROVE SnapFresh'
  <2>1. /\ phase[b] = "unlinked"
        /\ \A c \in Bridges : phase'[c] = IF c = b THEN "swept" ELSE phase[c]
        /\ \A t \in Threads : snap'[t] = IF t = Thread[b] THEN "none" ELSE snap[t]
        /\ UNCHANGED tmp
        /\ snapper' = [snapper EXCEPT ![b] = Detached(b)]
        BY <1>0, <1>3 DEF UnlinkSnapshot, PhaseType, SnapType
  <2>2. b \in Able => \A w \in Snappers : Detached(b)[w] = snapper[b][w]
        BY DEF Detached, SnapFresh, OwnFile
  <2>3. \A c \in Able : \A w \in Snappers : snapper'[c][w] = snapper[c][w]
        BY <1>0, <2>1, <2>2 DEF SnapperType
  <2>4. \A c \in Bridges : phase[c] = "up" => Thread[c] # Thread[b]
        BY <1>0, <2>1 DEF AloneInv, Running, Ended
  <2>5. \A c \in Able : phase'[c] = "up" => snap'[Thread[c]] = "fresh"
        BY <1>0, <2>1, <2>4
  <2> QED BY <2>1, <2>3, <2>5, SnapFreshKept
<1>4. ASSUME NEW b \in Bridges, Exit(b) \/ Crash(b) PROVE SnapFresh'
  <2>1. PICK how \in Ended : End(b, how)
        BY <1>4 DEF Exit, Crash, Ended
  <2>2. \A c \in Bridges : phase'[c] = "up" => phase[c] = "up"
        BY <1>0, <2>1 DEF End, PhaseType, Ended
  <2>3. \A c \in Bridges : snapper'[c] = IF c = b THEN [w \in Snappers |-> "none"] ELSE snapper[c]
        BY <1>0, <2>1 DEF End, SnapperType
  <2>4. /\ UNCHANGED snap
        /\ \A t \in Threads \ {Thread[b]} : tmp'[t] = tmp[t]
        BY <1>0, <2>1 DEF End, SnapType
  <2>5. Running(b)
        BY <1>4 DEF Exit, Crash, Running, Ended
  <2>6. ASSUME NEW c \in Able, NEW w \in Snappers, snapper'[c][w] \notin {"none", "listing"}
        PROVE  snapper'[c][w] = snapper[c][w] /\ tmp'[Thread[c]] = tmp[Thread[c]]
    <3>1. c \in Bridges \ {b} /\ snapper'[c][w] = snapper[c][w]
          BY <2>3, <2>6 DEF Able
    <3>2. Running(c)
          BY <1>0, <2>6, <3>1 DEF SnapperType, Running, Ended
    <3>3. Thread[c] # Thread[b] /\ Thread[c] \in Threads
          BY <1>0, <2>5, <3>1, <3>2 DEF AloneInv
    <3> QED BY <2>4, <3>1, <3>3
  <2>7. \A c \in Able : phase'[c] = "up" => snap'[Thread[c]] = "fresh"
        BY <2>2, <2>4 DEF SnapFresh, Able
  <2> QED BY <2>6, <2>7, SnapFreshKept
\* What holds of every step of a snapshot thread of b: it is the only one that
\* writes, and no other bridge has the files of b's thread.
<1>5. ASSUME NEW b \in Bridges, NEW w \in Snappers, Writing(b, w)
      PROVE  \A v \in Snappers \ {w} : snapper[b][v] \in {"none", "listing"}
      BY <1>5 DEF NoOverlap, Writing
<1>6. ASSUME NEW b \in Bridges, NEW w \in Snappers, snapper[b][w] # "none",
             NEW c \in Bridges \ {b}
      PROVE  /\ phase[c] = "up" => Thread[c] # Thread[b]
             /\ \A v \in Snappers : snapper[c][v] # "none" => Thread[c] # Thread[b]
  <2>1. Running(b)
        BY <1>0, <1>6 DEF SnapperType, Running, Ended
  <2>2. phase[c] = "up" => Running(c)
        BY DEF Running, Ended
  <2>3. \A v \in Snappers : snapper[c][v] # "none" => Running(c)
        BY <1>0 DEF SnapperType, Running, Ended
  <2> QED BY <1>0, <2>1, <2>2, <2>3 DEF AloneInv
\* What it does to where the threads are.
<1>7. ASSUME NEW b \in Bridges, NEW w \in Snappers, NEW to \in {"listing", "in tmp", "written"},
             snapper' = [snapper EXCEPT ![b][w] = to], NEW c \in Bridges, NEW v \in Snappers
      PROVE  snapper'[c][v] = IF c = b /\ v = w THEN to ELSE snapper[c][v]
  <2>1. snapper' = [snapper EXCEPT ![b] = [snapper[b] EXCEPT ![w] = to]]
        BY <1>7
  <2>2. snapper'[c] = IF c = b THEN [snapper[b] EXCEPT ![w] = to] ELSE snapper[c]
        BY <1>0, <2>1 DEF SnapperType
  <2>3. [snapper[b] EXCEPT ![w] = to][v] = IF v = w THEN to ELSE snapper[b][v]
        BY <1>0 DEF SnapperType
  <2> QED BY <2>2, <2>3
\* And so to SnapFresh, when it leaves the snapshot alone.
<1>8. ASSUME NEW b \in Bridges, NEW w \in Snappers, snapper[b][w] # "none",
             b \in Able => OwnFile(b, w)',
             UNCHANGED <<phase, snap>>,
             \A t \in Threads \ {Thread[b]} : tmp'[t] = tmp[t],
             \A v \in Snappers \ {w} : snapper'[b][v] \in {"none", "listing"},
             \A c \in Bridges \ {b} : \A v \in Snappers : snapper'[c][v] = snapper[c][v]
      PROVE  SnapFresh'
  <2>1. ASSUME NEW c \in Able, NEW v \in Snappers PROVE OwnFile(c, v)'
    <3>1. CASE c = b /\ v = w
          BY <1>8, <3>1
    <3>2. CASE c = b /\ v # w
          BY <1>8, <3>2 DEF OwnFile
    <3>3. CASE c # b
      <4>1. snapper'[c][v] = snapper[c][v] /\ OwnFile(c, v)
            BY <1>0, <1>8, <3>3 DEF SnapFresh
      <4>2. snapper[c][v] # "none" => tmp'[Thread[c]] = tmp[Thread[c]]
            BY <1>0, <1>6, <1>8, <3>3
      <4> QED BY <4>1, <4>2 DEF OwnFile
    <3> QED BY <3>1, <3>2, <3>3
  <2>2. \A c \in Able : phase'[c] = "up" => snap'[Thread[c]] = "fresh"
        BY <1>0, <1>8
  <2> QED BY <2>1, <2>2 DEF SnapFresh
<1>9. ASSUME NEW b \in Bridges, NEW w \in Snappers, BeginSnapshot(b, w) PROVE SnapFresh'
  <2>1. UNCHANGED <<phase, snap, tmp>> /\ snapper' = [snapper EXCEPT ![b][w] = "listing"]
        BY <1>9 DEF BeginSnapshot, SnapperAt
  <2>3. \A c \in Bridges : \A v \in Snappers :
            snapper'[c][v] = IF c = b /\ v = w THEN "listing" ELSE snapper[c][v]
        BY <1>7, <2>1
  <2>2. \A c \in Bridges : \A v \in Snappers : snapper'[c][v] \in {snapper[c][v], "listing"}
        BY <2>3
  <2> QED BY <1>0, <1>1, <2>1, <2>2
<1>10. ASSUME NEW b \in Bridges, NEW w \in Snappers, OpenSnapshot(b, w) PROVE SnapFresh'
  <2>1. /\ snapper' = [snapper EXCEPT ![b][w] = "in tmp"] /\ snapper[b][w] = "listing"
        /\ UNCHANGED <<phase, snap>>
        /\ \A t \in Threads : tmp'[t] = IF t = Thread[b] THEN "empty" ELSE tmp[t]
        BY <1>0, <1>10 DEF OpenSnapshot, SnapperAt, SnapType
  <2> DEFINE now(c, v) == IF c = b /\ v = w THEN "in tmp" ELSE snapper[c][v]
  <2>5. \A c \in Bridges : \A v \in Snappers : snapper'[c][v] = now(c, v)
        BY <1>7, <2>1
  <2>2. /\ snapper'[b][w] = "in tmp"
        /\ \A c \in Bridges \ {b} : \A v \in Snappers : snapper'[c][v] = snapper[c][v]
        BY <2>5
  <2>3. OwnFile(b, w)'
        BY <1>0, <2>1, <2>2 DEF OwnFile
  <2>4. \A v \in Snappers \ {w} : snapper'[b][v] \in {"none", "listing"}
        BY <2>2 DEF NoOverlap, Writing
  <2> QED BY <1>8, <2>1, <2>2, <2>3, <2>4
\* A bridge that fails at times has files of its own to write.
<1>15. ASSUME NEW b \in Bridges \ Able, NEW w \in Snappers, snapper[b][w] # "none",
              \A c \in Bridges \ {b} : phase'[c] = phase[c] /\ snapper'[c] = snapper[c],
              \A t \in Threads \ {Thread[b]} : snap'[t] = snap[t] /\ tmp'[t] = tmp[t]
       PROVE  SnapFresh'
  <2>1. \A c \in Able : c \in Bridges \ {b}
        BY <1>0, <1>15
  <2>2. \A c \in Able : phase'[c] = "up" => snap'[Thread[c]] = "fresh"
        BY <1>0, <1>6, <1>15, <2>1
  <2>3. \A c \in Able : \A v \in Snappers :
            \/ snapper'[c][v] = "none"
            \/ snapper'[c][v] = snapper[c][v] /\ tmp'[Thread[c]] = tmp[Thread[c]]
        BY <1>0, <1>6, <1>15, <2>1
  <2> QED BY <2>2, <2>3, SnapFreshKept
<1>16. ASSUME NEW b \in Bridges \ Able, NEW w \in Snappers,
              WriteSnapshot(b, w) \/ ReplaceSnapshot(b, w) \/ SnapshotFails(b, w)
       PROVE  SnapFresh'
  <2>1. snapper[b][w] # "none"
        BY <1>16 DEF WriteSnapshot, ReplaceSnapshot, SnapshotFails, SnapperAt
  <2>2. \A c \in Bridges \ {b} : phase'[c] = phase[c]
        BY <1>0, <1>16 DEF WriteSnapshot, ReplaceSnapshot, SnapshotFails, SnapshotDone, PhaseType
  <2>3. \A c \in Bridges \ {b} : snapper'[c] = snapper[c]
        BY <1>0, <1>16 DEF WriteSnapshot, ReplaceSnapshot, SnapshotFails, SnapperAt, SnapperType
  <2>4. \A t \in Threads \ {Thread[b]} : snap'[t] = snap[t] /\ tmp'[t] = tmp[t]
        BY <1>0, <1>16 DEF WriteSnapshot, ReplaceSnapshot, SnapshotFails, SnapType
  <2> QED BY <1>15, <2>1, <2>2, <2>3, <2>4
<1>17. ASSUME NEW b \in Bridges, NEW w \in Snappers, SnapshotFails(b, w) PROVE SnapFresh'
  <2>1. b \in Bridges \ Able
        BY <1>17 DEF SnapshotFails, Able
  <2> QED BY <1>16, <1>17, <2>1
<1>11. ASSUME NEW b \in Able, NEW w \in Snappers, WriteSnapshot(b, w) PROVE SnapFresh'
  <2>0. b \in Bridges
        BY <1>0
  <2>1. snapper[b][w] \in {"in tmp", "in snapshot", "in nothing"} /\ OwnFile(b, w)
        BY <1>0, <1>11 DEF WriteSnapshot, SnapperAt, SnapFresh
  <2>2. snapper[b][w] = "in tmp" /\ tmp[Thread[b]] = "empty"
        BY <2>1 DEF OwnFile
  <2>3. /\ snapper' = [snapper EXCEPT ![b][w] = "written"] /\ UNCHANGED <<phase, snap>>
        /\ tmp' = [tmp EXCEPT ![Thread[b]] = "fresh"]
        BY <1>11, <2>2 DEF WriteSnapshot, SnapperAt, Written
  <2>4. \A t \in Threads : tmp'[t] = IF t = Thread[b] THEN "fresh" ELSE tmp[t]
        BY <1>0, <2>3 DEF SnapType
  <2> DEFINE now(c, v) == IF c = b /\ v = w THEN "written" ELSE snapper[c][v]
  <2>8. \A c \in Bridges : \A v \in Snappers : snapper'[c][v] = now(c, v)
        BY <1>7, <2>0, <2>3
  <2>5. /\ snapper'[b][w] = "written"
        /\ \A v \in Snappers \ {w} : snapper'[b][v] = snapper[b][v]
        /\ \A c \in Bridges \ {b} : \A v \in Snappers : snapper'[c][v] = snapper[c][v]
        BY <2>0, <2>8
  <2>6. \A v \in Snappers \ {w} : snapper'[b][v] \in {"none", "listing"}
        BY <1>5, <2>0, <2>2, <2>5 DEF Writing
  <2>7. OwnFile(b, w)'
        BY <1>0, <2>4, <2>5 DEF OwnFile
  <2>9. /\ snapper[b][w] # "none" /\ UNCHANGED <<phase, snap>>
        /\ \A t \in Threads \ {Thread[b]} : tmp'[t] = tmp[t]
        BY <2>2, <2>3, <2>4
  <2> QED BY <1>8, <2>0, <2>5, <2>6, <2>7, <2>9
<1>12. ASSUME NEW b \in Able, NEW w \in Snappers, ReplaceSnapshot(b, w) PROVE SnapFresh'
  <2>0. b \in Bridges
        BY <1>0
  <2>1. snapper[b][w] = "written" /\ OwnFile(b, w)
        BY <1>12 DEF ReplaceSnapshot, SnapFresh
  <2>2. tmp[Thread[b]] = "fresh"
        BY <2>1 DEF OwnFile
  <2>3. \A v \in Snappers \ {w} : snapper[b][v] \in {"none", "listing"}
        BY <1>5, <2>0, <2>1 DEF Writing
  <2>4. /\ snapper' = [snapper EXCEPT ![b] = Renamed(b, w)]
        /\ snap' = [snap EXCEPT ![Thread[b]] = "fresh"]
        /\ tmp' = [tmp EXCEPT ![Thread[b]] = "none"]
        /\ phase' = [phase EXCEPT ![b] = IF @ = "opening" THEN "up" ELSE @]
        BY <1>12, <2>2 DEF ReplaceSnapshot, SnapshotDone
  <2>5. /\ \A c \in Bridges : snapper'[c] = IF c = b THEN Renamed(b, w) ELSE snapper[c]
        /\ \A t \in Threads : snap'[t] = IF t = Thread[b] THEN "fresh" ELSE snap[t]
        /\ \A t \in Threads : tmp'[t] = IF t = Thread[b] THEN "none" ELSE tmp[t]
        BY <1>0, <2>4 DEF SnapperType, SnapType
  <2>6. \A c \in Bridges \ {b} : phase'[c] = phase[c]
        BY <1>0, <2>4 DEF PhaseType
  <2>7. \A v \in Snappers : Renamed(b, w)[v] \in {"none", "listing"}
        BY <2>3 DEF Renamed, Detached
  <2>8. \A c \in Able : phase'[c] = "up" => snap'[Thread[c]] = "fresh"
        BY <1>0, <2>5, <2>6
  <2>9. ASSUME NEW c \in Bridges, NEW v \in Snappers
        PROVE  \/ snapper'[c][v] \in {"none", "listing"}
               \/ /\ snapper'[c][v] = snapper[c][v]
                  /\ snapper[c][v] \in {"in tmp", "written"} => tmp'[Thread[c]] = tmp[Thread[c]]
    <3>1. CASE c = b
          BY <2>5, <2>7, <3>1
    <3>2. CASE c # b
      <4>1. snapper[c][v] # "none" => Thread[c] # Thread[b]
            BY <1>0, <1>6, <2>0, <2>1, <3>2
      <4> QED BY <1>0, <2>5, <3>2, <4>1
    <3> QED BY <3>1, <3>2
  <2> QED BY <1>0, <2>8, <2>9, SnapFreshKept
<1>13. ASSUME NEW t \in Threads, Age(t) PROVE SnapFresh'
  <2>1. /\ \A b \in Able : Thread[b] = t => phase[b] # "up"
        /\ \A u \in Threads \ {t} : snap'[u] = snap[u]
        /\ UNCHANGED <<phase, tmp, snapper>>
        BY <1>0, <1>13 DEF Age, SnapType, Able
  <2>2. \A c \in Able : phase'[c] = "up" => snap'[Thread[c]] = "fresh"
        BY <1>0, <2>1
  <2> QED BY <2>1, <2>2, SnapFreshKept
<1>14. CASE (\E x \in Clients : Searching(x)) \/ UNCHANGED vars
  <2>1. UNCHANGED <<phase, snap, tmp, snapper>>
        BY <1>14 DEF Searching, Glob, Ask, ListPeers, Choose, Use, Load, ReadSnapshot,
           OnlyClient, vars
  <2> QED BY <1>1, <2>1
<1> QED BY <1>2, <1>3, <1>4, <1>9, <1>10, <1>11, <1>12, <1>13, <1>14, <1>16, <1>17 DEF Next, Searching

\* A command's own step loses no bridge that serves all along; only in the
\* sandbox do the snapshots matter for that.
LEMMA SearchingSteady ==
    ASSUME FilesInv, ClientTypeInv, NEW x \in Clients, Searching(x),
           client[x].step # "new" =>
               SteadyGood(x, client[x]) /\ (client[x].sandboxed => SnapFresh)
    PROVE  SteadyGood(x, client'[x])
<1> DEFINE c == client[x]
<1>0. /\ SearchType(c) /\ StateType /\ StateInv /\ StartedType /\ PhaseType
      /\ DOMAIN client = Clients /\ None \notin Bridges
      /\ c \in Searches /\ c.steady \subseteq Bridges
      /\ \A b \in Bridges : Thread[b] \in Threads
      /\ c.step # "new" => SteadyGood(x, c) /\ (c.sandboxed => SnapFresh)
      BY RoutingAssumption DEF ClientTypeInv, FilesInv, SearchType, Searches, Threads
<1>1. CASE Glob(x)
  <2>1. PICK inside \in BOOLEAN :
          /\ c.step = "new"
          /\ client'[x] = [c EXCEPT !.step = "load", !.sandboxed = inside,
             !.left = {t \in Threads : state[t] # None},
             !.steady = {b \in Bridges : phase[b] = "up" /\ ~(inside /\ b \in Failing)},
             !.ended = {b \in Bridges : phase[b] \in (IF inside THEN {"gone"} ELSE Ended)}]
        BY <1>0, <1>1 DEF Glob, ClientAt
  <2>2. /\ client'[x].step = "load"
        /\ client'[x].left = {t \in Threads : state[t] # None}
        /\ client'[x].sandboxed = inside
        /\ client'[x].steady = {b \in Bridges : phase[b] = "up" /\ ~(inside /\ b \in Failing)}
        BY <1>0, <2>1 DEF Searches
  <2>3. \A b \in Bridges : phase[b] = "up" => state[Thread[b]] # None
        BY <1>0 DEF StateInv
  <2> QED BY <1>0, <2>2, <2>3 DEF SteadyGood, Found, Able
<1>2. CASE Ask(x)
  <2>1. /\ c.step = "load" /\ c.left = {}
        /\ client'[x] = [c EXCEPT !.step = "ask", !.left = c.found]
        BY <1>0, <1>2 DEF Ask, ClientAt
  <2> QED BY <1>0, <2>1 DEF Searches, SteadyGood, Found
<1>3. CASE ListPeers(x)
  <2> DEFINE alive == {b \in c.found : \E d \in Bridges : Registered(d) /\ Pid[d] = Pid[b]}
  <2>1. /\ c.step = "ask"
        /\ client'[x] = [c EXCEPT !.step = "choose", !.left = {}, !.alive = alive]
        BY <1>0, <1>3 DEF ListPeers, ClientAt
  <2>2. c.steady \subseteq alive
        BY <1>0, <2>1 DEF SteadyGood, Registered
  <2> HIDE DEF alive
  <2> QED BY <1>0, <2>1, <2>2 DEF Searches, SteadyGood, Found
<1>4. CASE Choose(x)
  <2> DEFINE p == IF Choice(x) = None THEN "no bridge" ELSE "use"
  <2>1. /\ c.step = "choose" \/ (c.step = "ask" /\ c.found = {})
        /\ client'[x] = [c EXCEPT !.step = p,
                          !.chosen = Choice(x), !.left = {}, !.found = {}, !.alive = {}]
        BY <1>0, <1>4 DEF Choose
  <2>2. c.steady \subseteq c.alive
        BY <1>0, <2>1 DEF SteadyGood, Searches
  <2>3. /\ c.alive = {} => Choice(x) = None
        /\ c.alive # {} =>
              /\ Choice(x) \in c.alive
              /\ \A b \in c.alive :
                    /\ x \in Covers[b] => x \in Covers[Choice(x)]
                    /\ (x \in Covers[b] <=> x \in Covers[Choice(x)])
                          => started[b] <= started[Choice(x)]
        BY <1>0, ChoiceIs
  <2>4. /\ client'[x].step = p /\ client'[x].chosen = Choice(x)
        /\ client'[x].steady = c.steady /\ client'[x].sandboxed = c.sandboxed
        BY <1>0, <2>1 DEF Searches
  <2>5. (\A i \in c.steady : phase[i] = "up") /\ (c.sandboxed => c.steady \subseteq Able)
        BY <1>0, <2>1 DEF SteadyGood
  <2>6. Choice(x) = None => c.steady = {}
        BY <1>0, <2>2, <2>3 DEF Searches
  <2>7. Choice(x) # None => \A b \in c.steady :
            /\ x \in Covers[b] => x \in Covers[Choice(x)]
            /\ (x \in Covers[b] <=> x \in Covers[Choice(x)]) => started[b] <= started[Choice(x)]
        BY <2>2, <2>3
  <2>8. p \in {"no bridge", "use"} /\ (p = "use" <=> Choice(x) # None)
        OBVIOUS
  <2> HIDE DEF p
  <2> QED BY <2>4, <2>5, <2>6, <2>7, <2>8 DEF SteadyGood, Found
<1>5. CASE Use(x)
  <2>1. /\ c.step = "use"
        /\ \/ client'[x] = [NotLooking EXCEPT !.step = "served"]
           \/ /\ client'[x] = [c EXCEPT !.step = "failed"]
              /\ ~(IF c.sandboxed THEN snap[Thread[c.chosen]] = "fresh" ELSE Registered(c.chosen))
        BY <1>0, <1>5 DEF Use, ClientAt
  <2>2. \A b \in c.steady : Registered(b) /\ (c.sandboxed => snap[Thread[b]] = "fresh")
        BY <1>0, <2>1 DEF SteadyGood, SnapFresh, Registered
  <2> QED BY <1>0, <2>1, <2>2 DEF Searches, NotLooking, SteadyGood, Found
<1>6. ASSUME NEW t \in Threads, Load(x, t) PROVE SteadyGood(x, client'[x])
  <2> DEFINE found == c.found \cup ({state[t]} \ {None})
             left == c.left \ {t}
  <2>1. /\ c.step = "load"
        /\ client'[x] = [c EXCEPT !.left = left, !.found = found]
        BY <1>0, <1>6 DEF Load, ClientAt
  <2>2. \A b \in c.steady : b \in found \/ Thread[b] \in left
        BY <1>0, <2>1 DEF SteadyGood, StateInv
  <2>4. (\A b \in c.steady : phase[b] = "up") /\ (c.sandboxed => c.steady \subseteq Able)
        BY <1>0, <2>1 DEF SteadyGood
  <2> HIDE DEF found, left
  <2>3. /\ client'[x].step = "load" /\ client'[x].left = left /\ client'[x].found = found
        /\ client'[x].steady = c.steady /\ client'[x].sandboxed = c.sandboxed
        BY <1>0, <2>1 DEF Searches
  <2> QED BY <2>2, <2>3, <2>4 DEF SteadyGood, Found
<1>7. ASSUME NEW b \in Bridges, ReadSnapshot(x, b) PROVE SteadyGood(x, client'[x])
  <2> DEFINE p == IF c.step = "ask" /\ c.left = {b} THEN "choose" ELSE c.step
             a == IF snap[Thread[b]] = "fresh" THEN c.alive \cup {b} ELSE c.alive
             l == c.left \ {b}
  <2>1. /\ c.step = "ask" /\ b \in c.left /\ c.sandboxed
        /\ client'[x] = [c EXCEPT !.left = l, !.step = p, !.alive = a]
        BY <1>0, <1>7 DEF ReadSnapshot, ClientAt
  <2>0. SnapFresh /\ SteadyGood(x, c) /\ c.steady \subseteq Bridges
        BY <1>0, <2>1
  <2>6. \A i \in c.steady : snap[Thread[i]] = "fresh" /\ i \in c.left \cup c.alive
        BY <2>0, <2>1 DEF SteadyGood, SnapFresh
  <2>2. c.steady \subseteq l \cup a
        BY <2>6
  <2>3. p = "ask" \/ (p = "choose" /\ l = {})
        BY <2>1
  <2> HIDE DEF p, a, l
  <2>4. /\ client'[x].step = p /\ client'[x].left = l /\ client'[x].alive = a
        /\ client'[x].steady = c.steady /\ client'[x].found = c.found
        /\ client'[x].sandboxed = c.sandboxed
        BY <1>0, <2>1 DEF Searches
  <2>5. \A i \in c.steady : phase[i] = "up" /\ i \in c.found /\ i \in Able
        BY <1>0, <2>1 DEF SteadyGood
  <2> QED BY <2>2, <2>3, <2>4, <2>5 DEF SteadyGood, Found
<1> QED BY <1>1, <1>2, <1>3, <1>4, <1>5, <1>6, <1>7 DEF Searching

\* A command stays in its shell.
LEMMA SearchingShell ==
    ASSUME ClientTypeInv, NEW x \in Clients, Searching(x), client[x].step # "new",
           client'[x] # [NotLooking EXCEPT !.step = "served"]
    PROVE  client'[x].sandboxed = client[x].sandboxed
<1>1. client[x] \in Searches /\ DOMAIN client = Clients
      BY DEF ClientTypeInv, SearchType
<1>2. CASE Ask(x) \/ ListPeers(x) \/ \E t \in Threads : Load(x, t)
      BY <1>1, <1>2 DEF Ask, ListPeers, Load, ClientAt, Searches
<1>3. CASE Choose(x)
      BY <1>1, <1>3 DEF Choose, Searches
<1>5. CASE Use(x) \/ Glob(x)
      BY <1>1, <1>5 DEF Use, Glob, ClientAt, Searches
<1>4. CASE \E b \in Bridges : ReadSnapshot(x, b)
      BY <1>1, <1>4 DEF ReadSnapshot, ClientAt, Searches
<1> QED BY <1>2, <1>3, <1>4, <1>5 DEF Searching

LEMMA ClientSteadyStep ==
    ASSUME NEW K \in SUBSET BOOLEAN, FilesInv, ClientTypeInv, ClientSteadyInv(K),
           TRUE \in K => SnapFresh, [Next]_vars
    PROVE  ClientSteadyInv(K)'
<1>0. PhaseType
      BY DEF FilesInv
<1>1. \A b \in Bridges : /\ started'[b] \in Nat /\ started[b] \in Nat /\ started[b] <= started'[b]
                         /\ phase[b] = "up" => started'[b] = started[b]
      BY PhaseSteps
\* A bridge that serves no longer is counted on no more.
<1>2. ASSUME NEW b \in Bridges, phase[b] = "up", phase'[b] # "up"
      PROVE  client' = Unsteady(b)
  <2>1. \A c \in Bridges, w \in Snappers :
            ReplaceSnapshot(c, w) \/ SnapshotFails(c, w) => FALSE
    <3>1. SUFFICES ASSUME NEW c \in Bridges,
                          phase' = [phase EXCEPT ![c] = IF @ = "opening" THEN "up" ELSE @]
                   PROVE  FALSE
          BY DEF ReplaceSnapshot, SnapshotFails, SnapshotDone
    <3> QED BY <1>0, <1>2, <3>1 DEF PhaseType
  <2>2. Leave(b) \/ Exit(b) \/ Crash(b)
        BY <1>0, <1>2, <2>1 DEF Next, vars, PhaseType, Start, Leave, UnlinkState,
           UnlinkSnapshot, Exit, Crash, End, BeginSnapshot, OpenSnapshot, WriteSnapshot, Age,
           Glob, Ask, ListPeers, Choose, Use, Load, ReadSnapshot, OnlyClient
  <2> QED BY <2>2 DEF Leave, Exit, Crash, End
<1>3. ASSUME NEW x \in Clients, client'[x].sandboxed \in K PROVE SteadyGood(x, client[x])'
  <2>1. /\ client[x] \in Searches
        /\ client[x].step = "use" => client[x].chosen \in Bridges
        /\ client[x].sandboxed \in K => SteadyGood(x, client[x])
        BY DEF ClientSteadyInv, ClientTypeInv, SearchType, Searches
  <2>2. ASSUME client'[x] = client[x] \/ \E b \in Bridges : Dropped(b, x)
        PROVE  SteadyGood(x, client[x])'
    <3>0. SteadyGood(x, client[x])
          BY <1>3, <2>1, <2>2 DEF Dropped, Searches
    <3> DEFINE S == client'[x].steady
    <3>1. S \subseteq client[x].steady /\ client'[x] = [client[x] EXCEPT !.steady = S]
          BY <2>1, <2>2 DEF Dropped, Searches
    <3>2. ASSUME NEW b \in S, phase'[b] # "up" PROVE FALSE
      <4>1. b \in Bridges /\ phase[b] = "up"
            BY <2>1, <3>0, <3>1 DEF SteadyGood, Searches
      <4>2. client'[x].steady = client[x].steady \ {b}
            BY <1>2, <2>1, <3>2, <4>1 DEF Unsteady, Searches
      <4> QED BY <3>2, <4>2
    <3>3. \A b \in S : /\ b \in client[x].steady /\ phase'[b] = "up"
                       /\ started'[b] = started[b] /\ started[b] \in Nat
          BY <1>1, <2>1, <3>0, <3>1, <3>2 DEF SteadyGood, Searches
    <3> HIDE DEF S
    <3>4. /\ client'[x].steady = S /\ client'[x].step = client[x].step
          /\ client'[x].left = client[x].left /\ client'[x].found = client[x].found
          /\ client'[x].alive = client[x].alive /\ client'[x].chosen = client[x].chosen
          /\ client'[x].sandboxed = client[x].sandboxed
          BY <2>1, <3>1 DEF Searches
    <3>5. Found(x, client[x])'
      <4> DEFINE d == client[x].chosen
      <4>1. CASE client[x].step = "use"
        <5>1. d \in Bridges /\ started[d] \in Nat /\ started'[d] \in Nat /\ started[d] <= started'[d]
              BY <1>1, <2>1, <4>1
        <5>2. \A b \in S : /\ x \in Covers[b] => x \in Covers[d]
                           /\ (x \in Covers[b] <=> x \in Covers[d]) => started[b] <= started[d]
              BY <3>0, <3>3, <4>1 DEF SteadyGood, Found
        <5>3. \A b \in S : started[b] <= started[d] => started'[b] <= started'[d]
              BY <3>3, <5>1
        <5> QED BY <3>4, <4>1, <5>2, <5>3 DEF Found
      <4>2. CASE client[x].step # "use"
            BY <3>0, <3>1, <3>4, <4>2 DEF SteadyGood, Found
      <4> QED BY <4>1, <4>2
    <3> QED BY <3>0, <3>1, <3>3, <3>4, <3>5 DEF SteadyGood
  <2>3. CASE Searching(x)
    <3>1. SteadyGood(x, client'[x])
      <4>1. CASE client[x].step = "new"
            BY <2>3, <4>1, SearchingSteady
      <4>2. CASE client'[x] = [NotLooking EXCEPT !.step = "served"]
            BY <4>2 DEF NotLooking, SteadyGood, Found
      <4>3. CASE client[x].step # "new" /\ client'[x] # [NotLooking EXCEPT !.step = "served"]
        <5>1. client'[x].sandboxed = client[x].sandboxed
              BY <2>1, <2>3, <4>3, SearchingShell
        <5>2. SteadyGood(x, client[x]) /\ (client[x].sandboxed => SnapFresh)
              BY <1>3, <2>1, <5>1
        <5> QED BY <2>3, <5>2, SearchingSteady
      <4> QED BY <4>1, <4>2, <4>3
    <3>2. UNCHANGED <<phase, started>>
          BY <2>3 DEF Searching, Glob, Ask, ListPeers, Choose, Use, Load, ReadSnapshot, OnlyClient
    <3> QED BY <3>1, <3>2 DEF SteadyGood, Found
  <2> QED BY <2>2, <2>3, ClientMoves
<1> QED BY <1>3 DEF ClientSteadyInv

LEMMA SteadyInit == Init => SnapFresh /\ \A K \in SUBSET BOOLEAN : ClientSteadyInv(K)
<1> SUFFICES ASSUME Init PROVE SnapFresh /\ \A K \in SUBSET BOOLEAN : ClientSteadyInv(K)
    OBVIOUS
<1>1. \A b \in Bridges : phase[b] = "unborn" /\ \A w \in Snappers : snapper[b][w] = "none"
      BY RoutingAssumption DEF Init
<1>2. \A x \in Clients : client[x].step = "new" /\ client[x].steady = {}
      BY DEF Init, NotLooking
<1> QED BY <1>1, <1>2 DEF SnapFresh, OwnFile, ClientSteadyInv, SteadyGood, Found, Able

LEMMA ClientTypeAlways == Spec => []ClientTypeInv
<1>1. ClientTypeInv /\ []FilesInv /\ [][Next]_vars => []ClientTypeInv
      BY ClientTypeStep, PTL
<1> QED BY <1>1, ClientTypeInit, FilesInvAlways, PTL DEF Spec

\* find_bridge finds "the newest live bridge whose cwd contains the current
\* directory, else the newest live bridge", and it answers: a bridge that
\* serves all through a search, and in the sandbox can write its snapshots, is
\* passed over for a better one only.  That is
\* so wherever no two snapshot threads of a bridge write at the same time: when
\* they do, a torn snapshot hides a live bridge (bug_torn_snapshot).
THEOREM LiveFound == Spec /\ []NoOverlap => []LiveBridgeFound
<1> DEFINE Steady == ClientSteadyInv(BOOLEAN)
<1>1. Init => SnapFresh /\ Steady
      BY SteadyInit
<1>2. ClientTypeInv /\ Steady => LiveBridgeFound
  <2>1. ClientTypeInv => \A x \in Clients : client[x].sandboxed \in BOOLEAN
        BY DEF ClientTypeInv, SearchType, Searches
  <2> QED BY <2>1 DEF ClientSteadyInv, SteadyGood, Found, LiveBridgeFound
<1>3. FilesInv /\ SnapFresh /\ ClientTypeInv /\ Steady /\ [Next]_vars => Steady'
      BY ClientSteadyStep
<1> HIDE DEF Steady
<1>4. SnapFresh /\ []FilesInv /\ []NoOverlap /\ [][Next]_vars => []SnapFresh
      BY SnapFreshStep, PTL
<1>5. Steady /\ []FilesInv /\ []SnapFresh /\ []ClientTypeInv /\ [][Next]_vars => []Steady
      BY <1>3, PTL
<1> QED BY <1>1, <1>2, <1>4, <1>5, ClientTypeAlways, FilesInvAlways, PTL DEF Spec

\* In particular it is so of bridges that wait for one snapshot to be written
\* before they begin the next.
COROLLARY OneAtATimeFinds ==
    ASSUME \A w \in Snappers : w = First
    PROVE  Spec => []LiveBridgeFound
<1>1. NoOverlap
      BY DEF NoOverlap
<1> QED BY <1>1, LiveFound, PTL

\* What LiveBridgeFound says, of the commands in an open shell.
FoundInOpenShell ==
    \A x \in Clients : ~client[x].sandboxed => Found(x, client[x])

\* In an open shell, where find_bridge asks the registry and ps and not the
\* snapshots, all of that holds whatever the snapshot threads do.
THEOREM OpenShellFinds == Spec => []FoundInOpenShell
<1> DEFINE Steady == ClientSteadyInv({FALSE})
<1>1. Init => Steady
      BY SteadyInit
<1>2. ClientTypeInv /\ Steady => FoundInOpenShell
  <2>1. ClientTypeInv => \A x \in Clients : client[x].sandboxed \in BOOLEAN
        BY DEF ClientTypeInv, SearchType, Searches
  <2> QED BY <2>1 DEF ClientSteadyInv, SteadyGood, FoundInOpenShell
<1>3. FilesInv /\ ClientTypeInv /\ Steady /\ [Next]_vars => Steady'
  <2>1. {FALSE} \in SUBSET BOOLEAN /\ TRUE \notin {FALSE}
        OBVIOUS
  <2> QED BY <2>1, ClientSteadyStep
<1> HIDE DEF Steady
<1>4. Steady /\ []FilesInv /\ []ClientTypeInv /\ [][Next]_vars => []Steady
      BY <1>3, PTL
<1> QED BY <1>1, <1>2, <1>4, ClientTypeAlways, FilesInvAlways, PTL DEF Spec
=============================================================================
