---------------------------- MODULE RegistryProofs ----------------------------
(***************************************************************************)
(* What the registry's files say of a bridge, for every number of          *)
(* accounts, bridges and pids, whatever fails in the accounts that cannot  *)
(* be written, and whichever threads rewrite the status at the time.       *)
(***************************************************************************)
EXTENDS Registry, NaturalsInduction, WellFoundedInduction, TLAPS

Sound == Dirs \ Flaky

\* The file operations of the main thread that are behind it.
RecordDone(b, d) == d < at[b].dir \/ (d = at[b].dir /\ at[b].file = "key")
KeyDone(b, d) == d < at[b].dir

\* A status is being set that has not reached account d.
Pending(b, d) == \E s \in Statuses : setter[b][s].step # "none" /\ setter[b][s].dir <= d

RecordType == record \in [Dirs -> [Pids -> OrNone(Records)]]
KeyType == key \in [Dirs -> [Pids -> OrNone(Bridges)]]
ThreadType ==
    /\ phase \in [Bridges -> {"unborn", "registering", "up", "deregistering",
                              "gone", "crashed"}]
    /\ at \in [Bridges -> [dir : 1..(Accounts + 1), file : {"record", "key"}]]
    /\ status \in [Bridges -> Statuses]
SetterType ==
    setter \in [Bridges -> [Statuses ->
                  [step : {"none", "read", "write"}, dir : Dirs, was : OrNone(Records)]]]

\* At most one bridge of a pid runs.
AloneInv == \A b, c \in Bridges : Running(b) /\ Running(c) /\ Pid[b] = Pid[c] => b = c

\* The threads of a bridge: one status at a time, and it is the bridge's; none
\* before it serves, and none in an exit that no thread has come into.
ThreadInv(b) ==
    /\ phase[b] \notin {"up", "deregistering"} => ~Setting(b)
    /\ phase[b] \in {"unborn", "registering"} => status[b] = "idle"
    /\ phase[b] = "unborn" => at[b] = FirstFile
    /\ phase[b] = "deregistering" /\ b \notin raced => ~Setting(b)
    /\ \A s \in Statuses : setter[b][s].step # "none" =>
          /\ status[b] = s
          /\ \A t \in Statuses : t # s => setter[b][t].step = "none"
    /\ \A s \in Statuses : setter[b][s].step = "none" => setter[b][s] = NotSetting
    /\ \A s \in Statuses : setter[b][s].step = "write" => setter[b][s].was # None

\* The files of a bridge in an account that can be written.
FileInv(b, d) ==
    /\ phase[b] = "registering" =>
          /\ RecordDone(b, d) => record[d][Pid[b]] = [owner |-> b, status |-> "idle"]
          /\ KeyDone(b, d) => key[d][Pid[b]] = b
    /\ phase[b] = "up" =>
          /\ key[d][Pid[b]] = b
          /\ record[d][Pid[b]] # None /\ record[d][Pid[b]].owner = b
          /\ ~Pending(b, d) => record[d][Pid[b]].status = status[b]
    /\ phase[b] = "deregistering" =>
          /\ record[d][Pid[b]] = None \/ record[d][Pid[b]].owner = b
          /\ RecordDone(b, d) /\ b \notin raced => record[d][Pid[b]] = None
          /\ KeyDone(b, d) => key[d][Pid[b]] = None
    /\ phase[b] = "gone" =>
          /\ key[d][Pid[b]] # b
          /\ record[d][Pid[b]] # None /\ record[d][Pid[b]].owner = b => b \in raced
    /\ \A s \in Statuses :
          setter[b][s].step = "write" /\ setter[b][s].dir = d =>
              setter[b][s].was # None /\ setter[b][s].was.owner = b

RegistryInv ==
    /\ RecordType /\ KeyType /\ ThreadType /\ SetterType /\ AloneInv
    /\ \A b \in Bridges : ThreadInv(b) /\ \A d \in Sound : FileInv(b, d)

LEMMA RegistryInitGood == Init => RegistryInv
<1> SUFFICES ASSUME Init PROVE RegistryInv
    OBVIOUS
<1>0. Accounts \in Nat \ {0} /\ 1 \in Dirs
      BY RegistryAssumption DEF Dirs
<1>1. RecordType /\ KeyType
      BY DEF Init, RecordType, KeyType, OrNone
<1>2. ThreadType
      BY <1>0 DEF Init, ThreadType, FirstFile, Statuses
<1>3. SetterType
      BY <1>0 DEF Init, SetterType, NotSetting, OrNone
<1>4. AloneInv
      BY DEF Init, AloneInv, Running
<1>5. ASSUME NEW b \in Bridges PROVE ThreadInv(b)
      BY DEF Init, ThreadInv, Setting, NotSetting
<1>6. ASSUME NEW b \in Bridges, NEW d \in Sound PROVE FileInv(b, d)
      BY DEF Init, FileInv, NotSetting
<1> QED BY <1>1, <1>2, <1>3, <1>4, <1>5, <1>6 DEF RegistryInv

-----------------------------------------------------------------------------
(* The types.                                                              *)

LEMMA AccountBounds ==
    /\ Accounts \in Nat \ {0} /\ 1 \in Dirs /\ FirstFile \in [dir : 1..(Accounts + 1), file : {"record", "key"}]
    /\ \A b \in Bridges : Pid[b] \in Pids
    /\ None \notin Bridges /\ None \notin Records
    /\ NotSetting \in [step : {"none", "read", "write"}, dir : Dirs, was : OrNone(Records)]
<1>1. Accounts \in Nat \ {0} /\ 1 \in Dirs
      BY RegistryAssumption DEF Dirs
<1>2. FirstFile \in [dir : 1..(Accounts + 1), file : {"record", "key"}]
      BY <1>1 DEF FirstFile
<1>3. /\ \A b \in Bridges : Pid[b] \in Pids
      /\ None \notin Bridges /\ None \notin Records
      BY RegistryAssumption DEF Pids, Records
<1> QED BY <1>1, <1>2, <1>3 DEF NotSetting, OrNone

\* The main thread goes from one file to the next, and skips none of an account
\* that can be written.
LEMMA NextFileGood ==
    ASSUME ThreadType, NEW b \in Bridges, at[b].dir \in Dirs, NEW ok \in Outcomes(at[b].dir)
    PROVE  /\ NextFile(at[b], ok) \in [dir : 1..(Accounts + 1), file : {"record", "key"}]
           /\ at[b].dir \in Sound =>
                 NextFile(at[b], ok) = IF at[b].file = "record"
                                       THEN [dir |-> at[b].dir, file |-> "key"]
                                       ELSE [dir |-> at[b].dir + 1, file |-> "record"]
           /\ at[b].dir \notin Sound =>
                 \/ NextFile(at[b], ok) = [dir |-> at[b].dir, file |-> "key"]
                 \/ NextFile(at[b], ok) = [dir |-> at[b].dir + 1, file |-> "record"]
<1>1. at[b] \in [dir : 1..(Accounts + 1), file : {"record", "key"}] /\ Accounts \in Nat
      BY AccountBounds DEF ThreadType
<1>2. at[b].dir \in 1..Accounts
      BY DEF Dirs
<1>3. at[b].dir + 1 \in 1..(Accounts + 1)
      BY <1>1, <1>2
<1>4. [at[b] EXCEPT !.file = "key"] = [dir |-> at[b].dir, file |-> "key"]
      BY <1>1
<1>5. at[b].dir \in Sound => ok
      BY DEF Sound, Outcomes
<1> QED BY <1>1, <1>2, <1>3, <1>4, <1>5 DEF NextFile

LEMMA NextAccountGood ==
    ASSUME SetterType, NEW b \in Bridges, NEW s \in Statuses
    PROVE  /\ NextAccount(setter[b][s]) \in [step : {"none", "read", "write"}, dir : Dirs, was : OrNone(Records)]
           /\ IF setter[b][s].dir = Accounts
              THEN NextAccount(setter[b][s]).step = "none"
              ELSE /\ NextAccount(setter[b][s]).step = "read"
                   /\ NextAccount(setter[b][s]).dir = setter[b][s].dir + 1
<1>1. setter[b][s].dir \in 1..Accounts /\ Accounts \in Nat
      BY AccountBounds DEF SetterType, Dirs
<1>2. CASE setter[b][s].dir = Accounts
      BY <1>2, AccountBounds DEF NextAccount, NotSetting
<1>3. CASE setter[b][s].dir # Accounts
  <2>1. setter[b][s].dir + 1 \in Dirs
        BY <1>1, <1>3 DEF Dirs
  <2>2. NextAccount(setter[b][s]) = [step |-> "read", dir |-> setter[b][s].dir + 1, was |-> None]
        BY <1>3 DEF NextAccount
  <2> QED BY <1>3, <2>1, <2>2 DEF OrNone
<1> QED BY <1>2, <1>3

-----------------------------------------------------------------------------
(* What a step of one bridge leaves alone.                                 *)

FileTypes == RecordType /\ KeyType /\ ThreadType /\ SetterType

\* Its process touches no other's variables,
OwnOnly(b) ==
    /\ \A c \in Bridges \ {b} :
          /\ phase'[c] = phase[c] /\ at'[c] = at[c]
          /\ status'[c] = status[c] /\ setter'[c] = setter[c]
    /\ raced \subseteq raced' /\ raced' \subseteq raced \cup {b}

\* and in an account that can be written it leaves at its own pid what was
\* there, nothing, or its own.
Touches(b, d) ==
    /\ \A p \in Pids \ {Pid[b]} :
          record'[d][p] = record[d][p] /\ key'[d][p] = key[d][p]
    /\ \/ record'[d][Pid[b]] = record[d][Pid[b]]
       \/ Running(b) /\ record'[d][Pid[b]] = None
       \/ Running(b) /\ record'[d][Pid[b]] # None /\ record'[d][Pid[b]].owner = b
    /\ \/ key'[d][Pid[b]] = key[d][Pid[b]]
       \/ Running(b) /\ key'[d][Pid[b]] \in {None, b}

Undisturbed(b) == OwnOnly(b) /\ \A d \in Sound : Touches(b, d)
Own(b) == ThreadInv(b) /\ \A d \in Sound : FileInv(b, d)

\* So what holds of another bridge still does.
LEMMA OthersStay ==
    ASSUME FileTypes, AloneInv, NEW b \in Bridges, Undisturbed(b),
           NEW c \in Bridges, c # b, Own(c)
    PROVE  Own(c)'
<1>1. /\ phase'[c] = phase[c] /\ at'[c] = at[c]
      /\ status'[c] = status[c] /\ setter'[c] = setter[c]
      /\ c \in raced' <=> c \in raced
      BY DEF Undisturbed, OwnOnly
<1>2. ThreadInv(c)'
      BY <1>1 DEF Own, ThreadInv, Setting
<1>3. ASSUME NEW d \in Sound PROVE FileInv(c, d)'
  <2>1. FileInv(c, d) /\ Touches(b, d) /\ Pid[b] \in Pids /\ Pid[c] \in Pids
        BY AccountBounds DEF Own, Undisturbed
  <2>2. CASE record'[d][Pid[c]] = record[d][Pid[c]] /\ key'[d][Pid[c]] = key[d][Pid[c]]
        BY <1>1, <2>1, <2>2 DEF FileInv, RecordDone, KeyDone, Pending
  <2>3. CASE ~(record'[d][Pid[c]] = record[d][Pid[c]] /\ key'[d][Pid[c]] = key[d][Pid[c]])
    <3>1. Pid[b] = Pid[c] /\ Running(b)
          BY <2>1, <2>3 DEF Touches
    <3>2. ~Running(c)
          BY <3>1 DEF AloneInv
    <3>3. phase'[c] \notin {"registering", "up", "deregistering"}
          BY <1>1, <3>2 DEF Running
    <3>4. \A s \in Statuses : setter[c][s].step = "none"
          BY <3>2 DEF Own, ThreadInv, Running, Setting
    <3>5. phase[c] = "gone" =>
              /\ key'[d][Pid[c]] # c
              /\ record'[d][Pid[c]] # None /\ record'[d][Pid[c]].owner = c => c \in raced
          BY <2>1, <3>1, AccountBounds DEF FileInv, Touches
    <3> QED BY <1>1, <3>3, <3>4, <3>5 DEF FileInv
  <2> QED BY <2>2, <2>3
<1> QED BY <1>2, <1>3 DEF Own

-----------------------------------------------------------------------------
(* The main thread.                                                        *)

\* A step of the main thread, or of a status thread, that keeps all this.
Good(b) ==
    /\ FileTypes' /\ Undisturbed(b) /\ Own(b)'
    /\ phase'[b] \in {"registering", "up", "deregistering"} =>
          Running(b) \/ \A c \in Bridges : Pid[c] = Pid[b] => ~Running(c)

LEMMA StartGood ==
    ASSUME FileTypes, NEW b \in Bridges, Own(b), Start(b)
    PROVE  Good(b)
<1>1. /\ phase[b] = "unborn" /\ phase'[b] = "registering"
      /\ UNCHANGED <<record, key, at, status, setter, raced>>
      BY DEF Start, FileTypes, ThreadType
<1>2. FileTypes'
      BY <1>1 DEF Start, FileTypes, RecordType, KeyType, ThreadType, SetterType
<1>3. Undisturbed(b)
      BY <1>1 DEF Start, Undisturbed, OwnOnly, Touches, FileTypes, ThreadType
<1>4. at[b] = FirstFile /\ status[b] = "idle" /\ ~Setting(b)
      BY <1>1 DEF Own, ThreadInv
<1>5. ThreadInv(b)'
      BY <1>1, <1>4 DEF ThreadInv, Own, Setting
<1>6. ASSUME NEW d \in Sound PROVE FileInv(b, d)'
  <2>1. d \in Nat /\ 1 <= d
        BY AccountBounds DEF Sound, Dirs
  <2>2. ~RecordDone(b, d)' /\ ~KeyDone(b, d)'
        BY <1>1, <1>4, <2>1 DEF RecordDone, KeyDone, FirstFile
  <2>3. FileInv(b, d)
        BY DEF Own
  <2> QED BY <1>1, <2>2, <2>3 DEF FileInv
<1> QED BY <1>1, <1>2, <1>3, <1>5, <1>6 DEF Start, Good, Own

\* What PutFile does to the files.
LEMMA PutFileDoes ==
    ASSUME FileTypes, NEW b \in Bridges, at[b].dir \in Dirs, NEW ok \in Outcomes(at[b].dir),
           NEW rec \in OrNone(Records), NEW owner \in OrNone(Bridges),
           PutFile(b, ok, rec, owner)
    PROVE  /\ FileTypes'
           /\ at'[b] = NextFile(at[b], ok) /\ OwnOnly(b)
           /\ UNCHANGED <<phase, status, setter, raced>>
           /\ \A d \in Sound :
                 /\ \A p \in Pids \ {Pid[b]} :
                       record'[d][p] = record[d][p] /\ key'[d][p] = key[d][p]
                 /\ record'[d][Pid[b]] = IF d = at[b].dir /\ at[b].file = "record"
                                         THEN rec ELSE record[d][Pid[b]]
                 /\ key'[d][Pid[b]] = IF d = at[b].dir /\ at[b].file = "key"
                                      THEN owner ELSE key[d][Pid[b]]
<1>1. Pid[b] \in Pids /\ NextFile(at[b], ok) \in [dir : 1..(Accounts + 1), file : {"record", "key"}]
      BY AccountBounds, NextFileGood DEF FileTypes
<1>2. RecordType'
      BY <1>1 DEF PutFile, FileTypes, RecordType
<1>3. KeyType'
      BY <1>1 DEF PutFile, FileTypes, KeyType
<1>4. at'[b] = NextFile(at[b], ok) /\ \A c \in Bridges \ {b} : at'[c] = at[c]
      BY DEF PutFile, FileTypes, ThreadType
<1>5. ThreadType' /\ SetterType'
      BY <1>1 DEF PutFile, FileTypes, ThreadType, SetterType
<1>6. OwnOnly(b)
      BY <1>4 DEF PutFile, OwnOnly
<1>7. ASSUME NEW d \in Sound
      PROVE  /\ \A p \in Pids \ {Pid[b]} :
                   record'[d][p] = record[d][p] /\ key'[d][p] = key[d][p]
             /\ record'[d][Pid[b]] = IF d = at[b].dir /\ at[b].file = "record"
                                     THEN rec ELSE record[d][Pid[b]]
             /\ key'[d][Pid[b]] = IF d = at[b].dir /\ at[b].file = "key"
                                  THEN owner ELSE key[d][Pid[b]]
  <2>1. d \in Dirs /\ (d = at[b].dir => ok)
        BY DEF Sound, Outcomes
  <2>2. /\ \A p \in Pids \ {Pid[b]} : record'[d][p] = record[d][p]
        /\ record'[d][Pid[b]] = IF d = at[b].dir /\ at[b].file = "record"
                                THEN rec ELSE record[d][Pid[b]]
        BY <1>1, <2>1 DEF PutFile, FileTypes, RecordType
  <2>3. /\ \A p \in Pids \ {Pid[b]} : key'[d][p] = key[d][p]
        /\ key'[d][Pid[b]] = IF d = at[b].dir /\ at[b].file = "key"
                             THEN owner ELSE key[d][Pid[b]]
        BY <1>1, <2>1 DEF PutFile, FileTypes, KeyType
  <2> QED BY <2>2, <2>3
<1> QED BY <1>2, <1>3, <1>4, <1>5, <1>6, <1>7 DEF PutFile, FileTypes

\* The order of the files: what is done after a step was done before, or is the
\* file at hand.
LEMMA DoneNext ==
    ASSUME FileTypes, NEW b \in Bridges, at[b].dir \in Dirs, NEW ok \in Outcomes(at[b].dir),
           at'[b] = NextFile(at[b], ok), NEW d \in Sound
    PROVE  /\ RecordDone(b, d)' => RecordDone(b, d) \/ (d = at[b].dir /\ at[b].file = "record")
           /\ KeyDone(b, d)' => KeyDone(b, d) \/ (d = at[b].dir /\ at[b].file = "key")
           /\ d = at[b].dir /\ at[b].file = "record" => ~KeyDone(b, d)'
<1>1. d \in Nat /\ at[b].dir \in Nat /\ at[b].file \in {"record", "key"}
      BY AccountBounds DEF Sound, Dirs, FileTypes, ThreadType
<1>2. ThreadType
      BY DEF FileTypes
<1>3. CASE at[b].dir \in Sound /\ at[b].file = "record"
  <2>1. at'[b] = [dir |-> at[b].dir, file |-> "key"]
        BY <1>2, <1>3, NextFileGood
  <2>2. at'[b].dir = at[b].dir /\ at'[b].file = "key"
        BY <2>1
  <2> QED BY <1>1, <1>3, <2>2 DEF RecordDone, KeyDone
<1>4. CASE at[b].dir \in Sound /\ at[b].file = "key"
  <2>1. at'[b] = [dir |-> at[b].dir + 1, file |-> "record"]
        BY <1>2, <1>4, NextFileGood
  <2>2. at'[b].dir = at[b].dir + 1 /\ at'[b].file = "record"
        BY <2>1
  <2> QED BY <1>1, <1>4, <2>2 DEF RecordDone, KeyDone
<1>5. CASE at[b].dir \notin Sound
  <2>1. \/ at'[b] = [dir |-> at[b].dir, file |-> "key"]
        \/ at'[b] = [dir |-> at[b].dir + 1, file |-> "record"]
        BY <1>2, <1>5, NextFileGood
  <2>2. at'[b].dir \in {at[b].dir, at[b].dir + 1} /\ d # at[b].dir
        /\ (at'[b].dir = at[b].dir + 1 => at'[b].file = "record")
        BY <1>1, <1>5, <2>1
  <2> QED BY <1>1, <2>2 DEF RecordDone, KeyDone
<1> QED BY <1>1, <1>3, <1>4, <1>5

LEMMA RegisterGood ==
    ASSUME FileTypes, NEW b \in Bridges, Own(b), Register(b)
    PROVE  Good(b)
<1> DEFINE mine == [owner |-> b, status |-> "idle"]
<1>1. /\ phase[b] = "registering" /\ at[b].dir \in Dirs /\ Running(b)
      /\ mine \in OrNone(Records) /\ b \in OrNone(Bridges) /\ mine # None
      BY AccountBounds DEF Register, Running, OrNone, Records, Statuses
<1>2. PICK ok \in Outcomes(at[b].dir) : PutFile(b, ok, mine, b)
      BY DEF Register
<1> HIDE DEF mine
<1>3. /\ FileTypes' /\ OwnOnly(b) /\ at'[b] = NextFile(at[b], ok)
      /\ UNCHANGED <<phase, status, setter, raced>>
      BY <1>1, <1>2, PutFileDoes
<1>4. \A d \in Sound :
         /\ \A p \in Pids \ {Pid[b]} :
               record'[d][p] = record[d][p] /\ key'[d][p] = key[d][p]
         /\ record'[d][Pid[b]] = IF d = at[b].dir /\ at[b].file = "record"
                                 THEN mine ELSE record[d][Pid[b]]
         /\ key'[d][Pid[b]] = IF d = at[b].dir /\ at[b].file = "key"
                              THEN b ELSE key[d][Pid[b]]
      BY <1>1, <1>2, PutFileDoes
<1>5. mine.owner = b
      BY DEF mine
<1>6. Undisturbed(b)
      BY <1>1, <1>3, <1>4, <1>5 DEF Undisturbed, Touches
<1>7. ThreadInv(b)'
      BY <1>1, <1>3 DEF Own, ThreadInv, Setting
<1>8. ASSUME NEW d \in Sound PROVE FileInv(b, d)'
  <2>1. FileInv(b, d)
        BY DEF Own
  <2>2. /\ RecordDone(b, d)' => RecordDone(b, d) \/ (d = at[b].dir /\ at[b].file = "record")
        /\ KeyDone(b, d)' => KeyDone(b, d) \/ (d = at[b].dir /\ at[b].file = "key")
        BY <1>1, <1>3, DoneNext
  <2>3. RecordDone(b, d)' => record'[d][Pid[b]] = mine
        BY <1>1, <1>4, <2>1, <2>2 DEF FileInv, mine
  <2>4. KeyDone(b, d)' => key'[d][Pid[b]] = b
        BY <1>1, <1>4, <2>1, <2>2 DEF FileInv
  <2>5. \A s \in Statuses : setter'[b][s].step = "none"
        BY <1>1, <1>3 DEF Own, ThreadInv, Setting, FileTypes, SetterType
  <2> QED BY <1>1, <1>3, <2>3, <2>4, <2>5 DEF FileInv, mine
<1> QED BY <1>1, <1>3, <1>6, <1>7, <1>8 DEF Good, Own

LEMMA ServeGood ==
    ASSUME FileTypes, NEW b \in Bridges, Own(b), Serve(b)
    PROVE  Good(b)
<1>1. /\ phase[b] = "registering" /\ phase'[b] = "up" /\ at[b].dir > Accounts
      /\ UNCHANGED <<record, key, at, status, setter, sender, raced>> /\ Running(b)
      BY DEF Serve, FileTypes, ThreadType, Running
<1>2. FileTypes'
      BY <1>1 DEF Serve, FileTypes, RecordType, KeyType, ThreadType, SetterType
<1>3. Undisturbed(b)
      BY <1>1 DEF Serve, Undisturbed, OwnOnly, Touches, FileTypes, ThreadType
<1>4. status[b] = "idle" /\ ~Setting(b)
      BY <1>1 DEF Own, ThreadInv
<1>5. ThreadInv(b)'
      BY <1>1, <1>4 DEF ThreadInv, Own, Setting
<1>6. ASSUME NEW d \in Sound PROVE FileInv(b, d)'
  <2>1. d \in 1..Accounts /\ Accounts \in Nat /\ at[b].dir \in Nat
        BY AccountBounds DEF Sound, Dirs, FileTypes, ThreadType
  <2>2. RecordDone(b, d) /\ KeyDone(b, d)
        BY <1>1, <2>1 DEF RecordDone, KeyDone
  <2>3. record[d][Pid[b]] = [owner |-> b, status |-> "idle"] /\ key[d][Pid[b]] = b
        BY <1>1, <2>2 DEF Own, FileInv
  <2>4. record[d][Pid[b]] \in Records
        BY <2>3 DEF Records, Statuses
  <2>5. record[d][Pid[b]] # None
        BY <2>4, AccountBounds
  <2>6. \A s \in Statuses : setter[b][s].step = "none"
        BY <1>4 DEF Setting, FileTypes, SetterType
  <2> QED BY <1>1, <1>4, <2>3, <2>5, <2>6 DEF FileInv
<1> QED BY <1>1, <1>2, <1>3, <1>5, <1>6 DEF Good, Own

LEMMA LeaveGood ==
    ASSUME FileTypes, NEW b \in Bridges, Own(b), Leave(b)
    PROVE  Good(b)
<1>1. /\ phase[b] = "up" /\ phase'[b] = "deregistering" /\ at'[b] = FirstFile
      /\ UNCHANGED <<record, key, status, setter>> /\ Running(b)
      /\ raced' = IF Setting(b) THEN raced \cup {b} ELSE raced
      BY DEF Leave, FileTypes, ThreadType, Running
<1>2. FileTypes'
      BY <1>1, AccountBounds DEF Leave, FileTypes, RecordType, KeyType, ThreadType, SetterType
<1>3. Undisturbed(b)
      BY <1>1 DEF Leave, Undisturbed, OwnOnly, Touches, FileTypes, ThreadType
<1>4. ThreadInv(b)'
      BY <1>1 DEF ThreadInv, Own, Setting
<1>5. ASSUME NEW d \in Sound PROVE FileInv(b, d)'
  <2>1. d \in 1..Accounts
        BY AccountBounds DEF Sound, Dirs
  <2>2. ~RecordDone(b, d)' /\ ~KeyDone(b, d)'
        BY <1>1, <2>1, AccountBounds DEF RecordDone, KeyDone, FirstFile
  <2>3. FileInv(b, d)
        BY DEF Own
  <2> QED BY <1>1, <2>2, <2>3 DEF FileInv
<1> QED BY <1>1, <1>2, <1>3, <1>4, <1>5 DEF Good, Own

LEMMA DeregisterGood ==
    ASSUME FileTypes, NEW b \in Bridges, Own(b), Deregister(b)
    PROVE  Good(b)
<1>1. /\ phase[b] = "deregistering" /\ at[b].dir \in Dirs /\ Running(b)
      /\ None \in OrNone(Records) /\ None \in OrNone(Bridges)
      BY DEF Deregister, Running, OrNone
<1>2. PICK ok \in Outcomes(at[b].dir) : PutFile(b, ok, None, None)
      BY DEF Deregister
<1>3. /\ FileTypes' /\ OwnOnly(b) /\ at'[b] = NextFile(at[b], ok)
      /\ UNCHANGED <<phase, status, setter, raced>>
      BY <1>1, <1>2, PutFileDoes
<1>4. \A d \in Sound :
         /\ \A p \in Pids \ {Pid[b]} :
               record'[d][p] = record[d][p] /\ key'[d][p] = key[d][p]
         /\ record'[d][Pid[b]] = IF d = at[b].dir /\ at[b].file = "record"
                                 THEN None ELSE record[d][Pid[b]]
         /\ key'[d][Pid[b]] = IF d = at[b].dir /\ at[b].file = "key"
                              THEN None ELSE key[d][Pid[b]]
      BY <1>1, <1>2, PutFileDoes
<1>5. Undisturbed(b)
      BY <1>1, <1>3, <1>4 DEF Undisturbed, Touches
<1>6. ThreadInv(b)'
      BY <1>1, <1>3 DEF Own, ThreadInv, Setting
<1>7. ASSUME NEW d \in Sound PROVE FileInv(b, d)'
  <2>1. FileInv(b, d)
        BY DEF Own
  <2>2. /\ RecordDone(b, d)' => RecordDone(b, d) \/ (d = at[b].dir /\ at[b].file = "record")
        /\ KeyDone(b, d)' => KeyDone(b, d) \/ (d = at[b].dir /\ at[b].file = "key")
        BY <1>1, <1>3, DoneNext
  <2>3. record'[d][Pid[b]] = None \/ record'[d][Pid[b]].owner = b
        BY <1>1, <1>4, <2>1 DEF FileInv
  <2>4. RecordDone(b, d)' /\ b \notin raced => record'[d][Pid[b]] = None
        BY <1>1, <1>4, <2>1, <2>2 DEF FileInv
  <2>5. KeyDone(b, d)' => key'[d][Pid[b]] = None
        BY <1>1, <1>4, <2>1, <2>2 DEF FileInv
  <2>6. \A s \in Statuses : setter[b][s].step = "write" /\ setter[b][s].dir = d =>
              setter[b][s].was # None /\ setter[b][s].was.owner = b
        BY <2>1 DEF FileInv
  <2> QED BY <1>1, <1>3, <2>3, <2>4, <2>5, <2>6 DEF FileInv
<1> QED BY <1>1, <1>3, <1>5, <1>6, <1>7 DEF Good, Own

LEMMA EndGood ==
    ASSUME FileTypes, NEW b \in Bridges, Own(b), Exit(b) \/ Crash(b)
    PROVE  Good(b)
<1>1. /\ phase'[b] \in {"gone", "crashed"} /\ at'[b] = FirstFile
      /\ status'[b] = "idle" /\ setter'[b] = [s \in Statuses |-> NotSetting]
      /\ UNCHANGED <<record, key, raced>>
      /\ phase'[b] = "gone" => phase[b] = "deregistering" /\ at[b].dir > Accounts
      BY DEF Exit, Crash, End, FileTypes, ThreadType, SetterType
<1>2. FileTypes'
  <2>1. RecordType' /\ KeyType'
        BY <1>1 DEF FileTypes, RecordType, KeyType
  <2>2. ThreadType'
    <3>1. PICK how \in {"gone", "crashed"} : End(b, how)
          BY DEF Exit, Crash
    <3> QED BY <3>1, AccountBounds DEF End, FileTypes, ThreadType, Statuses
  <2>3. [s \in Statuses |-> NotSetting] \in
            [Statuses -> [step : {"none", "read", "write"}, dir : Dirs, was : OrNone(Records)]]
        BY AccountBounds
  <2>4. SetterType'
        BY <2>3 DEF Exit, Crash, End, FileTypes, SetterType
  <2> QED BY <2>1, <2>2, <2>4 DEF FileTypes
<1>3. Undisturbed(b)
      BY <1>1 DEF Exit, Crash, End, Undisturbed, OwnOnly, Touches, FileTypes,
         ThreadType, SetterType
<1>4. \A s \in Statuses : setter'[b][s] = NotSetting /\ setter'[b][s].step = "none"
      BY <1>1 DEF NotSetting
<1>5. ThreadInv(b)'
      BY <1>1, <1>4 DEF ThreadInv, Setting
<1>6. ASSUME NEW d \in Sound PROVE FileInv(b, d)'
  <2>1. d \in 1..Accounts /\ Accounts \in Nat /\ at[b].dir \in Nat
        BY AccountBounds DEF Sound, Dirs, FileTypes, ThreadType
  <2>2. FileInv(b, d)
        BY DEF Own
  <2>3. CASE phase'[b] = "gone"
    <3>1. RecordDone(b, d) /\ KeyDone(b, d)
          BY <1>1, <2>1, <2>3 DEF RecordDone, KeyDone
    <3>2. key[d][Pid[b]] = None /\ (b \notin raced => record[d][Pid[b]] = None)
          BY <1>1, <2>2, <2>3, <3>1 DEF FileInv
    <3> QED BY <1>1, <1>4, <2>3, <3>2, AccountBounds DEF FileInv
  <2>4. CASE phase'[b] = "crashed"
        BY <1>4, <2>4 DEF FileInv
  <2> QED BY <1>1, <2>3, <2>4
<1> QED BY <1>1, <1>2, <1>3, <1>5, <1>6 DEF Good, Own

-----------------------------------------------------------------------------
(* The threads that set a status.                                          *)

LEMMA BeginStatusGood ==
    ASSUME FileTypes, NEW b \in Bridges, Own(b), NEW s \in Statuses, BeginStatus(b, s)
    PROVE  Good(b)
<1>1. /\ phase[b] \in {"up", "deregistering"} /\ ~Setting(b) /\ Running(b)
      /\ status'[b] = s /\ UNCHANGED <<record, key, phase, at, sender>>
      /\ raced' = IF phase[b] = "up" THEN raced ELSE raced \cup {b}
      BY DEF BeginStatus, FileTypes, ThreadType, Running
<1>2. \A t \in Statuses : setter[b][t] = NotSetting
      BY <1>1 DEF Own, ThreadInv, Setting, FileTypes, SetterType
<1>3. /\ setter'[b][s].step = "read" /\ setter'[b][s].dir = 1
      /\ \A t \in Statuses : t # s => setter'[b][t] = NotSetting
      BY <1>2 DEF BeginStatus, FileTypes, SetterType, NotSetting
<1>4. FileTypes'
  <2>1. RecordType' /\ KeyType' /\ ThreadType'
        BY <1>1 DEF BeginStatus, FileTypes, RecordType, KeyType, ThreadType
  <2>2. SetterType'
        BY DEF BeginStatus, FileTypes, SetterType
  <2> QED BY <2>1, <2>2 DEF FileTypes
<1>5. Undisturbed(b)
      BY <1>1 DEF BeginStatus, Undisturbed, OwnOnly, Touches, FileTypes, ThreadType, SetterType
<1>6. NotSetting.step = "none"
      BY DEF NotSetting
<1>7. ThreadInv(b)'
      BY <1>1, <1>3, <1>6 DEF ThreadInv, Setting
<1>8. ASSUME NEW d \in Sound PROVE FileInv(b, d)'
  <2>1. FileInv(b, d) /\ 1 <= d
        BY AccountBounds DEF Own, Sound, Dirs
  <2>2. Pending(b, d)'
        BY <1>3, <2>1 DEF Pending
  <2>3. \A t \in Statuses : setter'[b][t].step # "write"
        BY <1>3, <1>6
  <2> QED BY <1>1, <2>1, <2>2, <2>3 DEF FileInv, RecordDone, KeyDone
<1> QED BY <1>1, <1>4, <1>5, <1>7, <1>8 DEF Good, Own

\* A thread that is through with one account goes on to the next.
LEMMA AccountDone ==
    ASSUME FileTypes, NEW b \in Bridges, Own(b), NEW s \in Statuses,
           setter[b][s].step # "none",
           setter' = [setter EXCEPT ![b][s] = NextAccount(@)],
           UNCHANGED <<key, phase, at, status, sender, raced>>,
           RecordType',
           \A d \in Dirs : \A p \in Pids :
               d # setter[b][s].dir \/ p # Pid[b] => record'[d][p] = record[d][p],
           setter[b][s].dir \in Sound =>
               \/ /\ record'[setter[b][s].dir][Pid[b]] # None
                  /\ record'[setter[b][s].dir][Pid[b]].owner = b
                  /\ record'[setter[b][s].dir][Pid[b]].status = s
               \/ /\ phase[b] = "deregistering"
                  /\ record'[setter[b][s].dir][Pid[b]] = record[setter[b][s].dir][Pid[b]]
    PROVE  Good(b)
<1> DEFINE k == setter[b][s].dir
           next == NextAccount(setter[b][s])
<1>1. /\ phase[b] \in {"up", "deregistering"} /\ Running(b) /\ status[b] = s
      /\ phase[b] = "deregistering" => b \in raced
      /\ \A t \in Statuses : t # s => setter[b][t].step = "none" /\ setter[b][t] = NotSetting
      BY DEF Own, ThreadInv, Setting, Running
<1>2. /\ setter'[b][s] = next /\ \A t \in Statuses : t # s => setter'[b][t] = setter[b][t]
      /\ k \in 1..Accounts /\ Accounts \in Nat
      BY AccountBounds DEF FileTypes, SetterType, Dirs
<1>3. /\ next \in [step : {"none", "read", "write"}, dir : Dirs, was : OrNone(Records)]
      /\ IF k = Accounts THEN next.step = "none" ELSE next.step = "read" /\ next.dir = k + 1
      BY NextAccountGood DEF FileTypes
<1>4. next.step = "none" => next = NotSetting
  <2>1. next = IF k = Accounts THEN NotSetting
               ELSE [step |-> "read", dir |-> k + 1, was |-> None]
        BY DEF NextAccount
  <2> QED BY <1>3, <2>1
<1> HIDE DEF next, k
<1>5. SetterType'
      BY <1>3 DEF FileTypes, SetterType, next
<1>6. FileTypes'
      BY <1>5 DEF FileTypes, KeyType, ThreadType
<1>7. OwnOnly(b)
      BY DEF OwnOnly, FileTypes, SetterType
<1>8. ASSUME NEW d \in Sound PROVE Touches(b, d)
      BY <1>1, AccountBounds DEF Touches, Sound, k
<1>9. ThreadInv(b)'
      BY <1>1, <1>2, <1>3, <1>4 DEF ThreadInv, Setting
<1>10. ASSUME NEW d \in Sound PROVE FileInv(b, d)'
  <2>1. /\ FileInv(b, d) /\ d \in 1..Accounts /\ d \in Dirs /\ Pid[b] \in Pids
        BY AccountBounds DEF Own, Sound, Dirs
  <2>2. \A t \in Statuses : setter'[b][t].step # "write"
        BY <1>1, <1>2, <1>3
  <2>3. CASE d = k
    <3>1. CASE phase[b] = "up"
          BY <1>1, <2>1, <2>2, <2>3, <3>1 DEF FileInv, k
    <3>2. CASE phase[b] = "deregistering"
          BY <1>1, <2>1, <2>2, <2>3, <3>2 DEF FileInv, KeyDone, RecordDone, k
    <3> QED BY <1>1, <3>1, <3>2
  <2>4. CASE d # k
    <3>1. record'[d][Pid[b]] = record[d][Pid[b]]
          BY <2>1, <2>4 DEF k
    <3>2. Pending(b, d) => Pending(b, d)'
      <4>1. ASSUME Pending(b, d) PROVE k < d
            BY <1>1, <1>2, <2>1, <2>4, <4>1 DEF Pending, k
      <4>2. ASSUME k < d PROVE Pending(b, d)'
            BY <1>2, <1>3, <2>1, <4>2 DEF Pending
      <4> QED BY <4>1, <4>2
    <3> QED BY <1>1, <2>1, <2>2, <3>1, <3>2 DEF FileInv, KeyDone, RecordDone
  <2> QED BY <2>3, <2>4
<1> QED BY <1>1, <1>6, <1>7, <1>8, <1>9, <1>10 DEF Good, Own, Undisturbed

LEMMA ReadStatusGood ==
    ASSUME FileTypes, NEW b \in Bridges, Own(b), NEW s \in Statuses, ReadStatus(b, s)
    PROVE  Good(b)
<1> DEFINE k == setter[b][s].dir
           rec == record[k][Pid[b]]
<1>1. /\ setter[b][s].step = "read" /\ k \in Dirs /\ Pid[b] \in Pids
      /\ UNCHANGED <<record, key, phase, at, status, sender, raced>>
      BY AccountBounds DEF ReadStatus, FileTypes, SetterType
<1>2. /\ phase[b] \in {"up", "deregistering"} /\ Running(b) /\ status[b] = s
      /\ \A t \in Statuses : t # s => setter[b][t].step = "none"
      BY <1>1 DEF Own, ThreadInv, Setting, Running
<1>3. rec \in OrNone(Records)
      BY <1>1 DEF FileTypes, RecordType
<1>4. k \in Sound =>
          \/ rec # None /\ rec.owner = b
          \/ rec = None /\ phase[b] = "deregistering"
      BY <1>2 DEF Own, FileInv
<1>5. CASE rec = None
  <2>1. setter' = [setter EXCEPT ![b][s] = NextAccount(@)]
        BY <1>5 DEF ReadStatus
  <2>2. k \in Sound => phase[b] = "deregistering" /\ record'[k][Pid[b]] = record[k][Pid[b]]
        BY <1>1, <1>4, <1>5
  <2>3. RecordType'
        BY <1>1 DEF FileTypes, RecordType
  <2> QED BY <1>1, <2>1, <2>2, <2>3, AccountDone
<1>6. CASE rec # None
  <2>1. setter' = [setter EXCEPT ![b][s] = [@ EXCEPT !.step = "write", !.was = rec]]
        BY <1>6 DEF ReadStatus
  <2>2. /\ setter'[b][s].step = "write" /\ setter'[b][s].dir = k /\ setter'[b][s].was = rec
        /\ \A t \in Statuses : t # s => setter'[b][t] = setter[b][t]
        BY <2>1 DEF FileTypes, SetterType
  <2>3. SetterType'
    <3>1. [setter[b][s] EXCEPT !.step = "write", !.was = rec] \in
              [step : {"none", "read", "write"}, dir : Dirs, was : OrNone(Records)]
      <4>1. setter[b][s] \in
                [step : {"none", "read", "write"}, dir : Dirs, was : OrNone(Records)]
            BY DEF FileTypes, SetterType
      <4> QED BY <1>3, <4>1
    <3> QED BY <2>1, <3>1 DEF FileTypes, SetterType
  <2>4. FileTypes'
        BY <1>1, <2>3 DEF FileTypes, RecordType, KeyType, ThreadType
  <2>5. Undisturbed(b)
        BY <1>1, <2>1 DEF Undisturbed, OwnOnly, Touches, FileTypes, SetterType
  <2>6. ThreadInv(b)'
        BY <1>1, <1>2, <1>6, <2>2 DEF Own, ThreadInv, Setting
  <2>7. ASSUME NEW d \in Sound PROVE FileInv(b, d)'
    <3>1. FileInv(b, d)
          BY DEF Own
    <3>2. Pending(b, d) <=> Pending(b, d)'
          BY <1>1, <1>2, <2>2 DEF Pending
    <3>3. \A t \in Statuses : setter'[b][t].step = "write" /\ setter'[b][t].dir = d =>
              setter'[b][t].was # None /\ setter'[b][t].was.owner = b
          BY <1>2, <1>4, <1>6, <2>2
    <3> QED BY <1>1, <3>1, <3>2, <3>3 DEF FileInv, RecordDone, KeyDone
  <2> QED BY <1>2, <2>4, <2>5, <2>6, <2>7 DEF Good, Own
<1> QED BY <1>5, <1>6

LEMMA WriteStatusGood ==
    ASSUME FileTypes, NEW b \in Bridges, Own(b), NEW s \in Statuses, WriteStatus(b, s)
    PROVE  Good(b)
<1> DEFINE k == setter[b][s].dir
           new == [setter[b][s].was EXCEPT !.status = s]
<1>1. /\ setter[b][s].step = "write" /\ k \in Dirs /\ Pid[b] \in Pids
      /\ setter' = [setter EXCEPT ![b][s] = NextAccount(@)]
      /\ UNCHANGED <<key, phase, at, status, sender, raced>>
      BY AccountBounds DEF WriteStatus, FileTypes, SetterType
<1>2. PICK ok \in Outcomes(k) :
          record' = IF ok THEN [record EXCEPT ![k][Pid[b]] = new] ELSE record
      BY DEF WriteStatus
<1>3. setter[b][s].was \in OrNone(Records)
      BY DEF FileTypes, SetterType
<1>4. k \in Sound => ok /\ setter[b][s].was \in Records /\ setter[b][s].was.owner = b
      BY <1>1, <1>3 DEF Own, FileInv, Sound, Outcomes, OrNone
<1>5. k \in Sound => new = [owner |-> b, status |-> s] /\ new \in Records
      BY <1>4 DEF Records
<1>6. setter[b][s].was # None
      BY <1>1 DEF Own, ThreadInv
<1>7. new \in Records
  <2>1. setter[b][s].was \in Records
        BY <1>3, <1>6 DEF OrNone
  <2> QED BY <2>1 DEF Records
<1> HIDE DEF new
<1>8. RecordType'
      BY <1>1, <1>2, <1>7 DEF FileTypes, RecordType, OrNone
<1>9. \A d \in Dirs : \A p \in Pids :
          d # k \/ p # Pid[b] => record'[d][p] = record[d][p]
      BY <1>1, <1>2 DEF FileTypes, RecordType
<1>10. k \in Sound => record'[k][Pid[b]] = [owner |-> b, status |-> s]
      BY <1>1, <1>2, <1>4, <1>5 DEF FileTypes, RecordType
<1>11. [owner |-> b, status |-> s] # None
      BY AccountBounds DEF Records
<1>12. k \in Sound =>
          /\ record'[k][Pid[b]] # None
          /\ record'[k][Pid[b]].owner = b
          /\ record'[k][Pid[b]].status = s
      BY <1>10, <1>11
<1> QED BY <1>1, <1>8, <1>9, <1>12, AccountDone

-----------------------------------------------------------------------------
LEMMA RegistryStepGood == RegistryInv /\ [Next]_vars => RegistryInv'
<1> SUFFICES ASSUME RegistryInv, [Next]_vars PROVE RegistryInv'
    OBVIOUS
<1>1. FileTypes /\ AloneInv /\ \A b \in Bridges : Own(b)
      BY DEF RegistryInv, FileTypes, Own
<1>2. ASSUME NEW b \in Bridges, Good(b) PROVE RegistryInv'
  <2>1. \A c \in Bridges : Own(c)'
        BY <1>1, <1>2, OthersStay DEF Good
  <2>2. \A c \in Bridges \ {b} : phase'[c] = phase[c]
        BY <1>2 DEF Good, Undisturbed, OwnOnly
  <2>3. AloneInv'
        BY <1>1, <1>2, <2>2 DEF AloneInv, Running, Good
  <2> QED BY <1>2, <2>1, <2>3 DEF RegistryInv, Good, Own, FileTypes
<1>3. ASSUME NEW b \in Bridges,
             Start(b) \/ Register(b) \/ Serve(b) \/ Leave(b) \/ Deregister(b)
             \/ Exit(b) \/ Crash(b)
      PROVE  RegistryInv'
      BY <1>1, <1>2, <1>3, StartGood, RegisterGood, ServeGood, LeaveGood,
         DeregisterGood, EndGood
<1>4. ASSUME NEW b \in Bridges, NEW s \in Statuses,
             BeginStatus(b, s) \/ ReadStatus(b, s) \/ WriteStatus(b, s)
      PROVE  RegistryInv'
      BY <1>1, <1>2, <1>4, BeginStatusGood, ReadStatusGood, WriteStatusGood
<1>5. ASSUME OnlySender PROVE RegistryInv'
  <2>1. FileTypes' /\ AloneInv'
        BY <1>1, <1>5 DEF OnlySender, FileTypes, RecordType, KeyType, ThreadType,
           SetterType, AloneInv, Running
  <2>2. \A b \in Bridges : ThreadInv(b)'
        BY <1>1, <1>5 DEF OnlySender, Own, ThreadInv, Setting
  <2>3. ASSUME NEW b \in Bridges, NEW d \in Sound PROVE FileInv(b, d)'
    <3>1. FileInv(b, d)
          BY <1>1 DEF Own
    <3> QED BY <1>5, <3>1 DEF OnlySender, FileInv, RecordDone, KeyDone, Pending
  <2> QED BY <2>1, <2>2, <2>3 DEF RegistryInv, FileTypes
<1>6. ASSUME NEW x \in Senders,
             Look(x) \/ Glob(x) \/ Read(x) \/ Ps(x) \/ Resolve(x) \/ Key(x) \/ Connect(x)
      PROVE  RegistryInv'
      BY <1>5, <1>6 DEF Look, Glob, Read, Ps, Resolve, Key, Connect
<1>7. CASE UNCHANGED vars
      BY <1>5, <1>7 DEF vars, OnlySender
<1> QED BY <1>3, <1>4, <1>6, <1>7 DEF Next

LEMMA RegistryInvAlways == Spec => []RegistryInv
BY RegistryInitGood, RegistryStepGood, PTL DEF Spec

-----------------------------------------------------------------------------
\* The record of a bridge that serves shows its status, and the key its token,
\* in every account that can be written, for any number of them.
THEOREM StatusShown == Spec => []RecordShowsStatus
<1>1. RegistryInv => RecordShowsStatus
  <2> SUFFICES ASSUME RegistryInv, NEW b \in Bridges, NEW d \in Sound,
                      phase[b] = "up", ~Setting(b)
               PROVE  /\ record[d][Pid[b]] = [owner |-> b, status |-> status[b]]
                      /\ key[d][Pid[b]] = b
      BY DEF RecordShowsStatus, Sound
  <2>1. ~Pending(b, d)
        BY DEF Pending, Setting
  <2>2. /\ key[d][Pid[b]] = b /\ record[d][Pid[b]] # None
        /\ record[d][Pid[b]].owner = b /\ record[d][Pid[b]].status = status[b]
    <3>1. FileInv(b, d)
          BY DEF RegistryInv
    <3> QED BY <2>1, <3>1 DEF FileInv
  <2>3. record[d][Pid[b]] \in Records
        BY <2>2, AccountBounds DEF RegistryInv, RecordType, OrNone, Sound
  <2> QED BY <2>2, <2>3 DEF Records
<1> QED BY <1>1, RegistryInvAlways, PTL

\* After a clean exit no key is left in such an account, and a record only if a
\* status was being set meanwhile.
THEOREM ExitCleans == Spec => []NothingLeftBehind
<1>1. RegistryInv => NothingLeftBehind
      BY DEF RegistryInv, FileInv, NothingLeftBehind, Sound
<1> QED BY <1>1, RegistryInvAlways, PTL
-----------------------------------------------------------------------------
(* The types: RegistryInv has those of files and threads, senders follow.  *)

Fields == {"step", "dir", "names", "socks", "was", "alive", "peer", "token", "steady", "ran"}
SenderStates == {"new", "glob", "read", "ps", "key", "connect"} \cup Outcome

IsSender(s) == DOMAIN s = Fields /\ s.step \in SenderStates /\ s.dir \in Dirs

SenderInv ==
    /\ DOMAIN sender = Senders
    /\ \A x \in Senders : IsSender(sender[x])

LEMMA SenderEnds ==
    ASSUME NEW x \in Senders, NEW outcome \in Outcome
    PROVE  IsSender(Ended(x, outcome))
<1>0. Accounts \in Nat \ {0} /\ 1 \in Dirs
      BY RegistryAssumption DEF Dirs
<1>1. DOMAIN NotSending = Fields /\ NotSending.dir = 1
      BY DEF NotSending, Fields
<1>2. DOMAIN Ended(x, outcome) = Fields
      BY <1>1 DEF Ended
<1>3. Ended(x, outcome).step = outcome /\ Ended(x, outcome).dir = 1
      BY <1>1 DEF Ended, Fields
<1> QED BY <1>0, <1>2, <1>3 DEF IsSender, SenderStates

\* One sender moves to a state that is one.
LEMMA SenderMoves ==
    ASSUME SenderInv, NEW x \in Senders, NEW from, NEW new,
           SenderAt(x, from, new), IsSender(new)
    PROVE  SenderInv'
BY DEF SenderInv, SenderAt

LEMMA SenderStepGood == SenderInv /\ [Next]_vars => SenderInv'
<1> SUFFICES ASSUME SenderInv, [Next]_vars PROVE SenderInv'
    OBVIOUS
<1>0. Accounts \in Nat \ {0} /\ 1 \in Dirs
      BY RegistryAssumption DEF Dirs
<1>1. CASE sender' = sender
      BY <1>1 DEF SenderInv
<1>2. ASSUME NEW x \in Senders,
             Look(x) \/ Glob(x) \/ Read(x) \/ Ps(x) \/ Resolve(x) \/ Key(x) \/ Connect(x)
      PROVE  SenderInv'
  <2> DEFINE s == sender[x]
  <2>0. DOMAIN s = Fields /\ s.step \in SenderStates /\ s.dir \in Dirs
        BY DEF SenderInv, IsSender
  <2>1. CASE Look(x)
    <3> DEFINE new == [s EXCEPT !.step = "glob",
                                !.steady = {b \in Bridges : phase[b] = "up"},
                                !.ran = {b \in Bridges : Running(b)}]
    <3>1. IsSender(new)
          BY <2>0 DEF IsSender, Fields, SenderStates
    <3> QED BY <2>1, <3>1, SenderMoves DEF Look
  <2>2. CASE Glob(x)
    <3> DEFINE new == [s EXCEPT !.step = "read",
                                !.names = {p \in Pids : record[s.dir][p] # None}]
    <3>1. IsSender(new)
          BY <2>0 DEF IsSender, Fields, SenderStates
    <3> QED BY <2>2, <3>1, SenderMoves DEF Glob
  <2>3. CASE Read(x)
    <3> DEFINE p == Min(s.names)
               rec == record[s.dir][p]
               rest == [s EXCEPT !.names = @ \ {p}]
               next == [rest EXCEPT !.step = "ps", !.was = rec.owner, !.socks = @ \cup {p}]
    <3>1. IsSender(rest)
          BY <2>0 DEF IsSender, Fields, SenderStates
    <3>2. IsSender(next)
          BY <3>1 DEF IsSender, Fields, SenderStates
    <3>3. SenderAt(x, "read", IF rec = None \/ p \in s.socks THEN rest ELSE next)
          BY <2>3 DEF Read
    <3> QED BY <3>1, <3>2, <3>3, SenderMoves
  <2>4. CASE Ps(x)
    <3> DEFINE new == [s EXCEPT !.step = "read", !.was = None,
                                !.alive = IF Running(s.was) THEN Append(@, s.was) ELSE @]
    <3>1. IsSender(new)
          BY <2>0 DEF IsSender, Fields, SenderStates
    <3> QED BY <2>4, <3>1, SenderMoves DEF Ps
  <2>5. CASE Resolve(x)
    <3> DEFINE found == Matches(s.alive, Wanted[x])
               on == [s EXCEPT !.step = "glob", !.dir = @ + 1]
               key1 == [s EXCEPT !.step = "key", !.dir = 1, !.peer = s.alive[Min(found)]]
    <3>1. s.dir < Accounts => IsSender(on)
      <4>1. s.dir < Accounts => s.dir + 1 \in Dirs
            BY <1>0, <2>0 DEF Dirs
      <4>2. DOMAIN on = Fields /\ on.step = "glob" /\ on.dir = s.dir + 1
            BY <2>0 DEF Fields
      <4> QED BY <4>1, <4>2 DEF IsSender, SenderStates
    <3>2. IsSender(key1)
      <4>1. DOMAIN key1 = Fields /\ key1.step = "key" /\ key1.dir = 1
            BY <2>0 DEF Fields
      <4> QED BY <1>0, <4>1 DEF IsSender, SenderStates
    <3>3. IsSender(Ended(x, "no such peer"))
          BY SenderEnds DEF Outcome
    <3>4. SenderAt(x, "read", IF s.dir < Accounts THEN on
                              ELSE IF found = {} THEN Ended(x, "no such peer") ELSE key1)
          BY <2>5 DEF Resolve
    <3> QED BY <3>1, <3>2, <3>3, <3>4, SenderMoves
  <2>6. CASE Key(x)
    <3> DEFINE token == key[s.dir][Pid[s.peer]]
               got == [s EXCEPT !.step = "connect", !.token = token]
               on == [s EXCEPT !.dir = @ + 1]
    <3>1. s.dir < Accounts => IsSender(on)
      <4>1. s.dir < Accounts => s.dir + 1 \in Dirs
            BY <1>0, <2>0 DEF Dirs
      <4>2. DOMAIN on = Fields /\ on.step = s.step /\ on.dir = s.dir + 1
            BY <2>0 DEF Fields
      <4> QED BY <2>0, <4>1, <4>2 DEF IsSender
    <3>2. IsSender(got)
          BY <2>0 DEF IsSender, Fields, SenderStates
    <3>3. IsSender(Ended(x, "no key"))
          BY SenderEnds DEF Outcome
    <3>4. SenderAt(x, "key", IF token # None THEN got
                             ELSE IF s.dir < Accounts THEN on ELSE Ended(x, "no key"))
          BY <2>6 DEF Key
    <3> QED BY <3>1, <3>2, <3>3, <3>4, SenderMoves
  <2>7. CASE Connect(x)
    <3>1. \A o \in Outcome : IsSender(Ended(x, o))
          BY SenderEnds
    <3>2. PICK o \in Outcome : SenderAt(x, "connect", Ended(x, o))
          BY <2>7 DEF Connect, Outcome
    <3> QED BY <3>1, <3>2, SenderMoves
  <2> QED BY <1>2, <2>1, <2>2, <2>3, <2>4, <2>5, <2>6, <2>7
<1>3. CASE UNCHANGED vars
      BY <1>1, <1>3 DEF vars
<1>4. ASSUME NEW b \in Bridges,
             \/ Register(b) \/ Serve(b) \/ Deregister(b)
             \/ \E t \in Statuses : BeginStatus(b, t) \/ ReadStatus(b, t) \/ WriteStatus(b, t)
      PROVE  SenderInv'
      BY <1>1, <1>4 DEF Register, Serve, Deregister, PutFile,
         BeginStatus, ReadStatus, WriteStatus
<1>5. ASSUME NEW b \in Bridges, Leave(b) \/ Exit(b) \/ Crash(b) PROVE SenderInv'
  <2>1. sender' = Unsteady(b)
        BY <1>5 DEF Leave, Exit, Crash, End
  <2>2. ASSUME NEW x \in Senders
        PROVE  IsSender([sender[x] EXCEPT !.steady = @ \ {b}])
        BY DEF SenderInv, IsSender, Fields
  <2> QED BY <2>1, <2>2 DEF SenderInv, Unsteady
<1>6. ASSUME NEW b \in Bridges, Start(b) PROVE SenderInv'
  <2>1. sender' = Meeting(b)
        BY <1>6 DEF Start
  <2>2. ASSUME NEW x \in Senders
        PROVE  IsSender([sender[x] EXCEPT !.ran = @ \cup {b}]) /\ IsSender(sender[x])
        BY DEF SenderInv, IsSender, Fields
  <2> QED BY <2>1, <2>2 DEF SenderInv, Meeting
<1> QED BY <1>2, <1>3, <1>4, <1>5, <1>6 DEF Next

\* The registry's files, the threads that write them and the senders that read
\* them have the values the program can give them; no thread outlives its
\* process, or runs past the last account.
THEOREM RegistryTypeCorrect == Spec => []TypeOK
<1>1. Init => SenderInv
  <2>1. Accounts \in Nat \ {0} /\ 1 \in Dirs
        BY RegistryAssumption DEF Dirs
  <2>2. IsSender(NotSending)
        BY <2>1 DEF IsSender, NotSending, Fields, SenderStates
  <2> QED BY <2>2 DEF Init, SenderInv
<1>2. RegistryInv /\ SenderInv => TypeOK
  <2> SUFFICES ASSUME RegistryInv, SenderInv PROVE TypeOK
      OBVIOUS
  <2>1. \A x \in Senders : sender[x].step \in SenderStates /\ sender[x].dir \in Dirs
        BY DEF SenderInv, IsSender
  <2>2. ASSUME NEW b \in Bridges, NEW s \in Statuses, setter[b][s].step # "none"
        PROVE  setter[b][s].dir \in Dirs /\ Running(b)
    <3>1. setter[b][s].dir \in Dirs
          BY DEF RegistryInv, SetterType
    <3>2. phase[b] \in {"up", "deregistering"}
          BY <2>2 DEF RegistryInv, ThreadInv, Setting
    <3> QED BY <3>1, <3>2 DEF Running
  <2> QED BY <2>1, <2>2 DEF TypeOK, RegistryInv, RecordType, KeyType, ThreadType,
             SetterType, SenderStates
<1> QED BY <1>1, <1>2, SenderStepGood, RegistryInvAlways, PTL DEF Spec

-----------------------------------------------------------------------------
(* A peer that serves is found and reached.                                *)

\* Some account can always be written.
SoundAccount == Sound # {}

\* Nobody takes a record away, or another's place, between the two steps of a
\* thread that rewrites it, as long as its bridge serves.
WasInv ==
    \A b \in Bridges, s \in Statuses :
        phase[b] = "up" /\ setter[b][s].step = "write" =>
            LET rec == record[setter[b][s].dir][Pid[b]]
            IN  rec # None /\ rec.owner = setter[b][s].was.owner

\* The files at the pid of b are owned by the same bridges as before.
SameOwners(b) ==
    \A d \in Dirs :
        /\ key'[d][Pid[b]] = key[d][Pid[b]]
        /\ record'[d][Pid[b]] = None <=> record[d][Pid[b]] = None
        /\ record[d][Pid[b]] # None => record'[d][Pid[b]].owner = record[d][Pid[b]].owner

\* Only a bridge that runs writes, and only at its own pid.
LEMMA FileSteps ==
    ASSUME RegistryInv, [Next]_vars
    PROVE  \/ UNCHANGED <<record, key>>
           \/ \E c \in Bridges :
                 /\ phase[c] \in {"registering", "deregistering"}
                 /\ \A d \in Dirs, p \in Pids : p # Pid[c] =>
                       record'[d][p] = record[d][p] /\ key'[d][p] = key[d][p]
                 /\ phase' = phase /\ setter' = setter
           \/ \E c \in Bridges, s \in Statuses : WriteStatus(c, s)
<1>0. RecordType /\ KeyType
      BY DEF RegistryInv
<1>1. ASSUME NEW c \in Bridges, Register(c) \/ Deregister(c)
      PROVE  /\ phase[c] \in {"registering", "deregistering"}
             /\ \A d \in Dirs, p \in Pids : p # Pid[c] =>
                   record'[d][p] = record[d][p] /\ key'[d][p] = key[d][p]
             /\ phase' = phase /\ setter' = setter
  <2>1. PICK ok, rec, owner : PutFile(c, ok, rec, owner)
        BY <1>1 DEF Register, Deregister, Outcomes
  <2>2. /\ record' = record \/ record' = [record EXCEPT ![at[c].dir][Pid[c]] = rec]
        /\ key' = key \/ key' = [key EXCEPT ![at[c].dir][Pid[c]] = owner]
        /\ phase' = phase /\ setter' = setter
        BY <2>1 DEF PutFile
  <2>3. ASSUME NEW d \in Dirs, NEW p \in Pids, p # Pid[c]
        PROVE  record'[d][p] = record[d][p]
        BY <1>0, <2>2, <2>3 DEF RecordType
  <2>4. ASSUME NEW d \in Dirs, NEW p \in Pids, p # Pid[c]
        PROVE  key'[d][p] = key[d][p]
        BY <1>0, <2>2, <2>4 DEF KeyType
  <2>5. phase[c] \in {"registering", "deregistering"}
        BY <1>1 DEF Register, Deregister
  <2> QED BY <2>2, <2>3, <2>4, <2>5
<1>2. ASSUME NEW c \in Bridges,
             \/ Start(c) \/ Serve(c) \/ Leave(c) \/ Exit(c) \/ Crash(c)
             \/ \E s \in Statuses : BeginStatus(c, s) \/ ReadStatus(c, s)
      PROVE  UNCHANGED <<record, key>>
      BY <1>2 DEF Start, Serve, Leave, Exit, Crash, End, BeginStatus, ReadStatus
<1>3. ASSUME NEW x \in Senders,
             Look(x) \/ Glob(x) \/ Read(x) \/ Ps(x) \/ Resolve(x) \/ Key(x) \/ Connect(x)
      PROVE  UNCHANGED <<record, key>>
      BY <1>3 DEF Look, Glob, Read, Ps, Resolve, Key, Connect, OnlySender
<1>4. UNCHANGED vars => UNCHANGED <<record, key>>
      BY DEF vars
<1> QED BY <1>1, <1>2, <1>3, <1>4 DEF Next

\* What WriteStatus does, while the bridge serves.
LEMMA WriteKeeps ==
    ASSUME RegistryInv, WasInv, NEW c \in Bridges, NEW s \in Statuses, WriteStatus(c, s)
    PROVE  /\ phase' = phase /\ key' = key /\ Running(c)
           /\ \A d \in Dirs, p \in Pids :
                 p # Pid[c] \/ d # setter[c][s].dir => record'[d][p] = record[d][p]
           /\ phase[c] = "up" => SameOwners(c)
           /\ \A t \in Statuses : setter'[c][t].step # "write"
           /\ \A b \in Bridges \ {c} : setter'[b] = setter[b]
<1>0. /\ RecordType /\ SetterType /\ ThreadInv(c)
      /\ Pid[c] \in Pids /\ None \notin Records
      BY AccountBounds DEF RegistryInv
<1> DEFINE e == setter[c][s].dir
           old == record[e][Pid[c]]
           was == setter[c][s].was
           new == [was EXCEPT !.status = s]
<1>1. /\ setter[c][s].step = "write" /\ phase' = phase /\ key' = key
      /\ record' = record \/ record' = [record EXCEPT ![e][Pid[c]] = new]
      /\ setter' = [setter EXCEPT ![c][s] = NextAccount(@)]
      BY DEF WriteStatus
<1>2. e \in Dirs /\ was \in Records
      BY <1>0, <1>1 DEF SetterType, ThreadInv, OrNone
<1>3. new \in Records /\ new.owner = was.owner
      BY <1>2 DEF Records
<1>4. Running(c)
      BY <1>0, <1>1 DEF ThreadInv, Setting, Running
<1>5. \A d \in Dirs, p \in Pids : p # Pid[c] \/ d # e => record'[d][p] = record[d][p]
      BY <1>0, <1>1 DEF RecordType
<1>6. record'[e][Pid[c]] \in {old, new}
      BY <1>0, <1>1, <1>2 DEF RecordType
<1>7. phase[c] = "up" => old # None /\ old.owner = was.owner
      BY <1>1 DEF WasInv
<1> HIDE DEF new, was, old
<1>8. phase[c] = "up" => SameOwners(c)
  <2> SUFFICES ASSUME phase[c] = "up", NEW d \in Dirs
               PROVE  /\ key'[d][Pid[c]] = key[d][Pid[c]]
                      /\ record'[d][Pid[c]] = None <=> record[d][Pid[c]] = None
                      /\ record[d][Pid[c]] # None =>
                            record'[d][Pid[c]].owner = record[d][Pid[c]].owner
      BY DEF SameOwners
  <2>1. CASE d # e
        BY <1>0, <1>1, <1>5, <2>1
  <2>2. CASE d = e
    <3>1. record[d][Pid[c]] = old
          BY <2>2 DEF old
    <3>2. record'[d][Pid[c]] \in {old, new} /\ new # None
          BY <1>0, <1>3, <1>6, <2>2
    <3> QED BY <1>1, <1>3, <1>7, <3>1, <3>2
  <2> QED BY <2>1, <2>2
<1>9. \A t \in Statuses : setter'[c][t].step # "write"
  <2>1. setter'[c] = [setter[c] EXCEPT ![s] = NextAccount(setter[c][s])]
        BY <1>0, <1>1 DEF SetterType
  <2>2. NextAccount(setter[c][s]).step # "write"
        BY DEF NextAccount, NotSetting
  <2>3. \A t \in Statuses \ {s} : setter[c][t].step = "none"
        BY <1>0, <1>1 DEF ThreadInv
  <2> QED BY <1>0, <2>1, <2>2, <2>3 DEF SetterType
<1>10. \A b \in Bridges \ {c} : setter'[b] = setter[b]
       BY <1>0, <1>1 DEF SetterType
<1> QED BY <1>1, <1>4, <1>5, <1>8, <1>9, <1>10 DEF e

\* While a bridge serves, its files keep their owners.
LEMMA UpKeeps ==
    ASSUME RegistryInv, WasInv, [Next]_vars, NEW b \in Bridges, phase[b] = "up"
    PROVE  SameOwners(b)
<1>0. AloneInv /\ Pid[b] \in Pids /\ Running(b)
      BY AccountBounds DEF RegistryInv, Running
<1>1. CASE UNCHANGED <<record, key>>
      BY <1>1 DEF SameOwners
<1>2. ASSUME NEW c \in Bridges, phase[c] \in {"registering", "deregistering"},
             \A d \in Dirs, p \in Pids : p # Pid[c] =>
                   record'[d][p] = record[d][p] /\ key'[d][p] = key[d][p]
      PROVE  SameOwners(b)
  <2>1. Pid[b] # Pid[c]
        BY <1>0, <1>2 DEF AloneInv, Running
  <2> QED BY <1>0, <1>2, <2>1 DEF SameOwners
<1>3. ASSUME NEW c \in Bridges, NEW s \in Statuses, WriteStatus(c, s)
      PROVE  SameOwners(b)
  <2>1. /\ key' = key /\ Running(c)
        /\ \A d \in Dirs, p \in Pids : p # Pid[c] => record'[d][p] = record[d][p]
        BY <1>3, WriteKeeps
  <2>2. CASE c = b
        BY <2>2, <1>3, WriteKeeps
  <2>3. CASE c # b
    <3>1. Pid[b] # Pid[c]
          BY <1>0, <2>1, <2>3 DEF AloneInv
    <3> QED BY <1>0, <2>1, <3>1 DEF SameOwners
  <2> QED BY <2>2, <2>3
<1> QED BY <1>1, <1>2, <1>3, FileSteps

LEMMA WasInvStep == RegistryInv /\ WasInv /\ [Next]_vars => WasInv'
<1> SUFFICES ASSUME RegistryInv, WasInv, [Next]_vars,
                    NEW b \in Bridges, NEW s \in Statuses,
                    phase'[b] = "up", setter'[b][s].step = "write"
             PROVE  LET rec == record'[setter'[b][s].dir][Pid[b]]
                    IN  rec # None /\ rec.owner = setter'[b][s].was.owner
    BY DEF WasInv
<1>0. /\ ThreadType /\ SetterType /\ RecordType /\ ThreadInv(b) /\ AloneInv
      /\ Pid[b] \in Pids /\ None \notin Records
      BY AccountBounds DEF RegistryInv
<1>1. ASSUME phase[b] = "up", setter'[b][s] = setter[b][s]
      PROVE  LET rec == record'[setter'[b][s].dir][Pid[b]]
             IN  rec # None /\ rec.owner = setter'[b][s].was.owner
  <2> DEFINE d == setter[b][s].dir
  <2>1. /\ d \in Dirs
        /\ record[d][Pid[b]] # None /\ record[d][Pid[b]].owner = setter[b][s].was.owner
        BY <1>0, <1>1 DEF SetterType, WasInv
  <2>2. SameOwners(b)
        BY <1>1, UpKeeps
  <2> QED BY <1>1, <2>1, <2>2 DEF SameOwners
<1>2. ASSUME NEW c \in Bridges, NEW t \in Statuses, ReadStatus(c, t)
      PROVE  LET rec == record'[setter'[b][s].dir][Pid[b]]
             IN  rec # None /\ rec.owner = setter'[b][s].was.owner
  <2> DEFINE rec == record[setter[c][t].dir][Pid[c]]
             to == IF rec = None THEN NextAccount(setter[c][t])
                   ELSE [setter[c][t] EXCEPT !.step = "write", !.was = rec]
  <2>1. /\ phase' = phase /\ record' = record
        /\ setter' = [setter EXCEPT ![c][t] = to]
        BY <1>2 DEF ReadStatus
  <2>2. CASE c # b \/ t # s
    <3>1. setter'[b][s] = setter[b][s]
          BY <1>0, <2>1, <2>2 DEF SetterType
    <3> QED BY <1>1, <2>1, <3>1
  <2>3. CASE c = b /\ t = s
    <3>1. setter'[b][s] = to
          BY <1>0, <2>1, <2>3 DEF SetterType
    <3>2. NextAccount(setter[c][t]).step # "write"
          BY DEF NextAccount, NotSetting
    <3>3. rec # None /\ to = [setter[b][s] EXCEPT !.step = "write", !.was = rec]
          BY <2>3, <3>1, <3>2
    <3>4. setter[b][s] \in [step : {"none", "read", "write"}, dir : Dirs, was : OrNone(Records)]
          BY <1>0 DEF SetterType
    <3> HIDE DEF rec, to
    <3>5. setter'[b][s].dir = setter[b][s].dir /\ setter'[b][s].was = rec
          BY <3>1, <3>3, <3>4
    <3>6. record'[setter'[b][s].dir][Pid[b]] = rec
          BY <2>1, <2>3, <3>5 DEF rec
    <3> QED BY <3>3, <3>5, <3>6
  <2> QED BY <2>2, <2>3
<1>3. ASSUME NEW c \in Bridges, NEW t \in Statuses, WriteStatus(c, t)
      PROVE  LET rec == record'[setter'[b][s].dir][Pid[b]]
             IN  rec # None /\ rec.owner = setter'[b][s].was.owner
  <2>1. c # b /\ phase' = phase /\ setter'[b] = setter[b]
        BY <1>3, WriteKeeps
  <2> QED BY <1>1, <2>1
\* A bridge that comes to serve, or sets out to write a status, writes nothing yet.
<1>4. ASSUME NEW c \in Bridges, NEW t \in Statuses, BeginStatus(c, t)
      PROVE  phase[b] = "up" /\ setter'[b][s] = setter[b][s]
  <2>1. /\ phase' = phase
        /\ setter' = [setter EXCEPT ![c][t] = [setter[c][t] EXCEPT !.step = "read"]]
        BY <1>0, <1>4 DEF BeginStatus, SetterType
  <2>2. \/ setter'[b][s] = setter[b][s]
        \/ setter'[b][s] = [setter[b][s] EXCEPT !.step = "read"]
        BY <1>0, <2>1 DEF SetterType
  <2> QED BY <1>0, <2>1, <2>2 DEF SetterType
<1>5. ASSUME NEW c \in Bridges,
             Start(c) \/ Register(c) \/ Serve(c) \/ Leave(c) \/ Deregister(c) \/ Exit(c) \/ Crash(c)
      PROVE  phase[b] = "up" /\ setter'[b][s] = setter[b][s]
  <2>1. CASE Start(c) \/ Register(c) \/ Serve(c) \/ Leave(c) \/ Deregister(c)
    <3>1. setter' = setter
          BY <2>1 DEF Start, Register, Serve, Leave, Deregister, PutFile
    <3>2. phase[b] \in {"up", "deregistering"}
          BY <1>0, <3>1 DEF ThreadInv, Setting
    <3>3. phase[b] = "up"
          BY <1>0, <2>1, <3>2 DEF Start, Register, Serve, Leave, Deregister, PutFile, ThreadType
    <3> QED BY <3>1, <3>3
  <2>2. CASE Exit(c) \/ Crash(c)
    <3>1. /\ phase' = [phase EXCEPT ![c] = "gone"] \/ phase' = [phase EXCEPT ![c] = "crashed"]
          /\ setter' = [setter EXCEPT ![c] = [t \in Statuses |-> NotSetting]]
          BY <2>2 DEF Exit, Crash, End
    <3>2. c # b
          BY <1>0, <3>1 DEF ThreadType
    <3> QED BY <1>0, <3>1, <3>2 DEF ThreadType, SetterType
  <2> QED BY <1>5, <2>1, <2>2
<1>6. ASSUME NEW x \in Senders,
             Look(x) \/ Glob(x) \/ Read(x) \/ Ps(x) \/ Resolve(x) \/ Key(x) \/ Connect(x)
      PROVE  phase' = phase /\ setter' = setter
      BY <1>6 DEF Look, Glob, Read, Ps, Resolve, Key, Connect, OnlySender
<1>7. UNCHANGED vars => phase' = phase /\ setter' = setter
      BY DEF vars
<1> QED BY <1>1, <1>2, <1>3, <1>4, <1>5, <1>6, <1>7 DEF Next

\* b is among the peers listed so far, or about to be.
Alive(s, b) == \E i \in DOMAIN s.alive : s.alive[i] = b
Seen(s, b) == Alive(s, b) \/ (s.step = "ps" /\ s.was = b)

\* Where a search for b is, if b serves all along.
Listing(s, b) ==
    /\ \A d \in Sound : d < s.dir => Seen(s, b)
    /\ s.step \in {"read", "ps"} /\ s.dir \in Sound => Seen(s, b) \/ Pid[b] \in s.names
    /\ Pid[b] \in s.socks => Seen(s, b)

\* x wants b, and no other that ran while it listed.
WantsOnly(x, s, b) ==
    /\ Wanted[x] \in {Name[b], Ref[b]}
    /\ \A c \in s.ran : Wanted[x] \in {Name[c], Ref[c]} => c = b

Follows(x, s, b) ==
    /\ s.step \in {"glob", "read", "ps"} => Listing(s, b)
    /\ WantsOnly(x, s, b) =>
          /\ s.step \in {"key", "connect"} => s.peer = b
          /\ s.step = "key" => \A d \in Sound : s.dir <= d
          /\ s.step = "connect" => s.token = b
          /\ s.step \in Outcome => s.step = "sent" /\ s.token = b

SearchType(s) ==
    /\ s.alive \in Seq(Bridges) /\ s.names \subseteq Pids /\ s.steady \subseteq Bridges
    /\ s.step = "ps" => s.was \in Bridges
    /\ s.step = "new" => s.steady = {} /\ s.dir = 1 /\ s.socks = {} /\ s.alive = <<>>

\* Whoever is listed alive has run since, and so has whoever runs by now.
Met(s) ==
    /\ \A i \in DOMAIN s.alive : s.alive[i] \in s.ran
    /\ s.step \in {"glob", "read", "ps"} => \A c \in Bridges : Running(c) => c \in s.ran
MetInv == \A x \in Senders : Met(sender[x])

SearchInv ==
    \A x \in Senders :
        /\ SearchType(sender[x])
        /\ \A b \in sender[x].steady :
              phase[b] = "up" /\ (~Masked(b) => Follows(x, sender[x], b))

\* The least of some pids.
LEMMA LeastIs ==
    ASSUME NEW S \in SUBSET Nat, S # {}
    PROVE  Min(S) \in S /\ \A n \in S : Min(S) <= n
<1>1. PICK l \in S : \A n \in S : <<n, l>> \notin OpToRel(<, Nat)
      BY WFMin, NatLessThanWellFounded, Zenon
<1>2. \A n \in S : ~(n < l)
      BY <1>1, Zenon DEF OpToRel
<1>3. \A n \in S : l <= n
      BY <1>2
<1> QED BY <1>3 DEF Min

\* The files of a bridge that serves and is not masked.
LEMMA OwnFiles ==
    ASSUME RegistryInv, NEW b \in Bridges, phase[b] = "up", ~Masked(b), NEW d \in Dirs
    PROVE  /\ key[d][Pid[b]] \in {b, None}
           /\ record[d][Pid[b]] # None => record[d][Pid[b]].owner = b
           /\ d \in Sound => key[d][Pid[b]] = b /\ record[d][Pid[b]] # None
<1>1. key[d][Pid[b]] \in {b, None} /\ (record[d][Pid[b]] # None => record[d][Pid[b]].owner = b)
      BY DEF Masked
<1>2. ASSUME d \in Sound PROVE FileInv(b, d)
      BY <1>2 DEF RegistryInv
<1>3. d \in Sound => key[d][Pid[b]] = b /\ record[d][Pid[b]] # None
      BY <1>2 DEF FileInv
<1> QED BY <1>1, <1>3

\* A step of a sender itself.
Searching(x) ==
    Look(x) \/ Glob(x) \/ Read(x) \/ Ps(x) \/ Resolve(x) \/ Key(x) \/ Connect(x)

LEMMA EndedIs ==
    ASSUME SenderInv, NEW x \in Senders, NEW o \in Outcome
    PROVE  LET s == Ended(x, o)
           IN  /\ s.step = o /\ s.steady = sender[x].steady /\ s.token = sender[x].token
               /\ s.alive = <<>> /\ s.names = {} /\ s.ran = sender[x].ran
BY DEF Ended, NotSending

\* The first match has the name or the ref that is wanted, and so is b if no
\* other that was listed has it.
LEMMA MatchIs ==
    ASSUME NEW x \in Senders, NEW b \in Bridges, NEW s, WantsOnly(x, s, b), Met(s),
           s.alive \in Seq(Bridges), Alive(s, b)
    PROVE  LET found == Matches(s.alive, Wanted[x])
           IN  found # {} /\ s.alive[Min(found)] = b
<1> DEFINE named == {i \in DOMAIN s.alive : Name[s.alive[i]] = Wanted[x]}
           reffed == {i \in DOMAIN s.alive : Ref[s.alive[i]] = Wanted[x]}
           found == Matches(s.alive, Wanted[x])
<1>1. found = IF named # {} THEN named ELSE reffed
      BY DEF Matches
<1>2. PICK i \in DOMAIN s.alive : s.alive[i] = b
      BY DEF Alive
<1>3. i \in named \/ i \in reffed
      BY <1>2 DEF WantsOnly
<1>4. found # {} /\ found \in SUBSET Nat
      BY <1>1, <1>3
<1>5. Min(found) \in found
      BY <1>4, LeastIs
<1>6. ASSUME NEW j \in found PROVE s.alive[j] = b
  <2>1. j \in DOMAIN s.alive /\ Wanted[x] \in {Name[s.alive[j]], Ref[s.alive[j]]}
        BY <1>1
  <2> QED BY <2>1 DEF Met, WantsOnly
<1> HIDE DEF found
<1>7. found # {} /\ s.alive[Min(found)] = b
      BY <1>4, <1>5, <1>6
<1> QED BY <1>7 DEF found

LEMMA SearchingReaches ==
    ASSUME SoundAccount, RegistryInv, SenderInv, SearchInv, MetInv,
           NEW x \in Senders, Searching(x)
    PROVE  /\ SearchType(sender'[x])
           /\ \A b \in sender'[x].steady :
                 phase[b] = "up" /\ (~Masked(b) => Follows(x, sender'[x], b))
<1> DEFINE s == sender[x]
           Reaches(n) == /\ SearchType(n)
                         /\ \A b \in n.steady : phase[b] = "up" /\ (~Masked(b) => Follows(x, n, b))
<1>0. /\ DOMAIN sender = Senders /\ DOMAIN s = Fields /\ s.dir \in Dirs /\ Accounts \in Nat
      /\ Reaches(s) /\ RecordType /\ KeyType
      /\ Pids \subseteq Nat /\ \A b \in Bridges : Pid[b] \in Pids
      /\ Sound \subseteq Dirs /\ None \notin Bridges
      BY AccountBounds, RegistryAssumption DEF SenderInv, IsSender, SearchInv, RegistryInv, Sound
<1>8. <<>> \in Seq(Bridges)
      OBVIOUS
\* Accounts are numbers.
<1>9. s.dir \in Nat /\ \A d \in Sound : d \in Nat /\ 1 <= d
      BY <1>0 DEF Dirs
<1>10. \A d \in Sound :
          /\ s.dir <= d /\ s.dir # d => s.dir + 1 <= d
          /\ d < s.dir + 1 => d <= s.dir
          /\ ~(d < 1)
       BY <1>9
<1> SUFFICES Reaches(sender'[x])
    OBVIOUS
<1>1. CASE Look(x)
  <2> DEFINE up == {b \in Bridges : phase[b] = "up"}
             ran == {b \in Bridges : Running(b)}
  <2>1. s.step = "new" /\ sender'[x] = [s EXCEPT !.step = "glob", !.steady = up, !.ran = ran]
        BY <1>0, <1>1 DEF Look, SenderAt
  <2>2. /\ sender'[x].step = "glob" /\ sender'[x].steady = up /\ sender'[x].dir = 1
        /\ sender'[x].socks = {} /\ sender'[x].alive = s.alive /\ sender'[x].names = s.names
        BY <1>0, <2>1 DEF Fields, SearchType
  <2>3. SearchType(sender'[x])
        BY <1>0, <2>2 DEF SearchType
  <2>4. ASSUME NEW b \in up PROVE Follows(x, sender'[x], b)
    <3>1. Listing(sender'[x], b)
          BY <1>10, <2>2 DEF Listing
    <3> QED BY <2>2, <3>1 DEF Follows, Outcome
  <2> QED BY <2>2, <2>3, <2>4
<1>2. CASE Glob(x)
  <2> DEFINE names == {p \in Pids : record[s.dir][p] # None}
  <2>1. s.step = "glob" /\ sender'[x] = [s EXCEPT !.step = "read", !.names = names]
        BY <1>0, <1>2 DEF Glob, SenderAt
  <2>2. /\ sender'[x].step = "read" /\ sender'[x].names = names /\ sender'[x].steady = s.steady
        /\ sender'[x].dir = s.dir /\ sender'[x].socks = s.socks /\ sender'[x].alive = s.alive
        BY <1>0, <2>1 DEF Fields
  <2>3. SearchType(sender'[x])
        BY <1>0, <2>2 DEF SearchType
  <2>4. ASSUME NEW b \in s.steady, ~Masked(b) PROVE Follows(x, sender'[x], b)
    <3>1. b \in Bridges /\ phase[b] = "up" /\ Listing(s, b)
          BY <1>0, <2>1, <2>4 DEF SearchType, Follows
    <3>2. s.dir \in Sound => Pid[b] \in names
          BY <1>0, <2>4, <3>1, OwnFiles
    <3>3. Listing(sender'[x], b)
          BY <2>1, <2>2, <3>1, <3>2 DEF Listing, Seen, Alive
    <3> QED BY <2>2, <3>3 DEF Follows, Outcome
  <2> QED BY <1>0, <2>2, <2>3, <2>4
<1>3. CASE Read(x)
  <2> DEFINE p == Min(s.names)
             rec == record[s.dir][p]
             rest == [s EXCEPT !.names = @ \ {p}]
             next == [rest EXCEPT !.step = "ps", !.was = rec.owner, !.socks = @ \cup {p}]
  <2>1. /\ s.step = "read" /\ s.names # {}
        /\ sender'[x] = IF rec = None \/ p \in s.socks THEN rest ELSE next
        BY <1>0, <1>3 DEF Read, SenderAt
  <2>2. p \in s.names
        BY <1>0, <2>1, LeastIs DEF SearchType
  <2>3. rec # None => rec.owner \in Bridges
    <3>1. rec \in OrNone(Records)
          BY <1>0, <2>2 DEF RecordType, SearchType
    <3> QED BY <3>1 DEF OrNone, Records
  <2> HIDE DEF p
  <2>4. /\ rest.step = "read" /\ rest.names = s.names \ {p} /\ rest.steady = s.steady
        /\ rest.dir = s.dir /\ rest.socks = s.socks /\ rest.alive = s.alive
        BY <1>0, <2>1 DEF Fields
  <2>5. /\ next.step = "ps" /\ next.names = s.names \ {p} /\ next.steady = s.steady
        /\ next.dir = s.dir /\ next.socks = s.socks \cup {p} /\ next.alive = s.alive
        /\ next.was = rec.owner
        BY <1>0 DEF Fields
  <2>6. ASSUME NEW b \in s.steady, ~Masked(b)
        PROVE  b \in Bridges /\ phase[b] = "up" /\ Listing(s, b)
        BY <1>0, <2>1, <2>6 DEF SearchType, Follows
  <2>7. ASSUME NEW b \in s.steady, ~Masked(b), p = Pid[b]
        PROVE  /\ rec # None => rec.owner = b
               /\ s.dir \in Sound => rec # None
        BY <1>0, <2>6, <2>7, OwnFiles
  <2> HIDE DEF rec, rest, next
  <2>8. CASE rec = None \/ p \in s.socks
    <3>1. sender'[x] = rest
          BY <2>1, <2>8
    <3>2. SearchType(rest)
          BY <1>0, <2>4 DEF SearchType
    <3>3. ASSUME NEW b \in s.steady, ~Masked(b) PROVE Follows(x, rest, b)
      <4>1. Seen(rest, b) <=> Seen(s, b)
            BY <2>1, <2>4 DEF Seen, Alive
      <4>2. Listing(rest, b)
            BY <2>1, <2>4, <2>6, <2>7, <2>8, <3>3, <4>1 DEF Listing
      <4> QED BY <2>4, <4>2 DEF Follows, Outcome
    <3> QED BY <1>0, <2>4, <3>1, <3>2, <3>3
  <2>9. CASE ~(rec = None \/ p \in s.socks)
    <3>1. sender'[x] = next
          BY <2>1, <2>9
    <3>2. SearchType(next)
          BY <1>0, <2>3, <2>5, <2>9 DEF SearchType
    <3>3. ASSUME NEW b \in s.steady, ~Masked(b) PROVE Follows(x, next, b)
      <4>1. Seen(s, b) => Seen(next, b)
            BY <2>1, <2>5 DEF Seen, Alive
      <4>2. p = Pid[b] => Seen(next, b)
            BY <2>5, <2>7, <2>9, <3>3 DEF Seen
      <4>3. Listing(next, b)
            BY <2>1, <2>5, <2>6, <3>3, <4>1, <4>2 DEF Listing
      <4> QED BY <2>5, <4>3 DEF Follows, Outcome
    <3> QED BY <1>0, <2>5, <3>1, <3>2, <3>3
  <2> QED BY <2>8, <2>9
<1>4. CASE Ps(x)
  <2> DEFINE alive == IF Running(s.was) THEN Append(s.alive, s.was) ELSE s.alive
  <2>1. /\ s.step = "ps"
        /\ sender'[x] = [s EXCEPT !.step = "read", !.was = None, !.alive = alive]
        BY <1>0, <1>4 DEF Ps, SenderAt
  <2>2. /\ sender'[x].step = "read" /\ sender'[x].names = s.names /\ sender'[x].steady = s.steady
        /\ sender'[x].dir = s.dir /\ sender'[x].socks = s.socks /\ sender'[x].alive = alive
        BY <1>0, <2>1 DEF Fields
  <2>3. s.alive \in Seq(Bridges) /\ s.was \in Bridges
        BY <1>0, <2>1 DEF SearchType
  <2>4. SearchType(sender'[x])
        BY <1>0, <2>2, <2>3 DEF SearchType
  <2>5. ASSUME NEW b \in s.steady, ~Masked(b) PROVE Follows(x, sender'[x], b)
    <3>1. b \in Bridges /\ phase[b] = "up" /\ Listing(s, b)
          BY <1>0, <2>1, <2>5 DEF SearchType, Follows
    <3>2. Alive(s, b) => Alive(sender'[x], b)
          BY <2>2, <2>3 DEF Alive
    <3>3. s.was = b => Alive(sender'[x], b)
      <4>1. ASSUME s.was = b PROVE alive = Append(s.alive, b)
            BY <3>1, <4>1 DEF Running
      <4>2. LET a == Append(s.alive, b) IN Len(s.alive) + 1 \in DOMAIN a /\ a[Len(s.alive) + 1] = b
            BY <2>3, <3>1
      <4> QED BY <2>2, <4>1, <4>2 DEF Alive
    <3>4. Seen(s, b) => Seen(sender'[x], b)
          BY <3>2, <3>3 DEF Seen
    <3>5. Listing(sender'[x], b)
          BY <2>1, <2>2, <3>1, <3>4 DEF Listing
    <3> QED BY <2>2, <3>5 DEF Follows, Outcome
  <2> QED BY <1>0, <2>2, <2>4, <2>5
<1>5. CASE Resolve(x)
  <2> DEFINE found == Matches(s.alive, Wanted[x])
             on == [s EXCEPT !.step = "glob", !.dir = @ + 1]
             go == [s EXCEPT !.step = "key", !.dir = 1, !.peer = s.alive[Min(found)]]
             none == Ended(x, "no such peer")
  <2>1. /\ s.step = "read" /\ s.names = {}
        /\ sender'[x] = IF s.dir < Accounts THEN on ELSE IF found = {} THEN none ELSE go
        BY <1>0, <1>5 DEF Resolve, SenderAt
  <2>2. /\ on.step = "glob" /\ on.names = s.names /\ on.steady = s.steady
        /\ on.dir = s.dir + 1 /\ on.socks = s.socks /\ on.alive = s.alive
        BY <1>0 DEF Fields
  <2>3. /\ go.step = "key" /\ go.names = s.names /\ go.steady = s.steady
        /\ go.dir = 1 /\ go.socks = s.socks /\ go.alive = s.alive
        /\ go.peer = s.alive[Min(found)] /\ go.ran = s.ran
        BY <1>0 DEF Fields
  <2>4. /\ none.step = "no such peer" /\ none.names = {} /\ none.steady = s.steady
        /\ none.alive = <<>> /\ none.ran = s.ran
        BY EndedIs DEF Outcome
  <2> HIDE DEF on, go, none, found
  \* What has been seen is listed by now.
  <2>5. ASSUME NEW b \in s.steady, ~Masked(b)
        PROVE  /\ b \in Bridges /\ Listing(s, b)
               /\ \A d \in Sound : d <= s.dir => Alive(s, b)
               /\ Seen(s, b) => Alive(s, b)
    <3>1. b \in Bridges /\ Listing(s, b)
          BY <1>0, <2>1, <2>5 DEF SearchType, Follows
    <3>2. Seen(s, b) => Alive(s, b)
          BY <2>1 DEF Seen
    <3>3. ASSUME NEW d \in Sound, d <= s.dir PROVE Alive(s, b)
      <4>1. d < s.dir \/ d = s.dir
            BY <1>9, <3>3
      <4> QED BY <2>1, <3>1, <3>2, <4>1 DEF Listing
    <3> QED BY <3>1, <3>2, <3>3
  <2>6. CASE s.dir < Accounts
    <3>1. sender'[x] = on
          BY <2>1, <2>6
    <3>2. SearchType(on)
          BY <1>0, <2>2 DEF SearchType
    <3>3. ASSUME NEW b \in s.steady, ~Masked(b) PROVE Follows(x, on, b)
      <4>1. Alive(s, b) => Seen(on, b)
            BY <2>2 DEF Seen, Alive
      <4>2. Listing(on, b)
            BY <1>10, <2>2, <2>5, <3>3, <4>1 DEF Listing
      <4> QED BY <2>2, <4>2 DEF Follows, Outcome
    <3> QED BY <1>0, <2>2, <3>1, <3>2, <3>3
  <2>7. CASE ~(s.dir < Accounts)
    <3>1. \A d \in Sound : d <= s.dir
          BY <1>0, <2>7 DEF Dirs
    <3>2. ASSUME NEW b \in s.steady, ~Masked(b), WantsOnly(x, s, b)
          PROVE  found # {} /\ s.alive[Min(found)] = b
      <4>1. Alive(s, b) /\ b \in Bridges
            BY <2>5, <3>1, <3>2 DEF SoundAccount
      <4>2. Met(s)
            BY DEF MetInv
      <4> QED BY <1>0, <3>2, <4>1, <4>2, MatchIs DEF SearchType, found
    <3>3. SearchType(go) /\ SearchType(none)
          BY <1>0, <1>8, <2>3, <2>4 DEF SearchType
    <3>4. ASSUME NEW b \in s.steady, ~Masked(b), found # {} PROVE Follows(x, go, b)
      <4>1. WantsOnly(x, go, b) => go.peer = b
            BY <2>3, <3>2, <3>4 DEF WantsOnly
      <4> QED BY <1>9, <2>3, <4>1 DEF Follows, Outcome
    <3>5. ASSUME NEW b \in s.steady, ~Masked(b), found = {} PROVE Follows(x, none, b)
      <4>1. ~WantsOnly(x, none, b)
            BY <2>4, <3>2, <3>5 DEF WantsOnly
      <4> QED BY <2>4, <4>1 DEF Follows, Outcome
    <3> QED BY <1>0, <2>1, <2>3, <2>4, <2>7, <3>3, <3>4, <3>5
  <2> QED BY <2>6, <2>7
<1>6. CASE Key(x)
  <2> DEFINE token == key[s.dir][Pid[s.peer]]
             got == [s EXCEPT !.step = "connect", !.token = token]
             on == [s EXCEPT !.dir = @ + 1]
             none == Ended(x, "no key")
  <2>1. /\ s.step = "key"
        /\ sender'[x] = IF token # None THEN got ELSE IF s.dir < Accounts THEN on ELSE none
        BY <1>0, <1>6 DEF Key, SenderAt
  <2>2. /\ got.step = "connect" /\ got.names = s.names /\ got.steady = s.steady
        /\ got.alive = s.alive /\ got.peer = s.peer /\ got.token = token /\ got.ran = s.ran
        BY <1>0 DEF Fields
  <2>3. /\ on.step = "key" /\ on.names = s.names /\ on.steady = s.steady
        /\ on.dir = s.dir + 1 /\ on.alive = s.alive /\ on.peer = s.peer /\ on.ran = s.ran
        BY <1>0, <2>1 DEF Fields
  <2>4. /\ none.step = "no key" /\ none.names = {} /\ none.steady = s.steady
        /\ none.alive = <<>> /\ none.ran = s.ran
        BY EndedIs DEF Outcome
  <2>5. SearchType(got) /\ SearchType(on) /\ SearchType(none)
        BY <1>0, <1>8, <2>2, <2>3, <2>4 DEF SearchType
  <2>6. ASSUME NEW b \in s.steady, ~Masked(b), WantsOnly(x, s, b)
        PROVE  /\ token \in {b, None} /\ s.peer = b /\ b \in Bridges
               /\ token = None => \A d \in Sound : s.dir + 1 <= d
    <3>1. /\ b \in Bridges /\ phase[b] = "up"
          /\ s.peer = b /\ \A d \in Sound : s.dir <= d
          BY <1>0, <2>1, <2>6 DEF SearchType, Follows
    <3>2. token \in {b, None} /\ (s.dir \in Sound => token = b)
          BY <1>0, <2>6, <3>1, OwnFiles
    <3> HIDE DEF token
    <3>3. token = None => \A d \in Sound : s.dir # d
          BY <1>0, <3>1, <3>2
    <3>4. token = None => \A d \in Sound : s.dir + 1 <= d
          BY <1>10, <3>1, <3>3
    <3> QED BY <3>1, <3>2, <3>4
  <2> HIDE DEF token, got, on, none
  <2>10. ASSUME NEW b PROVE /\ WantsOnly(x, got, b) <=> WantsOnly(x, s, b)
                            /\ WantsOnly(x, on, b) <=> WantsOnly(x, s, b)
                            /\ WantsOnly(x, none, b) <=> WantsOnly(x, s, b)
         BY <2>2, <2>3, <2>4 DEF WantsOnly
  <2>7. ASSUME NEW b \in s.steady, ~Masked(b), token # None PROVE Follows(x, got, b)
        BY <2>2, <2>6, <2>7, <2>10 DEF Follows, Outcome
  <2>8. ASSUME NEW b \in s.steady, ~Masked(b), token = None PROVE Follows(x, on, b)
        BY <2>3, <2>6, <2>8, <2>10 DEF Follows, Outcome
  <2>9. ASSUME NEW b \in s.steady, ~Masked(b), token = None, ~(s.dir < Accounts)
        PROVE  Follows(x, none, b)
    <3>1. PICK d \in Sound : TRUE
          BY DEF SoundAccount
    <3>2. ~(s.dir + 1 <= d)
          BY <1>0, <2>9, <3>1 DEF Dirs
    <3>3. ~WantsOnly(x, none, b)
          BY <2>6, <2>9, <2>10, <3>1, <3>2
    <3> QED BY <2>4, <3>3 DEF Follows
  <2> QED BY <1>0, <2>1, <2>2, <2>3, <2>4, <2>5, <2>7, <2>8, <2>9
<1>7. CASE Connect(x)
  <2> DEFINE there == {b \in Bridges : Pid[b] = Pid[s.peer] /\ Running(b)}
             o == IF there = {} THEN "nobody there"
                  ELSE IF s.token \in there THEN "sent" ELSE "bad token"
  <2>1. s.step = "connect" /\ sender'[x] = Ended(x, o)
        BY <1>0, <1>7 DEF Connect, SenderAt
  <2>2. ASSUME NEW b \in s.steady, ~Masked(b), WantsOnly(x, s, b)
        PROVE  o = "sent" /\ s.token = b
    <3>1. /\ b \in Bridges /\ phase[b] = "up"
          /\ s.peer = b /\ s.token = b
          BY <1>0, <2>1, <2>2 DEF SearchType, Follows
    <3>2. b \in there
          BY <3>1 DEF Running
    <3> QED BY <3>1, <3>2
  <2>3. o \in Outcome
        BY DEF Outcome
  <2> HIDE DEF o
  <2>4. /\ sender'[x].step = o /\ sender'[x].names = {} /\ sender'[x].steady = s.steady
        /\ sender'[x].alive = <<>> /\ sender'[x].token = s.token /\ sender'[x].ran = s.ran
        BY <2>1, <2>3, EndedIs
  <2>5. SearchType(sender'[x])
        BY <1>0, <1>8, <2>3, <2>4 DEF SearchType, Outcome
  <2>6. ASSUME NEW b \in s.steady, ~Masked(b) PROVE Follows(x, sender'[x], b)
    <3>1. WantsOnly(x, sender'[x], b) => WantsOnly(x, s, b)
          BY <2>4 DEF WantsOnly
    <3> QED BY <2>2, <2>3, <2>4, <2>6, <3>1 DEF Follows, Outcome
  <2> QED BY <1>0, <2>4, <2>5, <2>6
<1> QED BY <1>1, <1>2, <1>3, <1>4, <1>5, <1>6, <1>7 DEF Searching

LEMMA SearchInvStep ==
    ASSUME SoundAccount
    PROVE  RegistryInv /\ WasInv /\ SenderInv /\ SearchInv /\ MetInv /\ [Next]_vars => SearchInv'
<1> SUFFICES ASSUME RegistryInv, WasInv, SenderInv, SearchInv, MetInv, [Next]_vars,
                    NEW x \in Senders
             PROVE  /\ SearchType(sender'[x])
                    /\ \A b \in sender'[x].steady :
                          phase'[b] = "up" /\ (~Masked(b)' => Follows(x, sender'[x], b))
    BY DEF SearchInv, SearchType, Follows, WantsOnly, Listing, Seen, Alive
<1> DEFINE s == sender[x]
<1>0. /\ DOMAIN sender = Senders /\ DOMAIN s = Fields
      /\ SearchType(s) /\ s.steady \subseteq Bridges
      /\ \A b \in s.steady : phase[b] = "up" /\ (~Masked(b) => Follows(x, s, b))
      /\ ThreadType
      BY DEF SenderInv, IsSender, SearchInv, SearchType, RegistryInv
\* Masking does not change while a bridge serves.
<1>1. ASSUME NEW b \in Bridges, phase[b] = "up", ~Masked(b)' PROVE ~Masked(b)
  <2>1. SameOwners(b)
        BY <1>1, UpKeeps
  <2> QED BY <1>1, <2>1 DEF SameOwners, Masked
\* Steps of bridges leave what a sender has read.
<1>2. ASSUME sender'[x].steady \subseteq s.steady, s.ran \subseteq sender'[x].ran,
             sender'[x].step = s.step, sender'[x].dir = s.dir, sender'[x].names = s.names,
             sender'[x].socks = s.socks, sender'[x].was = s.was, sender'[x].alive = s.alive,
             sender'[x].peer = s.peer, sender'[x].token = s.token,
             \A b \in sender'[x].steady : phase'[b] = "up"
      PROVE  /\ SearchType(sender'[x])
             /\ \A b \in sender'[x].steady :
                   phase'[b] = "up" /\ (~Masked(b)' => Follows(x, sender'[x], b))
  <2>1. SearchType(sender'[x])
        BY <1>0, <1>2 DEF SearchType
  <2>2. ASSUME NEW b \in sender'[x].steady, ~Masked(b)' PROVE Follows(x, sender'[x], b)
    <3>1. Follows(x, s, b)
          BY <1>0, <1>1, <1>2, <2>2
    <3>2. WantsOnly(x, sender'[x], b) => WantsOnly(x, s, b)
          BY <1>2 DEF WantsOnly
    <3>3. Listing(s, b) => Listing(sender'[x], b)
          BY <1>2 DEF Listing, Seen, Alive
    <3> QED BY <1>2, <3>1, <3>2, <3>3 DEF Follows
  <2> QED BY <1>2, <2>1, <2>2
<1>3. ASSUME sender'[x] = s, \A b \in s.steady : phase'[b] = "up"
      PROVE  /\ SearchType(sender'[x])
             /\ \A b \in sender'[x].steady :
                   phase'[b] = "up" /\ (~Masked(b)' => Follows(x, sender'[x], b))
      BY <1>0, <1>1, <1>3
<1>4. ASSUME NEW y \in Senders, Searching(y)
      PROVE  /\ SearchType(sender'[x])
             /\ \A b \in sender'[x].steady :
                   phase'[b] = "up" /\ (~Masked(b)' => Follows(x, sender'[x], b))
  <2>1. UNCHANGED <<record, key, phase>>
        BY <1>4 DEF Searching, Look, Glob, Read, Ps, Resolve, Key, Connect, OnlySender
  <2>2. \E new : sender' = [sender EXCEPT ![y] = new]
        BY <1>4 DEF Searching, Look, Glob, Read, Ps, Resolve, Key, Connect, SenderAt
  <2>3. CASE y # x
        BY <1>0, <1>3, <2>1, <2>2, <2>3
  <2>4. CASE y = x
    <3>1. /\ SearchType(sender'[x])
          /\ \A b \in sender'[x].steady :
                phase[b] = "up" /\ (~Masked(b) => Follows(x, sender'[x], b))
          BY <1>4, <2>4, SearchingReaches
    <3>2. \A b : Masked(b)' <=> Masked(b)
          BY <2>1 DEF Masked
    <3> QED BY <2>1, <3>1, <3>2
  <2> QED BY <2>3, <2>4
<1>5. ASSUME NEW c \in Bridges, Leave(c) \/ Exit(c) \/ Crash(c)
      PROVE  /\ SearchType(sender'[x])
             /\ \A b \in sender'[x].steady :
                   phase'[b] = "up" /\ (~Masked(b)' => Follows(x, sender'[x], b))
  <2>1. /\ sender'[x] = [s EXCEPT !.steady = s.steady \ {c}]
        /\ \A b \in Bridges \ {c} : phase'[b] = phase[b]
        BY <1>0, <1>5 DEF Leave, Exit, Crash, End, Unsteady, ThreadType
  <2>2. \A b \in s.steady \ {c} : phase'[b] = "up"
        BY <1>0, <2>1
  <2>3. /\ sender'[x].steady = s.steady \ {c} /\ sender'[x].ran = s.ran
        /\ sender'[x].step = s.step /\ sender'[x].dir = s.dir /\ sender'[x].names = s.names
        /\ sender'[x].socks = s.socks /\ sender'[x].was = s.was /\ sender'[x].alive = s.alive
        /\ sender'[x].peer = s.peer /\ sender'[x].token = s.token
        BY <1>0, <2>1 DEF Fields
  <2> QED BY <1>2, <2>2, <2>3
<1>6. ASSUME NEW c \in Bridges,
             \/ Register(c) \/ Serve(c) \/ Deregister(c)
             \/ \E t \in Statuses : BeginStatus(c, t) \/ ReadStatus(c, t) \/ WriteStatus(c, t)
      PROVE  sender' = sender /\ \A b \in Bridges : phase[b] = "up" => phase'[b] = "up"
      BY <1>0, <1>6 DEF Register, Serve, Deregister, PutFile, BeginStatus, ReadStatus,
         WriteStatus, ThreadType
<1>8. ASSUME NEW c \in Bridges, Start(c)
      PROVE  /\ SearchType(sender'[x])
             /\ \A b \in sender'[x].steady :
                   phase'[b] = "up" /\ (~Masked(b)' => Follows(x, sender'[x], b))
  <2>1. /\ sender'[x] = s \/ sender'[x] = [s EXCEPT !.ran = s.ran \cup {c}]
        /\ \A b \in Bridges : phase[b] = "up" => phase'[b] = "up"
        BY <1>0, <1>8 DEF Start, Meeting, ThreadType
  <2>2. CASE sender'[x] = s
        BY <1>0, <1>3, <2>1, <2>2
  <2>3. CASE sender'[x] = [s EXCEPT !.ran = s.ran \cup {c}]
    <3>1. /\ sender'[x].steady = s.steady /\ sender'[x].ran = s.ran \cup {c}
          /\ sender'[x].step = s.step /\ sender'[x].dir = s.dir /\ sender'[x].names = s.names
          /\ sender'[x].socks = s.socks /\ sender'[x].was = s.was /\ sender'[x].alive = s.alive
          /\ sender'[x].peer = s.peer /\ sender'[x].token = s.token
          BY <1>0, <2>3 DEF Fields
    <3> QED BY <1>0, <1>2, <2>1, <3>1
  <2> QED BY <2>1, <2>2, <2>3
<1>7. UNCHANGED vars => sender' = sender /\ phase' = phase
      BY DEF vars
<1> QED BY <1>0, <1>3, <1>4, <1>5, <1>6, <1>7, <1>8 DEF Next, Searching

\* Whoever a sender lists alive, and whoever runs while it lists, is one of
\* those that have run since it looked.
LEMMA MetInvStep ==
    RegistryInv /\ SenderInv /\ SearchInv /\ MetInv /\ [Next]_vars => MetInv'
<1> SUFFICES ASSUME RegistryInv, SenderInv, SearchInv, MetInv, [Next]_vars, NEW x \in Senders
             PROVE  Met(sender[x])'
    BY DEF MetInv
<1> DEFINE s == sender[x]
<1>0. /\ DOMAIN sender = Senders /\ DOMAIN s = Fields /\ SearchType(s) /\ Met(s) /\ ThreadType
      BY DEF SenderInv, IsSender, SearchInv, MetInv, RegistryInv
<1>1. ASSUME sender'[x].step = s.step, sender'[x].alive = s.alive, sender'[x].ran = s.ran,
             \A b \in Bridges : Running(b)' => Running(b)
      PROVE  Met(sender[x])'
      BY <1>0, <1>1 DEF Met
<1>2. ASSUME NEW y \in Senders, Searching(y) PROVE Met(sender[x])'
  <2>1. UNCHANGED phase
        BY <1>2 DEF Searching, Look, Glob, Read, Ps, Resolve, Key, Connect, OnlySender
  <2>2. \A b \in Bridges : Running(b)' <=> Running(b)
        BY <2>1 DEF Running
  <2>3. \E new : sender' = [sender EXCEPT ![y] = new]
        BY <1>2 DEF Searching, Look, Glob, Read, Ps, Resolve, Key, Connect, SenderAt
  <2>4. CASE y # x
        BY <1>0, <1>1, <2>2, <2>3, <2>4
  <2>5. CASE y = x
    <3>1. CASE Look(x)
      <4>1. /\ s.step = "new"
            /\ sender'[x] = [s EXCEPT !.step = "glob",
                               !.steady = {b \in Bridges : phase[b] = "up"},
                               !.ran = {b \in Bridges : Running(b)}]
            BY <1>0, <3>1 DEF Look, SenderAt
      <4>2. sender'[x].alive = <<>> /\ sender'[x].ran = {b \in Bridges : Running(b)}
            BY <1>0, <4>1 DEF Fields, SearchType
      <4> QED BY <2>2, <4>2 DEF Met
    <3>2. CASE Ps(x)
      <4> DEFINE alive == IF Running(s.was) THEN Append(s.alive, s.was) ELSE s.alive
      <4>1. /\ s.step = "ps"
            /\ sender'[x] = [s EXCEPT !.step = "read", !.was = None, !.alive = alive]
            BY <1>0, <3>2 DEF Ps, SenderAt
      <4>2. sender'[x].alive = alive /\ sender'[x].ran = s.ran
            BY <1>0, <4>1 DEF Fields
      <4>3. s.alive \in Seq(Bridges) /\ s.was \in Bridges
            BY <1>0, <4>1 DEF SearchType
      <4>4. \A i \in DOMAIN alive : alive[i] \in s.ran
        <5>1. CASE Running(s.was)
          <6>1. s.was \in s.ran /\ \A i \in DOMAIN s.alive : s.alive[i] \in s.ran
                BY <1>0, <4>1, <4>3, <5>1 DEF Met
          <6>2. \A i \in DOMAIN Append(s.alive, s.was) : Append(s.alive, s.was)[i] \in s.ran
                BY <4>3, <6>1
          <6> QED BY <5>1, <6>2
        <5>2. CASE ~Running(s.was)
              BY <1>0, <5>2 DEF Met
        <5> QED BY <5>1, <5>2
      <4> HIDE DEF alive
      <4>5. \A c \in Bridges : Running(c) => c \in s.ran
            BY <1>0, <4>1 DEF Met
      <4> QED BY <2>2, <4>2, <4>4, <4>5 DEF Met
    <3>3. CASE Glob(x) \/ Read(x)
      <4>1. /\ s.step \in {"glob", "read"}
            /\ sender'[x].alive = s.alive /\ sender'[x].ran = s.ran
        <5>1. CASE Glob(x)
              BY <1>0, <5>1 DEF Glob, SenderAt, Fields
        <5>2. CASE Read(x)
          <6> DEFINE p == Min(s.names)
                     rec == record[s.dir][p]
                     rest == [s EXCEPT !.names = @ \ {p}]
                     next == [rest EXCEPT !.step = "ps", !.was = rec.owner, !.socks = @ \cup {p}]
          <6>1. s.step = "read" /\ sender'[x] \in {rest, next}
                BY <1>0, <5>2 DEF Read, SenderAt
          <6>2. DOMAIN rest = Fields /\ rest.alive = s.alive /\ rest.ran = s.ran
                BY <1>0 DEF Fields
          <6> HIDE DEF rest, rec, p
          <6>3. next.alive = s.alive /\ next.ran = s.ran
                BY <6>2 DEF Fields
          <6> HIDE DEF next
          <6> QED BY <6>1, <6>2, <6>3
        <5> QED BY <3>3, <5>1, <5>2
      <4> QED BY <1>0, <2>2, <4>1 DEF Met
    <3>4. CASE Resolve(x) \/ Key(x) \/ Connect(x)
      <4>1. ASSUME NEW o \in Outcome, sender'[x] = Ended(x, o) PROVE Met(sender[x])'
        <5>1. sender'[x].step = o /\ sender'[x].alive = <<>>
              BY <4>1, EndedIs
        <5>2. o \notin {"glob", "read", "ps"}
              BY DEF Outcome
        <5>3. \A i \in DOMAIN sender'[x].alive : sender'[x].alive[i] \in sender'[x].ran
              BY <5>1
        <5> QED BY <5>1, <5>2, <5>3 DEF Met
      <4>2. CASE Resolve(x)
        <5> DEFINE found == Matches(s.alive, Wanted[x])
                   on == [s EXCEPT !.step = "glob", !.dir = @ + 1]
                   go == [s EXCEPT !.step = "key", !.dir = 1, !.peer = s.alive[Min(found)]]
        <5>1. /\ s.step = "read"
              /\ sender'[x] \in {on, go, Ended(x, "no such peer")}
              BY <1>0, <4>2 DEF Resolve, SenderAt
        <5>2. /\ on.alive = s.alive /\ on.ran = s.ran
              /\ go.alive = s.alive /\ go.ran = s.ran /\ go.step = "key"
              BY <1>0 DEF Fields
        <5> HIDE DEF on, go
        <5> QED BY <1>0, <2>2, <4>1, <5>1, <5>2 DEF Met, Outcome
      <4>3. CASE Key(x)
        <5> DEFINE token == key[s.dir][Pid[s.peer]]
                   got == [s EXCEPT !.step = "connect", !.token = token]
                   on == [s EXCEPT !.dir = @ + 1]
        <5>1. /\ s.step = "key"
              /\ sender'[x] \in {got, on, Ended(x, "no key")}
              BY <1>0, <4>3 DEF Key, SenderAt
        <5>2. /\ on.alive = s.alive /\ on.ran = s.ran /\ on.step = s.step
              /\ got.alive = s.alive /\ got.ran = s.ran /\ got.step = "connect"
              BY <1>0 DEF Fields
        <5> HIDE DEF on, got
        <5> QED BY <1>0, <4>1, <5>1, <5>2 DEF Met, Outcome
      <4>4. CASE Connect(x)
        <5>1. \E o \in Outcome : sender'[x] = Ended(x, o)
              BY <1>0, <4>4 DEF Connect, SenderAt, Outcome
        <5> QED BY <4>1, <5>1
      <4> QED BY <3>4, <4>2, <4>3, <4>4
    <3> QED BY <1>2, <2>5, <3>1, <3>2, <3>3, <3>4 DEF Searching
  <2> QED BY <2>4, <2>5
<1>3. ASSUME NEW c \in Bridges, Start(c) PROVE Met(sender[x])'
  <2>1. /\ \A b \in Bridges : Running(b)' => Running(b) \/ b = c
        /\ sender'[x] = IF s.step \in {"glob", "read", "ps"}
                        THEN [s EXCEPT !.ran = s.ran \cup {c}] ELSE s
        BY <1>0, <1>3 DEF Start, Meeting, Running, ThreadType
  <2>2. LET n == [s EXCEPT !.ran = s.ran \cup {c}]
        IN  n.alive = s.alive /\ n.ran = s.ran \cup {c} /\ n.step = s.step
        BY <1>0 DEF Fields
  <2> QED BY <1>0, <2>1, <2>2 DEF Met
<1>4. ASSUME NEW c \in Bridges, Leave(c) \/ Exit(c) \/ Crash(c) PROVE Met(sender[x])'
  <2>1. /\ sender'[x] = [s EXCEPT !.steady = s.steady \ {c}]
        /\ \A b \in Bridges : Running(b)' => Running(b)
        BY <1>0, <1>4 DEF Leave, Exit, Crash, End, Unsteady, Running, ThreadType
  <2>2. /\ sender'[x].step = s.step /\ sender'[x].alive = s.alive /\ sender'[x].ran = s.ran
        BY <1>0, <2>1 DEF Fields
  <2> QED BY <1>1, <2>1, <2>2
<1>5. ASSUME NEW c \in Bridges,
             \/ Register(c) \/ Serve(c) \/ Deregister(c)
             \/ \E t \in Statuses : BeginStatus(c, t) \/ ReadStatus(c, t) \/ WriteStatus(c, t)
      PROVE  sender' = sender /\ \A b \in Bridges : Running(b)' => Running(b)
      BY <1>0, <1>5 DEF Register, Serve, Deregister, PutFile, BeginStatus, ReadStatus,
         WriteStatus, Running, ThreadType
<1>6. UNCHANGED vars => sender' = sender /\ \A b \in Bridges : Running(b)' => Running(b)
      BY DEF vars, Running
<1> QED BY <1>1, <1>2, <1>3, <1>4, <1>5, <1>6 DEF Next, Searching

\* registry.list_peers, resolve, token_for and the connection: a sender that
\* asks for a bridge by its name or ref, while the bridge serves all along,
\* reaches it with its token, whatever accounts fail, whatever turns' threads
\* rewrite meanwhile and however many bridges of its name have ended before,
\* as long as one account can always be written, no earlier owner of the pid
\* has left files the bridge could not replace, and no other bridge of that
\* name or ref runs while the sender lists.
THEOREM LivePeerIsReached ==
    ASSUME SoundAccount
    PROVE  Spec => []LivePeerReached
<1>1. Init => SenderInv /\ WasInv /\ SearchInv /\ MetInv
  <2> SUFFICES ASSUME Init PROVE SenderInv /\ WasInv /\ SearchInv /\ MetInv
      OBVIOUS
  <2>1. Accounts \in Nat \ {0} /\ 1 \in Dirs
        BY RegistryAssumption DEF Dirs
  <2>2. IsSender(NotSending)
        BY <2>1 DEF IsSender, NotSending, Fields, SenderStates
  <2>3. SearchType(NotSending) /\ NotSending.steady = {} /\ Met(NotSending)
        BY DEF SearchType, NotSending, Met
  <2> QED BY <2>2, <2>3 DEF Init, SenderInv, WasInv, SearchInv, MetInv
<1>2. SearchInv => LivePeerReached
  <2> SUFFICES ASSUME SearchInv, NEW x \in Senders, sender[x].step \in Outcome,
                      NEW b \in sender[x].steady,
                      Wanted[x] \in {Name[b], Ref[b]}, ~Masked(b), ~Rivalled(b, x)
               PROVE  sender[x].step = "sent" /\ sender[x].token = b
      BY DEF LivePeerReached
  <2>1. WantsOnly(x, sender[x], b)
        BY DEF Rivalled, WantsOnly
  <2> QED BY <2>1 DEF SearchInv, Follows
<1>3. SenderInv /\ [][Next]_vars => []SenderInv
      BY SenderStepGood, PTL
<1>4. WasInv /\ []RegistryInv /\ [][Next]_vars => []WasInv
      BY WasInvStep, PTL
<1>5. SearchInv /\ MetInv /\ []RegistryInv /\ []WasInv /\ []SenderInv /\ [][Next]_vars
          => []SearchInv
      BY SearchInvStep, MetInvStep, PTL
<1> QED BY <1>1, <1>2, <1>3, <1>4, <1>5, RegistryInvAlways, PTL DEF Spec
=============================================================================
