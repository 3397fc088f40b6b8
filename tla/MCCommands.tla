---------------------------- MODULE MCCommands ----------------------------
(***************************************************************************)
(* The commands for TLC: doctor, install, list, read and spawn.  They      *)
(* share no state in these models, so a behaviour is one command's, chosen *)
(* at the start, and the others do not move.                               *)
(***************************************************************************)
EXTENDS SelfTest, Install, Meter, Replies, Spawn, TLC

CONSTANTS oldInstall, newInstall, oldPython, newPython, foreign,
          shortAnswer, longAnswer, otherAnswer, first, second, stranger

\* Two installs of cxpeer, one after the other, in two interpreters.
MCRunBy == oldInstall :> oldPython @@ newInstall :> newPython

\* An answer that is not cut and two that are, all of one short id.
MCChars == shortAnswer :> 2 @@ longAnswer :> 3 @@ otherAnswer :> 4
MCShortId == shortAnswer :> 1 @@ longAnswer :> 1 @@ otherAnswer :> 1

\* Two spawns of one tmux name, the first next to somebody else's session.
MCDir == first :> 1 @@ second :> 2 @@ stranger :> 1
MCTmuxName == first :> 1 @@ second :> 1

VARIABLE command

commandVars == <<command, selfTestVars, installVars, meterVars,
                 repliesVars, spawnVars>>

Doctor(A) == /\ command = "doctor" /\ A
             /\ UNCHANGED <<command, installVars, meterVars,
                            repliesVars, spawnVars>>
Spawning(A) == /\ command = "spawn" /\ A
               /\ UNCHANGED <<command, selfTestVars, installVars,
                              meterVars, repliesVars>>

CommandsInit ==
    /\ command \in {"doctor", "install", "list", "read", "spawn"}
    /\ SelfTestInit /\ InstallInit /\ MeterInit /\ RepliesInit
    /\ SpawnInit

CommandsNext ==
    \/ Doctor(SelfTestNext)
    \/ /\ command = "install" /\ InstallNext
       /\ UNCHANGED <<command, selfTestVars, meterVars, repliesVars,
                      spawnVars>>
    \/ /\ command = "list" /\ MeterNext
       /\ UNCHANGED <<command, selfTestVars, installVars, repliesVars,
                      spawnVars>>
    \/ /\ command = "read" /\ RepliesNext
       /\ UNCHANGED <<command, selfTestVars, installVars, meterVars,
                      spawnVars>>
    \/ Spawning(SpawnNext)

\* SelfTestFairness and SpawnFairness, where these commands run.
CommandsFairness ==
    /\ WF_commandVars(Doctor(DoctorStep))
    /\ WF_commandVars(Doctor(BridgeStep))
    /\ WF_commandVars(Doctor(FakeCodex))
    /\ \A s \in Spawns : /\ WF_commandVars(Spawning(SpawnStep(s)))
                         /\ WF_commandVars(Spawning(TimedOut(s)))
                         /\ WF_commandVars(Spawning(CodexStep(s)))

\* The variables of every command have the values the program can give them.
CommandsTypeOK ==
    /\ SelfTestTypeOK /\ InstallTypeOK /\ MeterTypeOK
    /\ RepliesTypeOK /\ SpawnTypeOK

CommandsSpec == CommandsInit /\ [][CommandsNext]_commandVars /\ CommandsFairness
=============================================================================
