------------------------------- MODULE Spawn -------------------------------
(***************************************************************************)
(* `cxpeer spawn --wait codex` (spawn.py): it starts Codex in a detached   *)
(* tmux session, answers the dialogs Codex begins with by typing into that *)
(* session, makes sure that a first prompt is submitted, and reports the   *)
(* bridge that appears.                                                    *)
(*                                                                         *)
(* All it knows of Codex is the screen, which shows what Codex did some    *)
(* time ago, and all it knows of the bridge is the directory of state      *)
(* files, in which it looks for the newest of its working directory.       *)
(* Several spawns run at a time, next to Codex sessions that others have   *)
(* started.  Nobody else types into the sessions.                          *)
(***************************************************************************)
EXTENDS Naturals, Sequences

CONSTANTS
    Spawns,     \* processes of `cxpeer spawn`, each with the session it starts
    Strangers,  \* Codex sessions somebody else has started
    Dir,        \* the working directory of each
    TmuxName,   \* the tmux session name of each spawn
    Prompted,   \* spawns with --prompt
    NoSession,  \* no Codex session
    MaxNow      \* bound: how late it gets

Sessions == Spawns \cup Strangers
Dialogs == {"update", "trust", "hooks"}

\* Milliseconds of the clock are counted in steps of half a second.
SecondOf(t) == 2 * (t \div 2)

ASSUME SpawnAssumption ==
    /\ Spawns \cap Strangers = {} /\ NoSession \notin Sessions
    /\ Prompted \subseteq Spawns
    /\ MaxNow \in Nat \ {0}

VARIABLES
    spawn,     \* where each spawn is
    start,     \* its start_ms
    answered,  \* its set of that name
    reported,  \* the session whose bridge it has reported
    patient,   \* whether its deadline lies beyond all that happens
    codex,     \* external: what each spawned Codex shows
    todo,      \* external: the dialogs it will still show
    past,      \* external: the dialogs whose text may still be on the screen
    keys,      \* external: what has been typed and not yet been read
    box,       \* external: whether the input box holds the prompt
    files,     \* sessions that have a state file
    started,   \* `started` in it, or in the last one there was
    now,       \* the clock
    stray      \* history: keys were read by what they were not meant for

theSpawn == <<spawn, start, answered, reported, patient>>
theCodex == <<codex, todo, past, keys, box, stray>>
spawnVars == <<theSpawn, theCodex, files, started, now>>

SpawnInit ==
    /\ spawn = [s \in Spawns |-> "idle"]
    /\ start = [s \in Spawns |-> 0]
    /\ answered = [s \in Spawns |-> {}]
    /\ reported = [s \in Spawns |-> NoSession]
    /\ patient = [s \in Spawns |-> FALSE]
    /\ codex = [s \in Spawns |-> "none"]
    /\ todo = [s \in Spawns |-> {}]
    /\ past = [s \in Spawns |-> {}]
    /\ keys = [s \in Spawns |-> <<>>]
    /\ box = [s \in Spawns |-> "empty"]
    /\ files = {} /\ started = [r \in Sessions |-> 0]
    /\ now = 1
    /\ stray = {}

SpawnAt(s, from, to) == spawn[s] = from /\ spawn' = [spawn EXCEPT ![s] = to]
Type(s, k) == keys' = [keys EXCEPT ![s] = Append(@, k)]

-----------------------------------------------------------------------------
(* spawn.run.                                                              *)

NameTaken(s) == \E r \in Spawns : TmuxName[r] = TmuxName[s] /\ codex[r] # "none"

\* start_ms, and tmux has-session.
HasSession(s) ==
    /\ IF NameTaken(s) THEN SpawnAt(s, "idle", "refused")
                       ELSE SpawnAt(s, "idle", "starting")
    /\ start' = [start EXCEPT ![s] = SecondOf(now)]
    /\ UNCHANGED <<answered, reported, patient, theCodex, files, started, now>>

\* tmux new-session, which fails if the name has been taken since.
NewSession(s) ==
    /\ IF NameTaken(s)
       THEN SpawnAt(s, "starting", "refused") /\ UNCHANGED <<codex, todo, patient>>
       ELSE /\ SpawnAt(s, "starting", "dialogs")
            /\ codex' = [codex EXCEPT ![s] = "loading"]
            /\ \E ds \in SUBSET Dialogs : todo' = [todo EXCEPT ![s] = ds]
            /\ \E b \in BOOLEAN : patient' = [patient EXCEPT ![s] = b]
    /\ UNCHANGED <<start, answered, reported, past, keys, box, stray, files,
                   started, now>>

\* What a capture of the pane may show.
Screens(s) == {old \cup ({codex[s]} \cap Dialogs) : old \in SUBSET past[s]}
InputBoxShown(s) == codex[s] \in {"input", "working"}

\* The first dialog of PROMPTS that is on the screen and unanswered.
ToAnswer(screen, done) ==
    IF "update" \in screen \ done THEN {"update"}
    ELSE IF "trust" \in screen \ done THEN {"trust"}
    ELSE screen \ done

\* Mutant: the dialogs that have been answered are not remembered.
AnswerDialog_Again(s) ==
    /\ spawn[s] = "dialogs" /\ ~InputBoxShown(s) /\ Len(keys[s]) < 3
    /\ \E screen \in Screens(s) : \E d \in ToAnswer(screen, {}) : Type(s, d)
    /\ UNCHANGED <<theSpawn, codex, todo, past, box, stray, files, started, now>>

\* One round of the first loop of _wait_codex.
AnswerDialog(s) ==
    /\ spawn[s] = "dialogs" /\ ~InputBoxShown(s)
    /\ \E screen \in Screens(s) : \E d \in ToAnswer(screen, answered[s]) :
          /\ Type(s, d)
          /\ answered' = [answered EXCEPT ![s] = @ \cup {d}]
    /\ UNCHANGED <<spawn, start, reported, patient, codex, todo, past, box,
                   stray, files, started, now>>

\* The input box: a first prompt is typed if none was given.
SeeInputBox(s) ==
    /\ InputBoxShown(s)
    /\ IF s \in Prompted
       THEN SpawnAt(s, "dialogs", "looking") /\ UNCHANGED keys
       ELSE SpawnAt(s, "dialogs", "typed") /\ Type(s, "READY")
    /\ UNCHANGED <<start, answered, reported, patient, codex, todo, past, box,
                   stray, files, started, now>>

\* Mutant: Enter is pressed once.
PressEnter_Not(s) ==
    /\ SpawnAt(s, "typed", "looking")
    /\ UNCHANGED <<start, answered, reported, patient, theCodex, files, started, now>>

\* Two seconds later: Enter once more.
PressEnter(s) ==
    /\ SpawnAt(s, "typed", "looking")
    /\ Type(s, "Enter")
    /\ UNCHANGED <<start, answered, reported, patient, codex, todo, past, box,
                   stray, files, started, now>>

\* Mutant: a bridge of the second in which the spawn began does not count.
Candidates_Later(s) == {r \in files : Dir[r] = Dir[s] /\ started[r] > start[s]}

\* _find_bridge: bridges of this directory, not older than the spawn.
Candidates(s) == {r \in files : Dir[r] = Dir[s] /\ started[r] >= start[s]}

FindBridge(s) ==
    /\ SpawnAt(s, "looking", "reported")
    /\ \E r \in Candidates(s) :
          /\ \A q \in Candidates(s) : started[q] <= started[r]
          /\ reported' = [reported EXCEPT ![s] = r]
    /\ UNCHANGED <<start, answered, patient, theCodex, files, started, now>>

TimedOut(s) ==
    /\ ~patient[s]
    /\ SpawnAt(s, "dialogs", "timed out") \/ SpawnAt(s, "looking", "timed out")
    /\ UNCHANGED <<start, answered, reported, patient, theCodex, files, started, now>>

-----------------------------------------------------------------------------
(* Codex (external): it shows its dialogs in any order and reads what is   *)
(* typed while one of them, or its input box, is up.                       *)

ShowNext(s) ==
    /\ codex[s] = "loading"
    /\ \/ \E d \in todo[s] : /\ codex' = [codex EXCEPT ![s] = d]
                             /\ todo' = [todo EXCEPT ![s] = @ \ {d}]
       \/ /\ todo[s] = {} /\ UNCHANGED todo
          /\ codex' = [codex EXCEPT ![s] = IF s \in Prompted THEN "working"
                                           ELSE "input"]
    /\ UNCHANGED <<theSpawn, past, keys, box, stray, files, started, now>>

\* The Enter that comes with a text may be taken for a part of it.
ReadKey(s) ==
    /\ codex[s] \notin {"none", "loading"} /\ keys[s] # <<>>
    /\ keys' = [keys EXCEPT ![s] = Tail(@)]
    /\ LET k == Head(keys[s])
       IN \/ /\ codex[s] \in Dialogs
             /\ codex' = [codex EXCEPT ![s] = "loading"]
             /\ past' = [past EXCEPT ![s] = @ \cup {codex[s]}]
             /\ stray' = IF k = codex[s] THEN stray ELSE stray \cup {s}
             /\ UNCHANGED box
          \/ /\ codex[s] \in {"input", "working"} /\ k \in Dialogs
             /\ stray' = stray \cup {s}
             /\ UNCHANGED <<codex, past, box>>
          \/ /\ codex[s] = "input" /\ k = "READY"
             /\ \/ codex' = [codex EXCEPT ![s] = "working"] /\ UNCHANGED box
                \/ box' = [box EXCEPT ![s] = "READY"] /\ UNCHANGED codex
             /\ UNCHANGED <<past, stray>>
          \/ /\ codex[s] = "input" /\ k = "Enter" /\ box[s] = "READY"
             /\ codex' = [codex EXCEPT ![s] = "working"]
             /\ box' = [box EXCEPT ![s] = "empty"]
             /\ UNCHANGED <<past, stray>>
          \/ /\ codex[s] = "working" /\ k = "Enter"
             /\ UNCHANGED <<codex, past, box, stray>>
    /\ UNCHANGED <<theSpawn, todo, files, started, now>>

\* The first prompt makes the thread, whose SessionStart hook starts a bridge.
BridgeUp(s) ==
    /\ codex[s] = "working" /\ s \notin files
    /\ files' = files \cup {s}
    /\ started' = [started EXCEPT ![s] = now]
    /\ UNCHANGED <<theSpawn, theCodex, now>>

\* Bridges of other sessions start, and end or die.
StrangerUp(r) ==
    /\ files' = files \cup {r}
    /\ started' = [started EXCEPT ![r] = now]
    /\ UNCHANGED <<theSpawn, theCodex, now>>
StrangerGone(r) ==
    /\ r \in files /\ files' = files \ {r}
    /\ UNCHANGED <<theSpawn, theCodex, started, now>>

Tick ==
    /\ now < MaxNow /\ now' = now + 1
    /\ UNCHANGED <<theSpawn, theCodex, files, started>>

-----------------------------------------------------------------------------
SpawnStep(s) ==
    \/ HasSession(s) \/ NewSession(s) \/ AnswerDialog(s) \/ SeeInputBox(s)
    \/ PressEnter(s) \/ FindBridge(s)
CodexStep(s) == ShowNext(s) \/ ReadKey(s) \/ BridgeUp(s)
SpawnNext ==
    \/ \E s \in Spawns : SpawnStep(s) \/ TimedOut(s) \/ CodexStep(s)
    \/ \E r \in Strangers : StrangerUp(r) \/ StrangerGone(r)
    \/ Tick

SpawnSpec == SpawnInit /\ [][SpawnNext]_spawnVars

(* Fairness: a spawn goes round its loops, deadlines pass, Codex starts up *)
(* and reads what is typed.  No dialog has to appear.                      *)
SpawnFairness ==
    \A s \in Spawns : /\ WF_spawnVars(SpawnStep(s))
                      /\ WF_spawnVars(TimedOut(s))
                      /\ WF_spawnVars(CodexStep(s))

-----------------------------------------------------------------------------
Keys == Dialogs \cup {"READY", "Enter"}
SpawnEnded == {"refused", "reported", "timed out"}

\* Every variable holds a value the program can give it.
SpawnTypeOK ==
    /\ spawn \in [Spawns -> SpawnEnded \cup {"idle", "starting", "dialogs",
                                             "typed", "looking"}]
    /\ start \in [Spawns -> 0..MaxNow]
    /\ answered \in [Spawns -> SUBSET Dialogs]
    /\ reported \in [Spawns -> Sessions \cup {NoSession}]
    /\ patient \in [Spawns -> BOOLEAN]
    /\ codex \in [Spawns -> Dialogs \cup {"none", "loading", "input", "working"}]
    /\ todo \in [Spawns -> SUBSET Dialogs] /\ past \in [Spawns -> SUBSET Dialogs]
    /\ keys \in [Spawns -> Seq(Keys)]
    /\ box \in [Spawns -> {"empty", "READY"}]
    /\ files \subseteq Sessions /\ started \in [Sessions -> 0..MaxNow]
    /\ now \in 0..MaxNow
    /\ stray \subseteq Spawns

\* However slowly Codex reads, each dialog gets its own answer, once, and the
\* input box gets none: no "2" is submitted to Codex as a prompt.
NoStrayKeys == stray = {}

\* A spawn that waits waits for something that is still to come: a dialog that
\* is up has its answer coming or is still to be answered; the first prompt is
\* submitted, or on its way to be; the bridge is still to come, or can be found.
WaitsForWhatComes ==
    \A s \in Spawns :
        /\ spawn[s] = "dialogs" /\ codex[s] \in Dialogs =>
               keys[s] = <<codex[s]>> \/ codex[s] \notin answered[s]
        /\ spawn[s] = "looking" /\ codex[s] # "working" =>
               /\ codex[s] = "input"
               /\ \/ keys[s] = <<"READY", "Enter">> /\ box[s] = "empty"
                  \/ keys[s] = <<"Enter">> /\ box[s] = "READY"
        /\ spawn[s] = "looking" /\ s \in files => s \in Candidates(s)

\* spawn ends, and if its deadline does not pass it ends with a report,
\* whatever dialogs Codex shows in whatever order and however it takes Enter.
SpawnReports ==
    \A s \in Spawns :
        spawn[s] = "dialogs" ~>
            spawn[s] = "reported" \/ (spawn[s] = "timed out" /\ ~patient[s])
=============================================================================
