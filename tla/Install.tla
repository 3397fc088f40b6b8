------------------------------ MODULE Install ------------------------------
(***************************************************************************)
(* `cxpeer install` (install.py): it merges cxpeer's hooks into the        *)
(* hooks.json of a Codex home and copies the skill, while others edit that *)
(* file, interpreters come and go, and an install may die between any two  *)
(* calls; and what `cxpeer doctor` says of the result (doctor.check_hooks, *)
(* doctor.check_skill).                                                    *)
(*                                                                         *)
(* hooks.json has a list of groups of entries for every event.  How the    *)
(* entries are grouped changes nothing that is looked at, so an event has  *)
(* here the sequence of its entries.  An entry is known to be cxpeer's by  *)
(* the end of its command, `cxpeer hook NAME`; by whom it is run is the    *)
(* rest of it.                                                             *)
(***************************************************************************)
EXTENDS Naturals, Sequences

CONSTANTS
    Installs,     \* processes of `cxpeer install`
    Events,       \* hook events
    Interpreters, \* Python interpreters cxpeer has been installed in
    RunBy,        \* which of them an install runs in
    Others,       \* commands of other tools
    Nobody,       \* no install
    MaxEdits      \* bound: how often others change something

ASSUME InstallAssumption ==
    /\ RunBy \in [Installs -> Interpreters]
    /\ "other" \notin Events
    /\ Nobody \notin Installs
    /\ MaxEdits \in Nat

VARIABLES
    hooksFile,  \* hooks.json: whether it is there, and its entries
    hooksTmp,   \* hooks.json.tmp
    skillFile,  \* whose package's SKILL.md it is
    skillTmp,   \* SKILL.md.tmp
    onDisk,     \* interpreters that exist
    install,    \* where each install is
    merged,     \* its local of that name
    edits,      \* how often others have changed something
    settled     \* history: the install that has succeeded since the last change

installVars == <<hooksFile, hooksTmp, skillFile, skillTmp, onDisk, install,
                 merged, edits, settled>>

Entries == [hook : Events \cup {"other"}, by : Interpreters \cup Others]
Hooks == [Events -> Seq(Entries)]
NoHooks == [e \in Events |-> <<>>]
NoFile == [is |-> "absent", says |-> NoHooks]
Whole(h) == [is |-> "whole", says |-> h]
Torn == [is |-> "torn", says |-> NoHooks]

-----------------------------------------------------------------------------
(* merge_hooks.                                                            *)

\* hook_command.
Ours(e, i) == [hook |-> e, by |-> i]

OurPlaces(s, e) == {n \in DOMAIN s : s[n].hook = e}

\* _find_ours: the first entry that matches.
FindOurs(s, e) ==
    CHOOSE n \in OurPlaces(s, e) : \A k \in OurPlaces(s, e) : n <= k

\* Mutant: the entry is looked for with the new command.
Merge_Exact(s, e, i) ==
    IF \E n \in DOMAIN s : s[n] = Ours(e, i) THEN s ELSE Append(s, Ours(e, i))

\* Mutant: a group of ours is added in front, and replaces the one there.
Merge_Front(s, e, i) ==
    IF OurPlaces(s, e) = {} /\ s # <<>> THEN [s EXCEPT ![1] = Ours(e, i)]
    ELSE IF s = <<>> THEN <<Ours(e, i)>>
    ELSE [s EXCEPT ![FindOurs(s, e)] = Ours(e, i)]

\* One event: our entry is updated in its place, or added at the end.
Merge(s, e, i) ==
    IF OurPlaces(s, e) = {} THEN Append(s, Ours(e, i))
    ELSE [s EXCEPT ![FindOurs(s, e)] = Ours(e, i)]

Merged(h, i) == [e \in Events |-> Merge(h[e], e, i)]

-----------------------------------------------------------------------------
(* run.                                                                    *)

InstallEnded == {"done", "shown", "refused", "crashed"}
Busy(p) == install[p] \notin InstallEnded \cup {"idle"}
Goes(p, from, to) == install[p] = from /\ install' = [install EXCEPT ![p] = to]

InstallInit ==
    /\ hooksFile = NoFile /\ hooksTmp = NoFile
    /\ skillFile = "absent" /\ skillTmp = "absent"
    /\ onDisk = Interpreters
    /\ install = [p \in Installs |-> "idle"]
    /\ merged = [p \in Installs |-> NoHooks]
    /\ edits = 0 /\ settled = Nobody

\* Reading and merging.  Two installs at a time, which would share their
\* temporary file, are left out.
ReadHooks(p) ==
    /\ \A q \in Installs : ~Busy(q)
    /\ RunBy[p] \in onDisk
    /\ IF hooksFile.is \in {"whole", "absent"}
       THEN /\ Goes(p, "idle", "merged")
            /\ merged' = [merged EXCEPT ![p] = Merged(hooksFile.says, RunBy[p])]
       ELSE Goes(p, "idle", "refused") /\ UNCHANGED merged
    /\ UNCHANGED <<hooksFile, hooksTmp, skillFile, skillTmp, onDisk, edits, settled>>

\* --dry-run
Show(p) ==
    /\ Goes(p, "merged", "shown")
    /\ UNCHANGED <<hooksFile, hooksTmp, skillFile, skillTmp, onDisk, merged,
                   edits, settled>>

\* Mutant: hooks.json is written in place.
OpenHooks_InPlace(p) ==
    /\ Goes(p, "merged", "hooks open")
    /\ hooksFile' = Torn
    /\ UNCHANGED <<hooksTmp, skillFile, skillTmp, onDisk, merged, edits, settled>>

\* _write_atomic: the temporary file is emptied, written, and renamed.
OpenHooks(p) ==
    /\ Goes(p, "merged", "hooks open")
    /\ hooksTmp' = Torn
    /\ UNCHANGED <<hooksFile, skillFile, skillTmp, onDisk, merged, edits, settled>>

WriteHooks(p) ==
    /\ Goes(p, "hooks open", "hooks written")
    /\ hooksTmp' = Whole(merged[p])
    /\ UNCHANGED <<hooksFile, skillFile, skillTmp, onDisk, merged, edits, settled>>

ReplaceHooks(p) ==
    /\ Goes(p, "hooks written", "hooks done")
    /\ hooksFile' = hooksTmp /\ hooksTmp' = NoFile
    /\ settled' = Nobody
    /\ UNCHANGED <<skillFile, skillTmp, onDisk, merged, edits>>

OpenSkill(p) ==
    /\ Goes(p, "hooks done", "skill open")
    /\ skillTmp' = "torn"
    /\ UNCHANGED <<hooksFile, hooksTmp, skillFile, onDisk, merged, edits, settled>>

WriteSkill(p) ==
    /\ Goes(p, "skill open", "skill written")
    /\ skillTmp' = RunBy[p]
    /\ UNCHANGED <<hooksFile, hooksTmp, skillFile, onDisk, merged, edits, settled>>

ReplaceSkill(p) ==
    /\ Goes(p, "skill written", "done")
    /\ skillFile' = skillTmp /\ skillTmp' = "absent"
    /\ settled' = p
    /\ UNCHANGED <<hooksFile, hooksTmp, onDisk, merged, edits>>

InstallCrashes(p) ==
    /\ Busy(p) /\ install' = [install EXCEPT ![p] = "crashed"]
    /\ UNCHANGED <<hooksFile, hooksTmp, skillFile, skillTmp, onDisk, merged,
                   edits, settled>>

InstallStep(p) ==
    \/ ReadHooks(p) \/ Show(p) \/ OpenHooks(p) \/ WriteHooks(p) \/ ReplaceHooks(p)
    \/ OpenSkill(p) \/ WriteSkill(p) \/ ReplaceSkill(p) \/ InstallCrashes(p)

-----------------------------------------------------------------------------
(* What others do, between installs.                                       *)

Change ==
    /\ edits < MaxEdits /\ edits' = edits + 1
    /\ \A p \in Installs : ~Busy(p)
    /\ settled' = Nobody
    /\ UNCHANGED <<hooksTmp, skillFile, skillTmp, install, merged>>

\* Somebody adds an entry, which may be a copy of one of cxpeer's, takes one
\* out, or leaves something that is not JSON.
AddEntry(e, x) ==
    /\ Change /\ hooksFile.is # "broken"
    /\ hooksFile' = Whole([hooksFile.says EXCEPT ![e] = Append(@, x)])
    /\ UNCHANGED onDisk
DropEntry(e) ==
    /\ Change /\ hooksFile.says[e] # <<>>
    /\ hooksFile' = Whole([hooksFile.says EXCEPT ![e] = Tail(@)])
    /\ UNCHANGED onDisk
BreakFile ==
    /\ Change /\ hooksFile' = [is |-> "broken", says |-> NoHooks]
    /\ UNCHANGED onDisk
RemoveInterpreter(i) ==
    /\ Change /\ i \in onDisk /\ onDisk' = onDisk \ {i}
    /\ UNCHANGED hooksFile

OthersStep ==
    \/ \E e \in Events : DropEntry(e) \/ \E x \in Entries : AddEntry(e, x)
    \/ BreakFile
    \/ \E i \in Interpreters : RemoveInterpreter(i)

InstallNext == OthersStep \/ \E p \in Installs : InstallStep(p)
InstallSpec == InstallInit /\ [][InstallNext]_installVars

-----------------------------------------------------------------------------
(* What doctor says.                                                       *)

\* _hook_command: the first entry that matches, and whether its interpreter
\* is on disk.
HookIsGood(s, e) ==
    OurPlaces(s, e) # {} /\ s[FindOurs(s, e)].by \in onDisk \cup Others

CheckHooks ==
    IF hooksFile.is = "whole" /\ \A e \in Events : HookIsGood(hooksFile.says[e], e)
    THEN "ok" ELSE "FAIL"

\* The installed skill is compared with that of the package doctor runs in.
CheckSkill(i) == IF skillFile = i THEN "ok" ELSE "warn"

-----------------------------------------------------------------------------
Files == [is : {"absent", "whole", "torn", "broken"}, says : Hooks]

\* Every variable holds a value the program can give it.
InstallTypeOK ==
    /\ hooksFile \in Files /\ hooksTmp \in Files
    /\ skillFile \in Interpreters \cup {"absent"}
    /\ skillTmp \in Interpreters \cup {"absent", "torn"}
    /\ onDisk \subseteq Interpreters
    /\ install \in [Installs -> InstallEnded \cup {"idle", "merged", "hooks open",
           "hooks written", "hooks done", "skill open", "skill written"}]
    /\ merged \in [Installs -> Hooks]
    /\ edits \in 0..MaxEdits
    /\ settled \in Installs \cup {Nobody}

\* Codex never finds half a hooks.json, wherever an install dies.
HooksFileWhole == hooksFile.is # "torn"

\* The entries of others, and their places in the order in which Codex runs
\* them, survive: merge_hooks says "Other entries are untouched."
Keeps(old, new) ==
    \A e \in Events :
        /\ \A n \in DOMAIN old[e] :
              n \in DOMAIN new[e] /\ (old[e][n].hook = e \/ new[e][n] = old[e][n])
        /\ \A n \in DOMAIN new[e] :
              n \in DOMAIN old[e] \/ new[e][n].hook = e
OthersUntouched ==
    [][edits' = edits => Keeps(hooksFile.says, hooksFile'.says)]_installVars

\* doctor's advice "run cxpeer install" helps: after an install that succeeds
\* doctor has nothing to say of hooks or skill, whatever was there before, and
\* a second one would change nothing.
AdviceHelps ==
    settled # Nobody =>
        /\ CheckHooks = "ok"
        /\ CheckSkill(RunBy[settled]) = "ok"
        /\ Merged(hooksFile.says, RunBy[settled]) = hooksFile.says
=============================================================================
