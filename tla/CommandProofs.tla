---------------------------- MODULE CommandProofs ----------------------------
(***************************************************************************)
(* What the commands do to files others use at the same time: `cxpeer      *)
(* install` to hooks.json (Install), the context meter that reads a        *)
(* transcript (Meter), and the stored answers (Replies).  At the end, with *)
(* the theorems about doctor and spawn, what holds of all commands in the  *)
(* specification that joins them (MCCommands).                             *)
(***************************************************************************)
EXTENDS MCCommands, DoctorProofs, SpawnProofs, NaturalsInduction,
        WellFoundedInduction, TLAPS

-----------------------------------------------------------------------------
(* The merge of one event's entries.                                       *)

\* The entry that is found is cxpeer's, and is run by i.
EntryIs(s, e, i) == OurPlaces(s, e) # {} /\ s[FindOurs(s, e)] = Ours(e, i)

\* _find_ours finds an entry of ours if there is one: the least of a set of
\* positions exists.
LEMMA FoundIsOurs ==
    ASSUME NEW s \in Seq(Entries), NEW e \in Events, OurPlaces(s, e) # {}
    PROVE  FindOurs(s, e) \in OurPlaces(s, e)
<1>1. OurPlaces(s, e) \subseteq Nat
      BY DEF OurPlaces
<1>2. PICK l \in OurPlaces(s, e) : \A k \in OurPlaces(s, e) : <<k, l>> \notin OpToRel(<, Nat)
      BY <1>1, WFMin, NatLessThanWellFounded, Zenon
<1>3. l \in Nat /\ \A k \in OurPlaces(s, e) : k \in Nat /\ ~(k < l)
      BY <1>1, <1>2, Zenon DEF OpToRel
<1>4. \A k \in OurPlaces(s, e) : l <= k
      BY <1>3
<1> QED BY <1>2, <1>4 DEF FindOurs

\* After the merge the entry that is found is the new one; all others are where
\* they were.
LEMMA MergeFound ==
    ASSUME NEW s \in Seq(Entries), NEW e \in Events, NEW i \in Interpreters
    PROVE  /\ Merge(s, e, i) \in Seq(Entries)
           /\ EntryIs(Merge(s, e, i), e, i)
           /\ \A n \in DOMAIN s :
                 /\ n \in DOMAIN Merge(s, e, i)
                 /\ s[n].hook = e \/ Merge(s, e, i)[n] = s[n]
           /\ \A n \in DOMAIN Merge(s, e, i) :
                 n \in DOMAIN s \/ Merge(s, e, i)[n].hook = e
<1> DEFINE t == Merge(s, e, i)
           x == Ours(e, i)
<1>1. x \in Entries /\ x.hook = e
      BY DEF Ours, Entries
<1>2. CASE OurPlaces(s, e) = {}
  <2>1. t = Append(s, x)
        BY <1>2 DEF Merge
  <2>2. /\ t \in Seq(Entries) /\ DOMAIN t = 1..(Len(s) + 1)
        /\ t[Len(s) + 1] = x /\ \A n \in DOMAIN s : t[n] = s[n]
        BY <1>1, <2>1
  <2>3. OurPlaces(t, e) = {Len(s) + 1}
        BY <1>1, <1>2, <2>2 DEF OurPlaces
  <2>4. FindOurs(t, e) = Len(s) + 1
        BY <2>2, <2>3, FoundIsOurs
  <2> QED BY <1>1, <2>2, <2>3, <2>4 DEF EntryIs
<1>3. CASE OurPlaces(s, e) # {}
  <2> DEFINE k == FindOurs(s, e)
  <2>1. k \in DOMAIN s /\ s[k].hook = e /\ k \in OurPlaces(s, e)
        BY <1>3, FoundIsOurs DEF OurPlaces
  <2>2. t = [s EXCEPT ![k] = x]
        BY <1>3 DEF Merge
  <2> HIDE DEF k
  <2>3. /\ t \in Seq(Entries) /\ DOMAIN t = DOMAIN s
        /\ t[k] = x /\ \A n \in DOMAIN s : n # k => t[n] = s[n]
        BY <1>1, <2>1, <2>2
  <2>4. OurPlaces(t, e) = OurPlaces(s, e)
        BY <1>1, <2>1, <2>3 DEF OurPlaces
  <2>5. FindOurs(t, e) = k
        BY <2>4 DEF FindOurs, k
  <2> QED BY <1>1, <2>1, <2>3, <2>4, <2>5 DEF EntryIs
<1> QED BY <1>2, <1>3

\* A second merge changes nothing.
LEMMA MergeAgain ==
    ASSUME NEW s \in Seq(Entries), NEW e \in Events, NEW i \in Interpreters,
           EntryIs(s, e, i)
    PROVE  Merge(s, e, i) = s
<1>1. FindOurs(s, e) \in DOMAIN s
      BY FoundIsOurs DEF EntryIs, OurPlaces
<1> QED BY <1>1 DEF EntryIs, Merge

\* The merge of a whole file.
LEMMA MergedFound ==
    ASSUME NEW h \in Hooks, NEW i \in Interpreters
    PROVE  /\ Merged(h, i) \in Hooks
           /\ \A e \in Events : EntryIs(Merged(h, i)[e], e, i)
           /\ Keeps(h, Merged(h, i))
<1>1. \A e \in Events : h[e] \in Seq(Entries) /\ Merged(h, i)[e] = Merge(h[e], e, i)
      BY DEF Hooks, Merged
<1>2. Merged(h, i) \in Hooks
      BY <1>1, MergeFound DEF Hooks, Merged
<1>3. \A e \in Events : EntryIs(Merged(h, i)[e], e, i)
      BY <1>1, MergeFound
<1>4. Keeps(h, Merged(h, i))
      BY <1>1, MergeFound DEF Keeps
<1> QED BY <1>2, <1>3, <1>4

LEMMA MergedAgain ==
    ASSUME NEW h \in Hooks, NEW i \in Interpreters,
           \A e \in Events : EntryIs(h[e], e, i)
    PROVE  Merged(h, i) = h
<1>1. \A e \in Events : h[e] \in Seq(Entries) /\ Merge(h[e], e, i) = h[e]
      BY MergeAgain DEF Hooks
<1> QED BY <1>1 DEF Merged, Hooks

-----------------------------------------------------------------------------
(* The invariant.                                                          *)

\* One install at a time, by an interpreter that is there.
AloneInv ==
    /\ \A p, q \in Installs : Busy(p) /\ Busy(q) => p = q
    /\ \A p \in Installs : Busy(p) => RunBy[p] \in onDisk

FileIs(i) == hooksFile.is = "whole" /\ \A e \in Events : EntryIs(hooksFile.says[e], e, i)

\* What an install has merged is still what belongs into the file, and
\* what it has written is what it has merged.
StageInv ==
    \A p \in Installs :
        /\ install[p] \in {"merged", "hooks open", "hooks written"} =>
              merged[p] = Merged(hooksFile.says, RunBy[p])
        /\ install[p] = "hooks written" => hooksTmp = Whole(merged[p])
        /\ install[p] \in {"hooks done", "skill open", "skill written"} => FileIs(RunBy[p])
        /\ install[p] = "skill written" => skillTmp = RunBy[p]

SettledInv ==
    settled # Nobody =>
        FileIs(RunBy[settled]) /\ skillFile = RunBy[settled] /\ RunBy[settled] \in onDisk

InstallInv == InstallTypeOK /\ AloneInv /\ StageInv /\ SettledInv /\ HooksFileWhole

LEMMA InstallInitGood == InstallInit => InstallInv
<1> SUFFICES ASSUME InstallInit PROVE InstallInv
    OBVIOUS
<1>1. NoHooks \in Hooks
      BY DEF NoHooks, Hooks
<1>2. InstallTypeOK
      BY <1>1, InstallAssumption DEF InstallInit, InstallTypeOK, Files, NoFile
<1>3. AloneInv /\ StageInv /\ SettledInv /\ HooksFileWhole
      BY DEF InstallInit, AloneInv, StageInv, SettledInv, HooksFileWhole, Busy, NoFile
<1> QED BY <1>2, <1>3 DEF InstallInv

LEMMA SaysHooks == InstallTypeOK => hooksFile.says \in Hooks
<1> SUFFICES ASSUME InstallTypeOK PROVE hooksFile.says \in Hooks
    OBVIOUS
<1>1. hooksFile \in Files
      BY DEF InstallTypeOK
<1> QED BY <1>1 DEF Files

LEMMA CountType == InstallTypeOK => edits \in Nat /\ (Change => edits' \in 0..MaxEdits)
<1> SUFFICES ASSUME InstallTypeOK
             PROVE  edits \in Nat /\ (Change => edits' \in 0..MaxEdits)
    OBVIOUS
<1>1. edits \in 0..MaxEdits
      BY DEF InstallTypeOK
<1>2. MaxEdits \in Nat
      BY InstallAssumption
<1> QED BY <1>1, <1>2 DEF Change

LEMMA HooksChanged ==
    ASSUME NEW h \in Hooks, NEW e \in Events
    PROVE  /\ h[e] # <<>> => [h EXCEPT ![e] = Tail(@)] \in Hooks
           /\ \A x \in Entries : [h EXCEPT ![e] = Append(@, x)] \in Hooks
<1>1. h[e] \in Seq(Entries)
      BY DEF Hooks
<1>2. h[e] # <<>> => Tail(h[e]) \in Seq(Entries)
      BY <1>1
<1>3. \A x \in Entries : Append(h[e], x) \in Seq(Entries)
      BY <1>1
<1> QED BY <1>2, <1>3 DEF Hooks

\* The types are kept by every step.
LEMMA InstallTypeStep == InstallInv /\ [InstallNext]_installVars => InstallTypeOK'
<1> SUFFICES ASSUME InstallInv, [InstallNext]_installVars PROVE InstallTypeOK'
    OBVIOUS
<1>0. NoHooks \in Hooks
      BY DEF NoHooks, Hooks
<1>1. InstallTypeOK
      BY DEF InstallInv
<1> USE <1>0, <1>1, InstallAssumption DEF InstallTypeOK, Goes, Files, InstallEnded
<1>2. ASSUME NEW p \in Installs, ReadHooks(p) PROVE InstallTypeOK'
  <2>1. Merged(hooksFile.says, RunBy[p]) \in Hooks
        BY MergedFound
  <2> QED BY <1>2, <2>1 DEF ReadHooks
<1>3. ASSUME NEW p \in Installs, Show(p) \/ InstallCrashes(p) PROVE InstallTypeOK'
      BY <1>3 DEF Show, InstallCrashes
<1>4. ASSUME NEW p \in Installs, OpenHooks(p) PROVE InstallTypeOK'
      BY <1>4 DEF OpenHooks, Torn
<1>5. ASSUME NEW p \in Installs, WriteHooks(p) PROVE InstallTypeOK'
  <2>1. merged[p] \in Hooks
        OBVIOUS
  <2>2. Whole(merged[p]) \in Files
        BY <2>1 DEF Whole
  <2> QED BY <1>5, <2>2 DEF WriteHooks
<1>6. ASSUME NEW p \in Installs, ReplaceHooks(p) PROVE InstallTypeOK'
      BY <1>6 DEF ReplaceHooks, NoFile
<1>7. ASSUME NEW p \in Installs, OpenSkill(p) PROVE InstallTypeOK'
      BY <1>7 DEF OpenSkill
<1>8. ASSUME NEW p \in Installs, WriteSkill(p) PROVE InstallTypeOK'
      BY <1>8 DEF WriteSkill
<1>9. ASSUME NEW p \in Installs, ReplaceSkill(p) PROVE InstallTypeOK'
  <2>1. install[p] = "skill written"
        BY <1>9 DEF ReplaceSkill
  <2>2. skillTmp = RunBy[p] /\ RunBy[p] \in Interpreters
        BY <2>1 DEF InstallInv, StageInv
  <2> QED BY <1>9, <2>2 DEF ReplaceSkill
<1>10. ASSUME Change, hooksFile' \in Files, onDisk' \subseteq onDisk
       PROVE  InstallTypeOK'
  <2>1. edits' \in 0..MaxEdits
        BY <1>10, CountType
  <2>2. settled' = Nobody /\ UNCHANGED <<hooksTmp, skillFile, skillTmp, install, merged>>
        BY <1>10 DEF Change
  <2> QED BY <1>10, <2>1, <2>2
<1>11. ASSUME NEW e \in Events, DropEntry(e) PROVE InstallTypeOK'
  <2>1. [hooksFile.says EXCEPT ![e] = Tail(@)] \in Hooks
        BY <1>11, SaysHooks, HooksChanged DEF DropEntry
  <2> QED BY <1>10, <1>11, <2>1 DEF DropEntry, Whole
<1>12. ASSUME NEW e \in Events, NEW x \in Entries, AddEntry(e, x) PROVE InstallTypeOK'
  <2>1. [hooksFile.says EXCEPT ![e] = Append(@, x)] \in Hooks
        BY <1>12, SaysHooks, HooksChanged
  <2> QED BY <1>10, <1>12, <2>1 DEF AddEntry, Whole
<1>13. ASSUME BreakFile \/ \E i \in Interpreters : RemoveInterpreter(i)
       PROVE  InstallTypeOK'
  <2>1. hooksFile \in Files /\ [is |-> "broken", says |-> NoHooks] \in Files
        BY <1>0, <1>1
  <2> QED BY <1>10, <1>13, <2>1 DEF BreakFile, RemoveInterpreter
<1>14. CASE UNCHANGED installVars
      BY <1>14 DEF installVars
<1> QED BY <1>2, <1>3, <1>4, <1>5, <1>6, <1>7, <1>8, <1>9, <1>10, <1>11, <1>12,
        <1>13, <1>14 DEF InstallNext, InstallStep, OthersStep

\* A change by others finds no install at work: nothing is in between.
LEMMA ChangeGood ==
    ASSUME InstallInv, Change, HooksFileWhole', onDisk' \subseteq onDisk
    PROVE  AloneInv' /\ StageInv' /\ SettledInv' /\ HooksFileWhole'
<1>1. \A p \in Installs : ~Busy(p) /\ install'[p] = install[p]
      BY DEF Change
<1>2. \A p \in Installs : ~Busy(p)'
      BY <1>1 DEF Busy, Change
<1>3. AloneInv'
      BY <1>2 DEF AloneInv
<1>4. StageInv'
      BY <1>1 DEF StageInv, Busy, InstallEnded
<1>5. SettledInv'
      BY DEF Change, SettledInv
<1> QED BY <1>3, <1>4, <1>5

\* The stages of an install are reached one after the other, by one at a time.
LEMMA InstallStepGood == InstallInv /\ [InstallNext]_installVars => InstallInv'
<1> SUFFICES ASSUME InstallInv, [InstallNext]_installVars PROVE InstallInv'
    OBVIOUS
<1>1. InstallTypeOK /\ InstallTypeOK'
      BY InstallTypeStep DEF InstallInv
<1> DEFINE Rest == AloneInv /\ StageInv /\ SettledInv /\ HooksFileWhole
<1>2. Rest
      BY DEF InstallInv
<1>3. ASSUME NEW p \in Installs, InstallStep(p) PROVE Rest'
  <2>1. \A q \in Installs : q # p => ~Busy(q) /\ install'[q] = install[q]
        BY <1>1, <1>2, <1>3 DEF InstallStep, ReadHooks, Show, OpenHooks, WriteHooks,
           ReplaceHooks, OpenSkill, WriteSkill, ReplaceSkill, InstallCrashes, Goes,
           AloneInv, Busy, InstallEnded, InstallTypeOK
  <2>2. onDisk' = onDisk /\ RunBy[p] \in onDisk
        BY <1>1, <1>2, <1>3 DEF InstallStep, ReadHooks, Show, OpenHooks, WriteHooks,
           ReplaceHooks, OpenSkill, WriteSkill, ReplaceSkill, InstallCrashes, Goes,
           AloneInv, Busy, InstallEnded, InstallTypeOK
  <2>3. AloneInv'
        BY <2>1, <2>2 DEF AloneInv, Busy
  <2>4. \A q \in Installs : q # p =>
            install'[q] \notin {"merged", "hooks open", "hooks written",
                                "hooks done", "skill open", "skill written"}
        BY <2>1 DEF Busy, InstallEnded
  <2> DEFINE Stage ==
        /\ install[p] \in {"merged", "hooks open", "hooks written"} =>
              merged[p] = Merged(hooksFile.says, RunBy[p])
        /\ install[p] = "hooks written" => hooksTmp = Whole(merged[p])
        /\ install[p] \in {"hooks done", "skill open", "skill written"} => FileIs(RunBy[p])
        /\ install[p] = "skill written" => skillTmp = RunBy[p]
  <2>5. Stage
        BY <1>2 DEF StageInv
  <2>6. Stage' => StageInv'
        BY <2>4 DEF StageInv
  <2> HIDE DEF Stage
  <2>7. ASSUME Stage', SettledInv', HooksFileWhole' PROVE Rest'
        BY <2>3, <2>6, <2>7
  <2> USE <1>1 DEF InstallTypeOK, Goes
  <2>8. CASE ReadHooks(p)
    <3>1. Stage'
          BY <2>8 DEF ReadHooks, Stage
    <3>2. SettledInv' /\ HooksFileWhole'
          BY <1>2, <2>8 DEF ReadHooks, SettledInv, HooksFileWhole, FileIs
    <3> QED BY <2>7, <3>1, <3>2
  <2>9. CASE Show(p) \/ InstallCrashes(p)
    <3>1. Stage'
          BY <2>9 DEF Show, InstallCrashes, Stage
    <3>2. SettledInv' /\ HooksFileWhole'
          BY <1>2, <2>9 DEF Show, InstallCrashes, SettledInv, HooksFileWhole, FileIs
    <3> QED BY <2>7, <3>1, <3>2
  <2>10. CASE OpenHooks(p)
    <3>1. Stage'
          BY <2>5, <2>10 DEF OpenHooks, Stage
    <3>2. SettledInv' /\ HooksFileWhole'
          BY <1>2, <2>10 DEF OpenHooks, SettledInv, HooksFileWhole, FileIs
    <3> QED BY <2>7, <3>1, <3>2
  <2>11. CASE WriteHooks(p)
    <3>1. Stage'
          BY <2>5, <2>11 DEF WriteHooks, Stage
    <3>2. SettledInv' /\ HooksFileWhole'
          BY <1>2, <2>11 DEF WriteHooks, SettledInv, HooksFileWhole, FileIs
    <3> QED BY <2>7, <3>1, <3>2
  <2>12. CASE ReplaceHooks(p)
    <3>1. /\ install[p] = "hooks written" /\ install'[p] = "hooks done"
          /\ hooksFile' = hooksTmp /\ settled' = Nobody
          BY <2>12 DEF ReplaceHooks
    <3>2. hooksFile' = Whole(Merged(hooksFile.says, RunBy[p]))
          BY <2>5, <3>1 DEF Stage
    <3>3. hooksFile.says \in Hooks /\ RunBy[p] \in Interpreters
          BY InstallAssumption DEF Files
    <3>4. /\ hooksFile'.is = "whole"
          /\ \A e \in Events : EntryIs(hooksFile'.says[e], e, RunBy[p])
          BY <3>2, <3>3, MergedFound DEF Whole
    <3>5. FileIs(RunBy[p])'
          BY <3>4 DEF FileIs, EntryIs, OurPlaces, FindOurs, Ours
    <3>6. Stage'
          BY <3>1, <3>5 DEF Stage
    <3>7. SettledInv' /\ HooksFileWhole'
          BY <3>1, <3>4 DEF SettledInv, HooksFileWhole
    <3> QED BY <2>7, <3>6, <3>7
  <2>13. CASE OpenSkill(p) \/ WriteSkill(p)
    <3>1. Stage'
          BY <2>5, <2>13 DEF OpenSkill, WriteSkill, Stage, FileIs
    <3>2. SettledInv' /\ HooksFileWhole'
          BY <1>2, <2>13 DEF OpenSkill, WriteSkill, SettledInv, HooksFileWhole, FileIs
    <3> QED BY <2>7, <3>1, <3>2
  <2>14. CASE ReplaceSkill(p)
    <3>1. Stage'
          BY <2>14 DEF ReplaceSkill, Stage
    <3>2. /\ hooksFile' = hooksFile /\ settled' = p /\ skillFile' = skillTmp
          /\ FileIs(RunBy[p]) /\ skillTmp = RunBy[p]
          BY <2>5, <2>14 DEF ReplaceSkill, Stage
    <3>3. SettledInv' /\ HooksFileWhole'
          BY <2>2, <3>2, <1>2 DEF SettledInv, HooksFileWhole, FileIs
    <3> QED BY <2>7, <3>1, <3>3
  <2> QED BY <1>3, <2>8, <2>9, <2>10, <2>11, <2>12, <2>13, <2>14 DEF InstallStep
<1>4. ASSUME NEW e \in Events, DropEntry(e) PROVE Rest'
      BY <1>4, ChangeGood DEF DropEntry, HooksFileWhole, Whole
<1>5. ASSUME NEW e \in Events, NEW x \in Entries, AddEntry(e, x) PROVE Rest'
      BY <1>5, ChangeGood DEF AddEntry, HooksFileWhole, Whole
<1>6. ASSUME BreakFile PROVE Rest'
  <2>1. Change /\ hooksFile'.is = "broken" /\ onDisk' = onDisk
        BY <1>6 DEF BreakFile
  <2>2. HooksFileWhole'
        BY <2>1 DEF HooksFileWhole
  <2>3. onDisk' \subseteq onDisk
        BY <2>1
  <2> QED BY <2>1, <2>2, <2>3, ChangeGood
<1>7. ASSUME NEW i \in Interpreters, RemoveInterpreter(i) PROVE Rest'
      BY <1>2, <1>7, ChangeGood DEF RemoveInterpreter, HooksFileWhole
<1>8. ASSUME UNCHANGED installVars PROVE Rest'
  <2>1. AloneInv' /\ HooksFileWhole'
        BY <1>2, <1>8 DEF installVars, AloneInv, Busy, HooksFileWhole
  <2>2. StageInv'
        BY <1>2, <1>8 DEF installVars, StageInv, FileIs
  <2>3. SettledInv'
        BY <1>2, <1>8 DEF installVars, SettledInv, FileIs
  <2> QED BY <2>1, <2>2, <2>3
<1> QED BY <1>1, <1>3, <1>4, <1>5, <1>6, <1>7, <1>8 DEF InstallNext, OthersStep, InstallInv

LEMMA InstallInvAlways == InstallSpec => []InstallInv
BY InstallInitGood, InstallStepGood, PTL DEF InstallSpec

-----------------------------------------------------------------------------
\* Codex never finds half a hooks.json, wherever an install dies.
THEOREM HooksNeverTorn == InstallSpec => []HooksFileWhole
<1>1. InstallInv => HooksFileWhole
      BY DEF InstallInv
<1> QED BY <1>1, InstallInvAlways, PTL

\* After an install that succeeds doctor has nothing to say, and a second one
\* would change nothing, whatever was in the file before.
THEOREM AdviceIsGood == InstallSpec => []AdviceHelps
<1>1. InstallInv => AdviceHelps
  <2> SUFFICES ASSUME InstallInv, settled # Nobody
               PROVE  /\ CheckHooks = "ok"
                      /\ CheckSkill(RunBy[settled]) = "ok"
                      /\ Merged(hooksFile.says, RunBy[settled]) = hooksFile.says
      BY DEF AdviceHelps
  <2>1. /\ settled \in Installs /\ RunBy[settled] \in Interpreters
        /\ hooksFile.says \in Hooks
        BY InstallAssumption DEF InstallInv, InstallTypeOK, Files
  <2>2. FileIs(RunBy[settled]) /\ skillFile = RunBy[settled] /\ RunBy[settled] \in onDisk
        BY DEF InstallInv, SettledInv
  <2>3. \A e \in Events : HookIsGood(hooksFile.says[e], e)
    <3> SUFFICES ASSUME NEW e \in Events PROVE HookIsGood(hooksFile.says[e], e)
        OBVIOUS
    <3>1. EntryIs(hooksFile.says[e], e, RunBy[settled])
          BY <2>2 DEF FileIs
    <3>2. Ours(e, RunBy[settled]).by = RunBy[settled]
          BY DEF Ours
    <3> QED BY <2>2, <3>1, <3>2 DEF HookIsGood, EntryIs
  <2>6. CheckHooks = "ok"
        BY <2>2, <2>3 DEF CheckHooks, FileIs
  <2>4. CheckSkill(RunBy[settled]) = "ok"
        BY <2>2 DEF CheckSkill
  <2>5. Merged(hooksFile.says, RunBy[settled]) = hooksFile.says
        BY <2>1, <2>2, MergedAgain DEF FileIs
  <2> QED BY <2>4, <2>5, <2>6
<1> QED BY <1>1, InstallInvAlways, PTL

\* An install leaves the entries of others as and where they are.
THEOREM OthersKept == InstallSpec => OthersUntouched
<1> DEFINE Kept == edits' = edits => Keeps(hooksFile.says, hooksFile'.says)
<1>1. InstallInv /\ [InstallNext]_installVars => [Kept]_installVars
  <2> SUFFICES ASSUME InstallInv, InstallNext, edits' = edits
               PROVE  Keeps(hooksFile.says, hooksFile'.says)
      OBVIOUS
  <2>1. \A p \in Installs : RunBy[p] \in Interpreters
        BY InstallAssumption
  <2>2. hooksFile.says \in Hooks /\ edits \in Nat
        BY SaysHooks, CountType DEF InstallInv
  <2>3. PICK p \in Installs : InstallStep(p)
    <3>1. ~Change
          BY <2>2 DEF Change
    <3>2. ~OthersStep
          BY <3>1 DEF OthersStep, DropEntry, AddEntry, BreakFile, RemoveInterpreter
    <3> QED BY <3>2 DEF InstallNext
  <2>4. CASE ReplaceHooks(p)
    <3>1. hooksFile' = Whole(Merged(hooksFile.says, RunBy[p]))
          BY <2>4 DEF ReplaceHooks, Goes, InstallInv, StageInv
    <3>2. hooksFile'.says = Merged(hooksFile.says, RunBy[p])
          BY <3>1 DEF Whole
    <3> QED BY <2>1, <2>2, <3>2, MergedFound
  <2>5. CASE ~ReplaceHooks(p)
    <3>1. hooksFile' = hooksFile
          BY <2>3, <2>5 DEF InstallStep, ReadHooks, Show, OpenHooks, WriteHooks,
             OpenSkill, WriteSkill, ReplaceSkill, InstallCrashes
    <3> QED BY <3>1 DEF Keeps
  <2> QED BY <2>4, <2>5
<1> QED BY <1>1, InstallInvAlways, PTL DEF InstallSpec, OthersUntouched

-----------------------------------------------------------------------------
(* The meter.  MeterTypeOK has each line start where the one before ends;  *)
(* the order of any two lines is the strengthening that replaces an        *)
(* induction over the file.                                                *)

InOrder == \A i, j \in DOMAIN lines : i < j => lines[i].to <= lines[j].from

MeterInv == MeterTypeOK /\ InOrder

LEMMA EndType == lines \in Seq(Lines) => EndOfLines \in Nat
<1> SUFFICES ASSUME lines \in Seq(Lines), lines # <<>> PROVE EndOfLines \in Nat
    BY DEF EndOfLines
<1>1. Len(lines) \in DOMAIN lines /\ EndOfLines = lines[Len(lines)].to
      BY DEF EndOfLines
<1>2. lines[Len(lines)] \in Lines
      BY <1>1
<1> QED BY <1>1, <1>2 DEF Lines

LEMMA MeterInitGood == MeterInit => MeterInv
BY MeterAssumption DEF MeterInit, MeterInv, MeterTypeOK, InOrder, FileSize, EndOfLines

\* A line that is finished lies behind all others.
LEMMA LineIsLast ==
    ASSUME MeterInv, NEW n \in LineSizes, NEW t \in UsageSizes \cup {0},
           NEW b \in BOOLEAN, EndLine(n, t, b)
    PROVE  MeterInv'
<1> DEFINE x == [from |-> EndOfLines, to |-> EndOfLines + n, tokens |-> t, broken |-> b]
<1>1. lines \in Seq(Lines) /\ n \in Nat \ {0} /\ Len(lines) \in Nat
      BY MeterAssumption DEF MeterInv, MeterTypeOK
<1>2. EndOfLines \in Nat /\ \A i \in DOMAIN lines : lines[i].to <= EndOfLines
  <2>1. CASE lines = <<>>
        BY <2>1 DEF EndOfLines
  <2>2. CASE lines # <<>>
    <3>1. Len(lines) \in DOMAIN lines /\ EndOfLines = lines[Len(lines)].to
          BY <1>1, <2>2 DEF EndOfLines
    <3>2. \A i \in DOMAIN lines : lines[i] \in Lines
          BY <1>1
    <3>3. ASSUME NEW i \in DOMAIN lines PROVE lines[i].to <= lines[Len(lines)].to
      <4>1. CASE i = Len(lines)
            BY <3>1, <3>2, <4>1 DEF Lines
      <4>2. CASE i # Len(lines)
        <5>1. i < Len(lines)
              BY <1>1, <4>2
        <5>2. lines[i].to <= lines[Len(lines)].from
              BY <3>1, <5>1 DEF MeterInv, InOrder
        <5>3. lines[Len(lines)].to > lines[Len(lines)].from
              BY <3>1 DEF MeterInv, MeterTypeOK
        <5> QED BY <3>1, <3>2, <5>2, <5>3 DEF Lines
      <4> QED BY <4>1, <4>2
    <3> QED BY <3>1, <3>2, <3>3 DEF Lines
  <2> QED BY <2>1, <2>2
<1>3. x \in Lines
      BY <1>1, <1>2 DEF Lines
<1>4. lines' = Append(lines, x) /\ half' = 0 /\ UNCHANGED <<reader, size, shown>>
      BY DEF EndLine
<1>5. /\ lines' \in Seq(Lines) /\ DOMAIN lines' = 1..(Len(lines) + 1)
      /\ Len(lines') = Len(lines) + 1
      /\ lines'[Len(lines) + 1] = x
      /\ \A i \in DOMAIN lines : lines'[i] = lines[i]
      BY <1>1, <1>3, <1>4
<1>6. EndOfLines' = EndOfLines + n
      BY <1>1, <1>5 DEF EndOfLines
<1>7. half = 1 /\ size \in Nat /\ size <= EndOfLines + half
      BY DEF EndLine, MeterInv, MeterTypeOK, FileSize
<1>8. size' \in Nat /\ size' <= FileSize'
      BY <1>1, <1>2, <1>4, <1>6, <1>7 DEF FileSize
<1>9. ASSUME NEW i \in DOMAIN lines'
      PROVE  /\ lines'[i].to > lines'[i].from
             /\ lines'[i].from = IF i = 1 THEN 0 ELSE lines'[i - 1].to
  <2>1. CASE i = Len(lines) + 1
    <3>1. lines'[i] = x /\ x.to > x.from
          BY <1>1, <1>2, <1>5, <2>1
    <3>2. CASE Len(lines) = 0
          BY <1>1, <2>1, <3>1, <3>2 DEF EndOfLines
    <3>3. CASE Len(lines) # 0
      <4>1. /\ i # 1 /\ i - 1 = Len(lines) /\ i - 1 \in DOMAIN lines
            /\ lines # <<>>
            BY <1>1, <2>1, <3>3
      <4>2. lines'[i - 1] = lines[Len(lines)] /\ EndOfLines = lines[Len(lines)].to
            BY <1>5, <4>1 DEF EndOfLines
      <4> QED BY <3>1, <4>1, <4>2
    <3> QED BY <3>2, <3>3
  <2>2. CASE i # Len(lines) + 1
    <3>1. i \in DOMAIN lines /\ (i # 1 => i - 1 \in DOMAIN lines)
          BY <1>1, <1>5, <2>2
    <3>2. lines'[i] = lines[i] /\ (i # 1 => lines'[i - 1] = lines[i - 1])
          BY <1>5, <3>1
    <3> QED BY <3>1, <3>2 DEF MeterInv, MeterTypeOK
  <2> QED BY <2>1, <2>2
<1>10. InOrder'
  <2> SUFFICES ASSUME NEW i \in DOMAIN lines', NEW j \in DOMAIN lines', i < j
               PROVE  lines'[i].to <= lines'[j].from
      BY DEF InOrder
  <2>1. i \in DOMAIN lines /\ lines'[i] = lines[i]
        BY <1>1, <1>5
  <2>2. CASE j = Len(lines) + 1
        BY <1>2, <1>5, <2>1, <2>2
  <2>3. CASE j # Len(lines) + 1
    <3>1. j \in DOMAIN lines /\ lines'[j] = lines[j]
          BY <1>1, <1>5, <2>3
    <3> QED BY <2>1, <3>1 DEF MeterInv, InOrder
  <2> QED BY <2>2, <2>3
<1>11. reader' \in {"idle", "sized", "done"} /\ shown' \in UsageSizes \cup {Unknown}
      BY <1>4 DEF MeterInv, MeterTypeOK
<1> QED BY <1>4, <1>5, <1>8, <1>9, <1>10, <1>11 DEF MeterInv, MeterTypeOK

\* The latest readable usage record is the one that counts, if it is in the
\* tail; the tail holds no other if it is not.
LEMMA MeteredLast ==
    ASSUME MeterInv, NEW n \in DOMAIN lines, IsUsage(n),
           \A k \in DOMAIN lines : k > n => ~IsUsage(k)
    PROVE  IF InTail(n) THEN Metered = lines[n].tokens ELSE Metered = Unknown
<1> DEFINE used == {k \in DOMAIN lines : InTail(k) /\ lines[k].tokens > 0 /\ ~lines[k].broken}
           latest == CHOOSE m \in used : \A k \in used : k <= m
<1>1. lines \in Seq(Lines) /\ size \in Nat /\ TailBytes \in Nat
      BY MeterAssumption DEF MeterInv, MeterTypeOK
<1>2. \A k \in used : k <= n
  <2> SUFFICES ASSUME NEW k \in used, k > n PROVE FALSE
      BY <1>1
  <2> QED BY DEF IsUsage
<1>3. CASE InTail(n)
  <2>1. n \in used
        BY <1>3 DEF IsUsage
  <2>2. latest \in used /\ \A k \in used : k <= latest
        BY <1>2, <2>1
  <2>3. latest = n
        BY <1>1, <1>2, <2>1, <2>2
  <2> QED BY <1>3, <2>1, <2>3 DEF Metered
<1>4. CASE ~InTail(n)
  <2>1. ASSUME NEW k \in used PROVE FALSE
    <3>1. k \in DOMAIN lines /\ InTail(k) /\ k <= n
          BY <1>2, <2>1
    <3>2. lines[k] \in Lines /\ lines[n] \in Lines
          BY <1>1, <3>1
    <3>3. k # n
          BY <1>4, <3>1
    <3>4. k < n
          BY <1>1, <3>1, <3>3
    <3>5. lines[k].to <= lines[n].from /\ lines[k].to > lines[k].from
          BY <3>1, <3>4 DEF MeterInv, InOrder, MeterTypeOK
    <3>6. size > TailBytes /\ ~(lines[n].from + TailBytes > size)
          BY <1>4 DEF InTail
    <3>7. lines[k].from + TailBytes > size
          BY <3>1, <3>6 DEF InTail
    <3> QED BY <1>1, <3>2, <3>5, <3>6, <3>7 DEF Lines
  <2> QED BY <1>4, <2>1 DEF Metered
<1> QED BY <1>3, <1>4

\* What the meter shows is a usage record's size, or nothing.
LEMMA MeteredType == lines \in Seq(Lines) => Metered \in UsageSizes \cup {Unknown}
<1> SUFFICES ASSUME lines \in Seq(Lines) PROVE Metered \in UsageSizes \cup {Unknown}
    OBVIOUS
<1> DEFINE used == {k \in DOMAIN lines : InTail(k) /\ lines[k].tokens > 0 /\ ~lines[k].broken}
           latest == CHOOSE m \in used : \A k \in used : k <= m
<1>1. CASE used = {}
      BY <1>1 DEF Metered
<1>2. CASE used # {}
  <2>1. \E m \in used : \A k \in used : k <= m
    <3>1. used \subseteq 1..Len(lines) /\ Len(lines) \in Nat
          OBVIOUS
    <3> DEFINE mirror == {Len(lines) - k : k \in used}
    <3>2. mirror \subseteq Nat /\ mirror # {}
          BY <1>2, <3>1
    <3> HIDE DEF mirror
    <3>3. PICK l \in mirror : \A m \in mirror : <<m, l>> \notin OpToRel(<, Nat)
          BY <3>2, WFMin, NatLessThanWellFounded, Zenon
    <3>4. l \in Nat /\ \A m \in mirror : m \in Nat /\ ~(m < l)
          BY <3>2, <3>3, Zenon DEF OpToRel
    <3>5. PICK m \in used : l = Len(lines) - m
          BY <3>3 DEF mirror
    <3>6. ASSUME NEW k \in used PROVE k <= m
      <4>1. Len(lines) - k \in mirror
            BY DEF mirror
      <4> QED BY <3>1, <3>4, <3>5, <4>1
    <3> QED BY <3>6
  <2>2. latest \in used
        BY <2>1
  <2>3. lines[latest] \in Lines /\ lines[latest].tokens > 0
        BY <2>2
  <2>4. Metered = lines[latest].tokens
        BY <1>2 DEF Metered
  <2> QED BY <2>3, <2>4 DEF Lines
<1> QED BY <1>1, <1>2

\* No step of the writer or the reader disturbs the order of the lines.
LEMMA MeterStepGood == MeterInv /\ [MeterNext]_meterVars => MeterInv'
<1> SUFFICES ASSUME MeterInv, [MeterNext]_meterVars PROVE MeterInv'
    OBVIOUS
<1>1. lines \in Seq(Lines) /\ size \in Nat
      BY DEF MeterInv, MeterTypeOK
<1>2. EndOfLines \in Nat
      BY <1>1, EndType
<1> USE DEF MeterInv, MeterTypeOK, InOrder, FileSize, EndOfLines
<1>3. CASE BeginLine
      BY <1>1, <1>2, <1>3 DEF BeginLine
<1>4. ASSUME NEW n \in LineSizes, NEW t \in UsageSizes \cup {0}, NEW b \in BOOLEAN,
             EndLine(n, t, b)
      PROVE  MeterInv'
      BY <1>4, LineIsLast
<1>5. CASE Stat
      BY <1>1, <1>2, <1>5 DEF Stat
<1>6. CASE ReadTail
      BY <1>6, MeteredType DEF ReadTail
<1>7. CASE Again
      BY <1>1, <1>2, <1>7 DEF Again
<1>8. CASE UNCHANGED meterVars
      BY <1>8 DEF meterVars
<1> QED BY <1>3, <1>4, <1>5, <1>6, <1>7, <1>8 DEF MeterNext

\* Lines follow each other without a gap however reader and writer interleave.
THEOREM MeterTypeCorrect == MeterSpec => []MeterTypeOK
<1>1. MeterSpec => []MeterInv
      BY MeterInitGood, MeterStepGood, PTL DEF MeterSpec
<1>2. MeterInv => MeterTypeOK
      BY DEF MeterInv
<1> QED BY <1>1, <1>2, PTL

\* The meter shows the last usage record, by the time the file is read, for any
\* lines, any size of the tail and any growth between the two calls.
THEOREM MeterShowsLast == MeterSpec => ShownIsLast
<1> DEFINE Shows ==
        \A n \in DOMAIN lines :
          /\ ReadTail /\ IsUsage(n)
          /\ \A k \in DOMAIN lines : k > n => ~IsUsage(k)
          => \/ shown' = lines[n].tokens
             \/ /\ shown' = Unknown /\ FileSize > TailBytes
                /\ lines[n].from + TailBytes <= FileSize
<1>1. MeterInv => Shows
  <2> SUFFICES ASSUME MeterInv, NEW n \in DOMAIN lines, ReadTail, IsUsage(n),
                      \A k \in DOMAIN lines : k > n => ~IsUsage(k)
               PROVE  \/ shown' = lines[n].tokens
                      \/ /\ shown' = Unknown /\ FileSize > TailBytes
                         /\ lines[n].from + TailBytes <= FileSize
      OBVIOUS
  <2>1. shown' = Metered
        BY DEF ReadTail
  <2>2. CASE InTail(n)
        BY <2>1, <2>2, MeteredLast
  <2>3. CASE ~InTail(n)
    <3>1. Metered = Unknown
          BY <2>3, MeteredLast
    <3>2. /\ size \in Nat /\ size <= FileSize /\ half \in {0, 1}
          /\ lines \in Seq(Lines) /\ lines[n] \in Lines /\ TailBytes \in Nat
          BY MeterAssumption DEF MeterInv, MeterTypeOK
    <3>3. FileSize \in Nat
          BY <3>2, EndType DEF FileSize
    <3> QED BY <2>1, <2>3, <3>1, <3>2, <3>3 DEF InTail, Lines
  <2> QED BY <2>2, <2>3
<1>2. MeterSpec => []MeterInv
      BY MeterInitGood, MeterStepGood, PTL DEF MeterSpec
<1>3. MeterInv /\ [MeterNext]_meterVars => [Shows]_meterVars
      BY <1>1
<1> QED BY <1>2, <1>3, PTL DEF MeterSpec, ShownIsLast

-----------------------------------------------------------------------------
(* The stored answers.                                                     *)

\* What a note says was true when it was written, and still is; before there
\* is a note there is nothing to read.
NoteInv ==
    \A r \in Requests :
        /\ answer[r] = "stored" => stored[r] = "whole"
        /\ note[r] # "none" => answer[r] = "sent"
        /\ note[r] = "none" => got[r] = "nothing" /\ reading[r] = WithoutMatch
        /\ note[r] = "cut, with path" =>
              /\ stored[r] = "whole"
              /\ reading[r] \in {WithoutMatch, r}

\* A file that was found is there.
FoundInv ==
    \A r \in Requests : reading[r] # WithoutMatch => stored[reading[r]] # "no file"

RepliesInv == RepliesTypeOK /\ FoundInv /\ NoteInv /\ NotedReplyCanBeRead

LEMMA RepliesInitGood == RepliesInit => RepliesInv
<1> SUFFICES ASSUME RepliesInit PROVE RepliesInv
    OBVIOUS
<1>1. RepliesTypeOK /\ FoundInv
      BY DEF RepliesInit, RepliesTypeOK, FoundInv
<1>2. NoteInv
      BY DEF RepliesInit, NoteInv
<1>3. NotedReplyCanBeRead
      BY DEF RepliesInit, NotedReplyCanBeRead
<1> QED BY <1>1, <1>2, <1>3 DEF RepliesInv

LEMMA RepliesTypeStep ==
    RepliesTypeOK /\ FoundInv /\ [RepliesNext]_repliesVars => RepliesTypeOK' /\ FoundInv'
<1> SUFFICES ASSUME RepliesTypeOK, FoundInv, [RepliesNext]_repliesVars
             PROVE  RepliesTypeOK' /\ FoundInv'
    OBVIOUS
<1> USE RepliesAssumption DEF RepliesTypeOK, FoundInv, Answers
<1>1. ASSUME NEW r \in Requests, SendWhole(r) \/ CreateFile(r) \/ WriteFile(r)
      PROVE  RepliesTypeOK' /\ FoundInv'
  <2>1. RepliesTypeOK'
        BY <1>1 DEF SendWhole, CreateFile, WriteFile
  <2>2. \A q \in Requests : stored[q] # "no file" => stored'[q] # "no file"
        BY <1>1 DEF SendWhole, CreateFile, WriteFile
  <2>3. reading' = reading
        BY <1>1 DEF SendWhole, CreateFile, WriteFile
  <2> QED BY <2>1, <2>2, <2>3
<1>2. ASSUME NEW r \in Requests, StoreFails(r) \/ SendCut(r) \/ BridgeDies(r)
      PROVE  RepliesTypeOK' /\ FoundInv'
      BY <1>2 DEF StoreFails, SendCut, BridgeDies
<1>3. ASSUME NEW r \in Requests, FindFile(r) PROVE RepliesTypeOK' /\ FoundInv'
  <2>1. CASE UNCHANGED reading
        BY <1>3, <2>1 DEF FindFile
  <2>2. ASSUME NEW q \in FilesFor(r), reading' = [reading EXCEPT ![r] = q],
               UNCHANGED got
        PROVE  RepliesTypeOK' /\ FoundInv'
    <3>1. q \in Requests /\ stored[q] # "no file"
          BY DEF FilesFor
    <3> QED BY <1>3, <2>2, <3>1 DEF FindFile
  <2> QED BY <1>3, <2>1, <2>2 DEF FindFile
<1>4. ASSUME NEW r \in Requests, PrintFile(r) PROVE RepliesTypeOK' /\ FoundInv'
  <2>1. reading[r] = r => stored[r] \in {"part", "whole"}
        BY <1>4 DEF PrintFile
  <2> QED BY <1>4, <2>1 DEF PrintFile
<1>5. CASE UNCHANGED repliesVars
      BY <1>5 DEF repliesVars
<1> QED BY <1>1, <1>2, <1>3, <1>4, <1>5 DEF RepliesNext

\* No step of a bridge or a reader, for whatever request, makes a note untrue.
LEMMA RepliesStepGood == RepliesInv /\ [RepliesNext]_repliesVars => RepliesInv'
<1> SUFFICES ASSUME RepliesInv, [RepliesNext]_repliesVars PROVE RepliesInv'
    OBVIOUS
<1>1. RepliesTypeOK' /\ FoundInv'
      BY RepliesTypeStep DEF RepliesInv
<1> DEFINE Good(r) ==
        /\ answer[r] = "stored" => stored[r] = "whole"
        /\ note[r] # "none" => answer[r] = "sent"
        /\ note[r] = "none" => got[r] = "nothing" /\ reading[r] = WithoutMatch
        /\ note[r] = "cut, with path" =>
              /\ stored[r] = "whole"
              /\ reading[r] \in {WithoutMatch, r}
              /\ got[r] \in {"nothing", "whole", "ambiguous"}
<1>2. \A r \in Requests : Good(r)
      BY DEF RepliesInv, NoteInv, NotedReplyCanBeRead
<1>3. ASSUME NEW r \in Requests PROVE Good(r)'
  <2> USE <1>2, RepliesAssumption DEF RepliesTypeOK, RepliesInv, Answers
  <2>1. ASSUME NEW s \in Requests, SendWhole(s) \/ CreateFile(s) \/ WriteFile(s)
        PROVE  Good(r)'
        BY <2>1 DEF SendWhole, CreateFile, WriteFile
  <2>2. ASSUME NEW s \in Requests, StoreFails(s) \/ SendCut(s) \/ BridgeDies(s)
        PROVE  Good(r)'
        BY <2>2 DEF StoreFails, SendCut, BridgeDies
  <2>3. ASSUME NEW s \in Requests, FindFile(s) PROVE Good(r)'
    <3>1. CASE s # r
          BY <2>3, <3>1 DEF FindFile
    <3>2. CASE s = r /\ note[r] = "cut, without path"
          BY <2>3, <3>2 DEF FindFile
    <3>3. CASE s = r /\ note[r] = "cut, with path"
      <4>1. r \in FilesFor(r)
            BY <3>3 DEF FilesFor
      <4>2. UNCHANGED <<answer, stored, note>>
            BY <2>3 DEF FindFile
      <4>3. CASE got' = [got EXCEPT ![s] = "ambiguous"] /\ UNCHANGED reading
            BY <3>3, <4>2, <4>3
      <4>4. ASSUME NEW q \in FilesFor(s), FilesFor(s) = {q},
                   reading' = [reading EXCEPT ![s] = q], UNCHANGED got
            PROVE  Good(r)'
        <5>1. q = r
              BY <3>3, <4>1, <4>4
        <5> QED BY <3>3, <4>2, <4>4, <5>1
      <4> QED BY <2>3, <3>3, <4>1, <4>3, <4>4 DEF FindFile
    <3> QED BY <2>3, <3>1, <3>2, <3>3 DEF FindFile
  <2>4. ASSUME NEW s \in Requests, PrintFile(s) PROVE Good(r)'
    <3>1. /\ UNCHANGED <<answer, stored, note>>
          /\ s # r => got'[r] = got[r] /\ reading'[r] = reading[r]
          /\ s = r => /\ reading'[r] = WithoutMatch /\ reading[r] # WithoutMatch
                      /\ reading[r] = r => got'[r] = stored[r]
          BY <2>4 DEF PrintFile
    <3> QED BY <3>1
  <2>5. CASE UNCHANGED repliesVars
        BY <2>5 DEF repliesVars
  <2> QED BY <2>1, <2>2, <2>3, <2>4, <2>5 DEF RepliesNext
<1> QED BY <1>1, <1>3 DEF RepliesInv, NoteInv, NotedReplyCanBeRead

\* Whoever is sent a note that names a file reads all of the answer, or is told
\* that the short id is not enough, for any number of requests and any ids.
THEOREM NotedRepliesRead == RepliesSpec => []NotedReplyCanBeRead
<1>1. RepliesInv => NotedReplyCanBeRead
      BY DEF RepliesInv
<1> QED BY <1>1, RepliesInitGood, RepliesStepGood, PTL DEF RepliesSpec

\* The files, the installs and their locals have the values the program can give
\* them, however often others edit hooks.json.
THEOREM InstallTypeCorrect == InstallSpec => []InstallTypeOK
<1>1. InstallInv => InstallTypeOK
      BY DEF InstallInv
<1> QED BY <1>1, InstallInvAlways, PTL

-----------------------------------------------------------------------------
(* All commands.                                                           *)

CommandsInv == SelfTestInv /\ InstallInv /\ MeterInv /\ RepliesInv /\ SpawnInv

\* A step is one command's, and leaves what is known of the others alone.
LEMMA CommandsInvAlways == CommandsSpec => []CommandsInv
<1>1. CommandsInit => CommandsInv
      BY SelfTestInitGood, InstallInitGood, MeterInitGood, RepliesInitGood,
         SpawnInitGood DEF CommandsInit, CommandsInv
<1>2. CommandsInv /\ [CommandsNext]_commandVars => CommandsInv'
  <2> SUFFICES ASSUME CommandsInv, [CommandsNext]_commandVars PROVE CommandsInv'
      OBVIOUS
  <2>1. /\ [SelfTestNext]_selfTestVars /\ [InstallNext]_installVars
        /\ [MeterNext]_meterVars /\ [RepliesNext]_repliesVars
        /\ [SpawnNext]_spawnVars
        BY Zenon DEF CommandsNext, Doctor, Spawning, commandVars
  <2> QED BY <2>1, SelfTestStepGood, InstallStepGood, MeterStepGood, RepliesStepGood,
             SpawnStepGood DEF CommandsInv
<1> QED BY <1>1, <1>2, PTL DEF CommandsSpec

\* The variables of every command have the values the program can give them,
\* whichever command runs.
THEOREM CommandsTypeCorrect == CommandsSpec => []CommandsTypeOK
<1>1. CommandsInv => CommandsTypeOK
      BY DEF CommandsInv, CommandsTypeOK, SelfTestInv, InstallInv, MeterInv, RepliesInv,
         SpawnInv
<1> QED BY <1>1, CommandsInvAlways, PTL

=============================================================================
