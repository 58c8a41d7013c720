------------------------ MODULE ServerInstaller_proofs ------------------------
(***************************************************************************)
(* That a failed installation restores what it found, a completed one      *)
(* leaves everything in agreement, and an alert is never answered by the   *)
(* rules of another provider.                                              *)
(*                                                                         *)
(* A completed run agrees because every command leaves behind what         *)
(* ProgressOK says of the commands after it.  A failed one restores        *)
(* because the loop of the rollback has put back every file it has passed  *)
(* (RollbackOK), whatever the stages did.  That no two providers are mixed *)
(* needs the most: what a run begins with is complete (SettledOK), so that *)
(* until the last file is written the manager either serves nothing, the   *)
(* integration being disabled, or rules and configuration of one provider  *)
(* (ProviderOK).                                                           *)
(***************************************************************************)
EXTENDS ServerInstaller, TLAPS

-----------------------------------------------------------------------------
(* The inductive invariant.                                                *)

\* The commands from each one on, to the end of a run.
FromVerify    == {"verify", "manifest", "commit"}
FromMlRestart == {"ml_restart"} \cup FromVerify
FromMlConfig  == {"ml_config"} \cup FromMlRestart
FromRestart   == {"phase4_restart", "ml", "model"} \cup FromMlConfig
FromBlock     == {"block"} \cup FromRestart
FromSync      == {"sync"} \cup FromBlock
FromConfig    == {"config"} \cup FromSync
FromOldRules  == {"old_rules", "config_nav", "block_nav", "rules_restart", "phase4", "code"}
                   \cup FromConfig
FromPolicy    == {"policy"} \cup FromOldRules
FromRules     == {"rules"} \cup FromPolicy
FromPlan      == {"plan"} \cup FromRules

Disabling   == {"disable_rules", "disable_block", "disable_restart"}
BeforeBlock == {"prepare", "plan", "rules", "policy", "old_rules", "config_nav", "block_nav",
                "rules_restart", "phase4", "code", "config", "sync", "block"}

\* What a run knows of itself: its provider is the one asked for or installed, and the
\* rollback starts with the first file.
RunOK ==
  /\ outcome = "running" <=> pc # "idle"
  /\ pc # "idle" => installs # 0 /\ prov \in Providers
  /\ pc \notin {"remove", "restore"} => at = 1
  /\ pc # "idle" /\ foreign => prov # "google_webrisk"
  /\ pc # "idle" /\ request.prov = None /\ snap["config"] # None => prov = snap["config"].prov

\* What each command has left for those after it.
ProgressOK ==
  /\ pc \in FromPlan => effective \in Configs /\ effective.prov = prov
  /\ pc \in FromPlan => (prov = "google_webrisk" => disk["key"] # None)
  /\ pc \in FromRules => plan \in Policies /\ plan.prov = prov
  /\ pc \in FromPolicy => disk["rules"] = plan
  /\ pc \in FromOldRules => disk["policy"] = plan
  /\ pc \in FromConfig => disk["code"] = installs
  /\ pc \in FromSync => disk["config"] \in Configs /\ disk["config"].prov = prov
  /\ pc \in FromBlock => disk["config"].nav = plan.nav
  /\ pc \in FromRestart => disk["ossec"] = plan.nav
  /\ pc \in FromMlConfig => disk["model"] = installs
  /\ pc \in FromMlRestart => disk["config"].ml
  /\ pc \in FromVerify => manager = Loaded(disk)
  /\ pc = "commit" => disk["manifest"] = prov

\* File f is what the snapshot says; the calls counted may have gone on.
Back(f) == IF f = "cache" THEN disk["cache"] >= snap["cache"] ELSE disk[f] = snap[f]

RollbackOK ==
  /\ pc \in {"remove", "restore"} => \A i \in 1..at - 1 : Back(managed[i])
  /\ pc = "reload" => \A f \in Files : Back(f)

\* An installation that is complete, or none.
Complete(d) ==
  IF d["config"] = None THEN d["rules"] = None /\ d["manifest"] = None
  ELSE /\ d["rules"] # None /\ d["rules"].prov = d["config"].prov
       /\ d["manifest"] = d["config"].prov
       /\ foreign => d["config"].prov # "google_webrisk"

\* Between runs, unless one was killed, the disk is complete and the manager has loaded it.
SettledOK ==
  ~torn =>
    /\ pc # "idle" => Complete(snap)
    /\ pc = "idle" => Complete(disk) /\ manager \in {Down, Loaded(disk)}

\* What can answer an alert, the rules and the configuration, is of provider p...
Installed(d, p) ==
  /\ d["config"] # None => d["config"].prov = p
  /\ d["rules"] # None => d["rules"].prov = p

Speaks(d, m, p) ==
  Installed(d, p) /\ (m.block = NoBlock \/ m.rules = None \/ m.rules.prov = p)

\* ...or no alert reaches the integration, now or after a restart.
Silent(d, m) == d["ossec"] = NoBlock /\ m.block = NoBlock

ProviderOK ==
  ~torn =>
    /\ pc \in Disabling => snap["config"] # None /\ Speaks(disk, manager, snap["config"].prov)
    /\ pc = "disable_restart" => disk["ossec"] = NoBlock
    /\ pc \in Forward \ Disabling =>
         Speaks(disk, manager, prov) \/ (pc \in BeforeBlock /\ Silent(disk, manager))

IInv ==
  /\ TypeOK /\ RunOK /\ ProgressOK /\ RollbackOK /\ SettledOK /\ ProviderOK
  /\ FailedInstallRestores /\ CommittedAgrees

USE DEF options, counters

-----------------------------------------------------------------------------
(* The managed files.                                                      *)

LEMMA ManagedFiles ==
  /\ DOMAIN managed = 1..10 /\ Len(managed) = 10
  /\ Files = {"ossec", "old_rules", "rules", "policy", "config", "manifest", "key", "cache",
              "model", "code"}
<1>1. DOMAIN managed = 1..10 /\ Len(managed) = 10
  BY DEF managed
<1>2. 1..10 = {1, 2, 3, 4, 5, 6, 7, 8, 9, 10}
  OBVIOUS
<1>3. /\ managed[1] = "ossec" /\ managed[2] = "old_rules" /\ managed[3] = "rules"
      /\ managed[4] = "policy" /\ managed[5] = "config" /\ managed[6] = "manifest"
      /\ managed[7] = "key" /\ managed[8] = "cache" /\ managed[9] = "model"
      /\ managed[10] = "code"
  BY DEF managed
<1>4. Files = {managed[i] : i \in {1, 2, 3, 4, 5, 6, 7, 8, 9, 10}}
  BY <1>1, <1>2 DEF Files
<1> QED BY <1>1, <1>3, <1>4

\* The loop of the rollback meets every file, and none twice.
LEMMA ManagedOnce ==
  /\ \A i \in 1..10 : managed[i] \in Files
  /\ \A i, j \in 1..10 : managed[i] = managed[j] => i = j
  /\ \A f \in Files : \E i \in 1..10 : managed[i] = f
<1>1. DOMAIN managed = 1..10
  BY ManagedFiles
<1>2. /\ managed[1] = "ossec" /\ managed[2] = "old_rules" /\ managed[3] = "rules"
      /\ managed[4] = "policy" /\ managed[5] = "config" /\ managed[6] = "manifest"
      /\ managed[7] = "key" /\ managed[8] = "cache" /\ managed[9] = "model"
      /\ managed[10] = "code"
  BY DEF managed
<1>3. \A i \in 1..10 : i = 1 \/ i = 2 \/ i = 3 \/ i = 4 \/ i = 5 \/ i = 6 \/ i = 7 \/ i = 8
                        \/ i = 9 \/ i = 10
  OBVIOUS
<1>4. ASSUME NEW i \in 1..10, NEW j \in 1..10, managed[i] = managed[j] PROVE i = j
  BY <1>2, <1>3, <1>4
<1> QED BY <1>1, <1>4 DEF Files

\* What the files can hold, one by one.
LEMMA ContentsAre ==
  /\ Contents("ossec") = Ids \cup {NoBlock, None}
  /\ Contents("old_rules") = {"phase3", None}
  /\ Contents("rules") = Policies \cup {None} /\ Contents("policy") = Policies \cup {None}
  /\ Contents("config") = Configs \cup {None}
  /\ Contents("manifest") = Providers \cup {None}
  /\ Contents("cache") = 0..MaxCalls
  /\ Contents("key") = 1..MaxInstalls \cup {None}
  /\ Contents("model") = 1..MaxInstalls \cup {None}
  /\ Contents("code") = 1..MaxInstalls \cup {None}
BY DEF Contents

LEMMA DiskHolds ==
  ASSUME NEW d, IsDisk(d)
  PROVE  /\ d["ossec"] \in Ids \cup {NoBlock, None}
         /\ d["rules"] \in Policies \cup {None} /\ d["policy"] \in Policies \cup {None}
         /\ d["config"] \in Configs \cup {None}
         /\ d["manifest"] \in Providers \cup {None}
         /\ d["cache"] \in 0..MaxCalls
BY ManagedFiles, ContentsAre DEF IsDisk

\* What no file can be mistaken for.
LEMMA NoneIsNothing ==
  /\ None \notin Configs /\ None \notin Policies /\ None \notin Providers
  /\ \A n \in Nat : n # None
BY NoneAssumption

\* A change of one file.
LEMMA WriteFacts ==
  ASSUME IsDisk(disk), NEW f \in Files, NEW v, disk' = [disk EXCEPT ![f] = v]
  PROVE  disk'[f] = v /\ \A g \in Files : g # f => disk'[g] = disk[g]
BY DEF IsDisk

LEMMA WriteTyped ==
  ASSUME IsDisk(disk), NEW f \in Files, NEW v \in Contents(f), disk' = [disk EXCEPT ![f] = v]
  PROVE  IsDisk(disk')
BY DEF IsDisk

Managers == [up : BOOLEAN, block : Ids \cup {NoBlock}, rules : Policies \cup {None}]

LEMMA LoadedFacts ==
  ASSUME NEW d, IsDisk(d)
  PROVE  /\ Loaded(d) \in Managers /\ Down \in Managers
         /\ Loaded(d).block # NoBlock => Loaded(d).block = d["ossec"]
         /\ d["ossec"] = NoBlock => Loaded(d).block = NoBlock
         /\ Loaded(d).rules # None => Loaded(d).rules = d["rules"]
         /\ Down.block = NoBlock /\ ~Down.up /\ Down.rules = None
<1>1. d["ossec"] \in Ids \cup {NoBlock, None} /\ d["rules"] \in Policies \cup {None}
  BY DiskHolds
<1>2. Down \in Managers /\ Down.block = NoBlock /\ Down.up = FALSE /\ Down.rules = None
  BY DEF Down, Managers
<1>3. CASE d["ossec"] = None
  <2>1. Loaded(d) = Down
    BY <1>3 DEF Loaded
  <2>2. d["ossec"] # NoBlock
    BY <1>3, NoneIsNothing DEF NoBlock
  <2> QED BY <1>2, <2>1, <2>2
<1>4. CASE d["ossec"] # None
  <2>1. Loaded(d) = [up |-> TRUE, block |-> d["ossec"], rules |-> d["rules"]]
    BY <1>4 DEF Loaded
  <2> QED BY <1>1, <1>2, <1>4, <2>1 DEF Managers
<1> QED BY <1>3, <1>4

\* The manager looks at two files.
LEMMA LoadedSame ==
  ASSUME NEW d, NEW e, d["ossec"] = e["ossec"], d["rules"] = e["rules"]
  PROVE  Loaded(d) = Loaded(e)
BY DEF Loaded

-----------------------------------------------------------------------------
(* The kinds of steps.                                                     *)

ForwardStep ==
  DisableRules \/ DisableBlock \/ PrepareConfig \/ PlanRules \/ InstallRules \/ InstallPhase4
    \/ SyncNavigation \/ InstallModel \/ RestartManager \/ Verify \/ RecordManifest

FailureStep == Fail \/ RestartFails \/ Signal \/ Undo \/ UndoRestart

LoopStep == RollbackRemove \/ RollbackRestore

Ending == Commit \/ Kill \/ RollbackRestart

Outside == Classify \/ ManagerRestart \/ UNCHANGED vars

LEMMA StepKinds ==
  ASSUME [Next]_vars
  PROVE  Begin \/ ForwardStep \/ FailureStep \/ LoopStep \/ Ending \/ Outside
BY DEF Next, ForwardStep, FailureStep, LoopStep, Ending, Outside

\* The next command, or the rollback, with what the run knows of itself.
LEMMA ForwardMoves ==
  ASSUME ForwardStep
  PROVE  /\ pc \in Forward \ {"commit"} /\ pc' \in Forward \cup {"undo", "remove"}
         /\ UNCHANGED <<foreign, request, prov, snap, torn, outcome, at, installs, failures, kills>>
<1>1. UNCHANGED <<foreign, request, prov, snap, torn, outcome, at, installs, failures, kills>>
  BY DEF ForwardStep, DisableRules, DisableBlock, PrepareConfig, PlanRules, InstallRules,
         InstallPhase4, SyncNavigation, InstallModel, RestartManager, Verify, RecordManifest,
         Write, Backup, Restart
<1>2. pc \in Forward \ {"commit"} /\ pc' \in Forward \cup {"undo", "remove"}
  BY DEF ForwardStep, DisableRules, DisableBlock, PrepareConfig, PlanRules, InstallRules,
         InstallPhase4, SyncNavigation, InstallModel, RestartManager, Verify, RecordManifest,
         Write, Backup, Restart, Forward
<1> QED BY <1>1, <1>2

LEMMA FailureMoves ==
  ASSUME FailureStep
  PROVE  /\ pc \in Forward \cup {"undo", "undo_restart"}
         /\ pc' \in {"undo", "undo_restart", "remove"}
         /\ UNCHANGED <<foreign, request, prov, snap, torn, outcome, at, installs, kills>>
<1>1. UNCHANGED <<foreign, request, prov, snap, torn, outcome, at, installs, kills>>
  BY DEF FailureStep, Fail, RestartFails, Signal, Undo, UndoRestart
<1>2. pc \in Forward \cup {"undo", "undo_restart"} /\ pc' \in {"undo", "undo_restart", "remove"}
  BY DEF FailureStep, Fail, RestartFails, Signal, Undo, UndoRestart, Forward
<1> QED BY <1>1, <1>2

LEMMA OutsideMoves ==
  ASSUME IsDisk(disk), disk["cache"] \in 0..MaxCalls, Outside
  PROVE  /\ UNCHANGED <<pc, foreign, request, prov, effective, plan, snap, saved, at, torn,
                        outcome, installs, failures, kills>>
         /\ \A f \in Files \ {"cache"} : disk'[f] = disk[f]
         /\ disk'["cache"] \in 0..MaxCalls /\ disk'["cache"] >= disk["cache"]
         /\ IsDisk(disk')
         /\ manager' = manager \/ manager' = Loaded(disk)
<1>1. CASE Classify
  <2>1. disk' = [disk EXCEPT !["cache"] = disk["cache"] + 1] /\ disk["cache"] < MaxCalls
    BY <1>1 DEF Classify
  <2>2. UNCHANGED <<manager, pc, foreign, request, prov, effective, plan, snap, saved, at, torn,
                    outcome, installs, failures, kills>>
    BY <1>1 DEF Classify
  <2> DEFINE v == disk["cache"] + 1
  <2>3. v \in 0..MaxCalls /\ v >= disk["cache"]
    BY <2>1, BoundsAssumption
  <2>4. v \in Contents("cache") /\ "cache" \in Files /\ disk' = [disk EXCEPT !["cache"] = v]
    BY <2>1, <2>3, ContentsAre, ManagedFiles
  <2> HIDE DEF v
  <2>5. disk'["cache"] = v /\ \A g \in Files : g # "cache" => disk'[g] = disk[g]
    BY <2>4, WriteFacts
  <2>6. IsDisk(disk')
    BY <2>4, WriteTyped
  <2> QED BY <2>2, <2>3, <2>5, <2>6
<1>2. CASE ManagerRestart
  BY <1>2 DEF ManagerRestart
<1>3. CASE UNCHANGED vars
  BY <1>3 DEF vars
<1> QED BY <1>1, <1>2, <1>3 DEF Outside

-----------------------------------------------------------------------------
(* Types.                                                                  *)

SavedOK(s) == DOMAIN s \subseteq Files /\ \A f \in DOMAIN s : s[f] \in Contents(f)

\* The parts of the type invariant a command of the installer leaves alone.
RestOK ==
  /\ IsDisk(snap)
  /\ foreign \in BOOLEAN /\ torn \in BOOLEAN
  /\ request \in Options /\ prov \in Providers \cup {None}
  /\ at \in DOMAIN managed
  /\ outcome \in {"none", "running", "committed", "failed", "killed"}
  /\ installs \in 0..MaxInstalls /\ failures \in 0..MaxFailures /\ kills \in 0..MaxKills

PlansOK == effective \in Configs \cup {None} /\ plan \in Policies \cup {None}

States == Forward \cup Rollback \cup {"idle"}

LEMMA TypeParts ==
  TypeOK <=> /\ IsDisk(disk) /\ SavedOK(saved) /\ manager \in Managers
             /\ RestOK /\ PlansOK /\ pc \in States
BY DEF TypeOK, SavedOK, Managers, RestOK, PlansOK, States

LEMMA TypePartsNext ==
  ASSUME IsDisk(disk'), SavedOK(saved'), manager' \in Managers, RestOK', PlansOK', pc' \in States
  PROVE  TypeOK'
BY DEF TypeOK, SavedOK, Managers, RestOK, PlansOK, States

LEMMA InitType == ASSUME Init PROVE TypeOK
<1>1. PICK old \in {None, "phase3"} :
          disk = [f \in Files |-> CASE f = "ossec" -> NoBlock
                                    [] f = "cache" -> 0
                                    [] f = "old_rules" -> old
                                    [] OTHER -> None]
  BY DEF Init
<1>2. IsDisk(disk)
  <2>1. DOMAIN disk = Files
    BY <1>1
  <2>2. 0 \in 0..MaxCalls
    BY BoundsAssumption
  <2>3. ASSUME NEW f \in Files PROVE disk[f] \in Contents(f)
    <3>1. CASE f = "ossec"
      BY <1>1, <3>1, ContentsAre
    <3>2. CASE f = "cache"
      <4>1. disk[f] = 0
        BY <1>1, <3>2
      <4> QED BY <2>2, <3>2, <4>1, ContentsAre
    <3>3. CASE f = "old_rules"
      <4>1. disk[f] = old
        BY <1>1, <3>3
      <4> QED BY <3>3, <4>1, ContentsAre
    <3>4. CASE f \notin {"ossec", "cache", "old_rules"}
      <4>1. disk[f] = None
        BY <1>1, <3>4
      <4> QED BY <3>4, <4>1, ManagedFiles, ContentsAre
    <3> QED BY <3>1, <3>2, <3>3, <3>4
  <2> QED BY <2>1, <2>3 DEF IsDisk
<1>3. IsDisk(snap) /\ manager \in Managers
  BY <1>2, LoadedFacts DEF Init
<1>4. SavedOK(saved)
  BY DEF Init, Nothing, SavedOK
<1>5. NoOptions \in Options
  BY DEF NoOptions, Options
<1>6. 0 \in 0..MaxInstalls /\ 0 \in 0..MaxFailures /\ 0 \in 0..MaxKills /\ 1 \in DOMAIN managed
  BY BoundsAssumption, ManagedFiles
<1>7. RestOK
  BY <1>3, <1>5, <1>6 DEF Init, RestOK
<1>8. PlansOK /\ pc \in States
  BY DEF Init, PlansOK, States
<1> QED BY <1>2, <1>3, <1>4, <1>7, <1>8, TypeParts

LEMMA RestSame ==
  ASSUME RestOK,
         UNCHANGED <<foreign, request, prov, snap, torn, outcome, at, installs, failures, kills>>
  PROVE  RestOK'
BY DEF RestOK

LEMMA PlanTyped ==
  ASSUME TypeOK, ProgressOK
  PROVE  /\ pc \in FromRules => plan \in Policies
         /\ pc \in FromPlan => effective \in Configs
         /\ pc \in FromSync => disk["config"] \in Configs
         /\ plan \in Policies => plan.nav \in Ids /\ plan.prov \in Providers
BY DEF ProgressOK, Policies

\* A command that writes one file.
LEMMA WriteType ==
  ASSUME TypeOK, NEW here, NEW f \in Files, NEW v \in Contents(f), NEW next \in Forward,
         Write(here, f, v, next)
  PROVE  TypeOK'
<1>1. disk' = [disk EXCEPT ![f] = v] /\ pc' = next
      /\ UNCHANGED <<manager, foreign, request, prov, snap, torn, outcome, effective, plan, saved,
                     at, installs, failures, kills>>
  BY DEF Write
<1>2. IsDisk(disk')
  BY <1>1, TypeParts, WriteTyped
<1>3. RestOK'
  BY <1>1, TypeParts, RestSame
<1>4. SavedOK(saved') /\ manager' \in Managers /\ PlansOK'
  BY <1>1, TypeParts DEF PlansOK
<1> QED BY <1>1, <1>2, <1>3, <1>4, TypePartsNext DEF States

LEMMA InstallRulesType == ASSUME TypeOK, ProgressOK, InstallRules PROVE TypeOK'
<1> USE ManagedFiles, ContentsAre
<1>1. plan \in Policies /\ plan.nav \in Ids
  <2>1. pc \in FromRules
    BY DEF InstallRules, Write, FromRules, FromPolicy, FromOldRules
  <2> QED BY <2>1, PlanTyped
<1>2. CASE Write("rules", "rules", plan, "policy")
  BY <1>1, <1>2, WriteType DEF Forward
<1>3. CASE Write("policy", "policy", plan, "old_rules")
  BY <1>1, <1>3, WriteType DEF Forward
<1>4. CASE Write("old_rules", "old_rules", None, "config_nav")
  BY <1>4, WriteType DEF Forward
<1>5. CASE Write("config_nav", "config", ConfigWithId, "block_nav")
  <2>1. disk["config"] \in Configs \cup {None}
    BY TypeParts, DiskHolds
  <2>2. ConfigWithId \in Configs \cup {None}
    BY <1>1, <2>1 DEF ConfigWithId, Configs
  <2>3. ConfigWithId \in Contents("config")
    BY <2>2
  <2> HIDE DEF ConfigWithId
  <2> QED BY <1>5, <2>3, WriteType DEF Forward
<1>6. CASE Write("block_nav", "ossec", BlockWithId, "rules_restart")
  <2>1. BlockWithId \in Contents("ossec")
    BY <1>1 DEF BlockWithId
  <2> QED BY <1>6, <2>1, WriteType DEF Forward
<1> QED BY <1>2, <1>3, <1>4, <1>5, <1>6 DEF InstallRules

\* A stage keeps what it will write.
LEMMA BackupType ==
  ASSUME TypeOK, NEW here, NEW files, files \subseteq Files, NEW next \in Forward,
         Backup(here, files, next)
  PROVE  TypeOK'
<1>1. saved' = [f \in files |-> disk[f]] /\ pc' = next
      /\ UNCHANGED <<disk, manager, foreign, request, prov, snap, torn, outcome, effective, plan,
                     at, installs, failures, kills>>
  BY DEF Backup
<1>2. SavedOK(saved')
  BY <1>1 DEF TypeOK, IsDisk, SavedOK
<1>3. RestOK'
  BY <1>1, TypeParts, RestSame
<1>4. IsDisk(disk') /\ manager' \in Managers /\ PlansOK'
  BY <1>1, TypeParts DEF PlansOK
<1> QED BY <1>1, <1>2, <1>3, <1>4, TypePartsNext DEF States

LEMMA RestartType ==
  ASSUME TypeOK, NEW here, NEW next \in Forward, Restart(here, next)
  PROVE  TypeOK'
<1>1. manager' = Loaded(disk) /\ saved' = Nothing /\ pc' = next
      /\ UNCHANGED <<disk, foreign, request, prov, snap, torn, outcome, effective, plan, at,
                     installs, failures, kills>>
  BY DEF Restart
<1>2. SavedOK(saved') /\ manager' \in Managers
  BY <1>1, TypeParts, LoadedFacts DEF SavedOK, Nothing
<1>3. RestOK'
  BY <1>1, TypeParts, RestSame
<1>4. IsDisk(disk') /\ PlansOK'
  BY <1>1, TypeParts DEF PlansOK
<1> QED BY <1>1, <1>2, <1>3, <1>4, TypePartsNext DEF States

\* The run's own number, as the content of the files it brings.
LEMMA NumberTyped ==
  ASSUME TypeOK, RunOK, pc # "idle"
  PROVE  installs \in 1..MaxInstalls
<1>1. installs \in 0..MaxInstalls /\ installs # 0 /\ MaxInstalls \in Nat
  BY BoundsAssumption DEF TypeOK, RunOK
<1> QED BY <1>1

LEMMA StagesType ==
  ASSUME TypeOK, RunOK, ProgressOK, InstallPhase4 \/ InstallModel \/ RecordManifest
  PROVE  TypeOK'
<1> USE ManagedFiles, ContentsAre
<1>1. pc # "idle"
  BY DEF InstallPhase4, InstallModel, RecordManifest, Write, Backup
<1>2. installs \in 1..MaxInstalls /\ prov \in Providers
  BY <1>1, NumberTyped DEF RunOK
<1>3. CASE Backup("phase4", {"ossec", "config", "code"}, "code")
  BY <1>3, BackupType DEF Forward
<1>4. CASE Write("code", "code", installs, "config")
  BY <1>2, <1>4, WriteType DEF Forward
<1>5. CASE Write("config", "config", effective, "sync")
  <2>1. effective \in Configs
    <3>1. pc \in FromPlan
      BY <1>5 DEF Write, FromPlan, FromRules, FromPolicy, FromOldRules, FromConfig
    <3> QED BY <3>1, PlanTyped
  <2> QED BY <1>5, <2>1, WriteType DEF Forward
<1>6. CASE Write("block", "ossec", disk["config"].nav, "phase4_restart")
  <2>1. disk["config"] \in Configs
    <3>1. pc \in FromSync
      BY <1>6 DEF Write, FromSync, FromBlock
    <3> QED BY <3>1, PlanTyped
  <2>2. disk["config"].nav \in Contents("ossec")
    BY <2>1 DEF Configs
  <2> QED BY <1>6, <2>2, WriteType DEF Forward
<1>7. CASE Backup("ml", {"model", "config"}, "model")
  BY <1>7, BackupType DEF Forward
<1>8. CASE Write("model", "model", installs, "ml_config")
  BY <1>2, <1>8, WriteType DEF Forward
<1>9. CASE Write("ml_config", "config", [disk["config"] EXCEPT !.ml = TRUE], "ml_restart")
  <2>1. disk["config"] \in Configs
    <3>1. pc \in FromSync
      BY <1>9 DEF Write, FromSync, FromBlock, FromRestart, FromMlConfig
    <3> QED BY <3>1, PlanTyped
  <2>2. [disk["config"] EXCEPT !.ml = TRUE] \in Configs
    BY <2>1 DEF Configs
  <2>3. [disk["config"] EXCEPT !.ml = TRUE] \in Contents("config")
    BY <2>2
  <2> QED BY <1>9, <2>3, WriteType DEF Forward
<1>10. CASE RecordManifest
  BY <1>2, <1>10, WriteType DEF RecordManifest, Forward
<1> QED BY <1>3, <1>4, <1>5, <1>6, <1>7, <1>8, <1>9, <1>10 DEF InstallPhase4, InstallModel

\* The configuration the second stage will install.
LEMMA EffectiveFacts ==
  ASSUME TypeOK, RunOK, PrepareConfig
  PROVE  /\ effective' \in Configs \cup {None}
         /\ pc' # "remove" => effective' \in Configs /\ effective'.prov = prov
<1>1. prov \in Providers
  BY DEF PrepareConfig, RunOK
<1>2. disk["config"] \in Configs \cup {None}
  BY TypeParts, DiskHolds
<1> DEFINE shipped == [prov |-> prov, nav |-> NoBlock, ml |-> FALSE]
           updated == [disk["config"] EXCEPT !.prov = prov]
           missing == prov = "google_webrisk" /\ ~request.key /\ disk["key"] = None
<1>3. shipped \in Configs /\ shipped.prov = prov
  BY <1>1 DEF Configs
<1>4. disk["config"] # None => updated \in Configs /\ updated.prov = prov
  BY <1>1, <1>2 DEF Configs
<1>5. effective' = IF missing THEN None
                   ELSE IF request.config \/ disk["config"] = None THEN shipped ELSE updated
  BY DEF PrepareConfig
<1>6. pc' = IF missing THEN "remove" ELSE "plan"
  BY DEF PrepareConfig
<1> HIDE DEF shipped, updated, missing
<1> QED BY <1>3, <1>4, <1>5, <1>6

LEMMA PrepareType == ASSUME TypeOK, RunOK, PrepareConfig PROVE TypeOK'
<1>1. /\ pc' \in States
      /\ UNCHANGED <<manager, foreign, request, prov, snap, torn, outcome, plan, saved, at,
                     installs, failures, kills>>
  BY DEF PrepareConfig, States, Forward, Rollback
<1>2. effective' \in Configs \cup {None}
  BY EffectiveFacts
<1>3. IsDisk(disk')
  <2>1. disk' = disk \/ disk' = [disk EXCEPT !["key"] = installs]
    BY DEF PrepareConfig
  <2>2. installs \in 1..MaxInstalls
    BY NumberTyped DEF PrepareConfig
  <2>3. installs \in Contents("key") /\ "key" \in Files
    BY <2>2, ContentsAre, ManagedFiles
  <2> QED BY <2>1, <2>3, TypeParts, WriteTyped
<1>4. RestOK'
  BY <1>1, TypeParts, RestSame
<1>5. SavedOK(saved') /\ manager' \in Managers /\ PlansOK'
  BY <1>1, <1>2, TypeParts DEF PlansOK
<1> QED BY <1>1, <1>3, <1>4, <1>5, TypePartsNext

\* The policy the first stage will install.
LEMMA PlanFacts ==
  ASSUME TypeOK, RunOK, PlanRules
  PROVE  plan' \in Policies /\ plan'.prov = prov
<1>1. prov \in Providers /\ pc = "plan"
  BY DEF PlanRules, RunOK
<1>2. disk["policy"] \in Policies \cup {None} /\ request \in Options
  BY TypeParts, DiskHolds DEF RestOK
<1>3. PICK n \in IF request.nav # None THEN {request.nav}
                 ELSE IF disk["policy"] # None THEN {disk["policy"].nav} ELSE Ids :
          plan' = [prov |-> prov, nav |-> n]
  BY DEF PlanRules
<1>4. n \in Ids
  <2>1. request.nav # None => request.nav \in Ids
    BY <1>2 DEF Options
  <2>2. disk["policy"] # None => disk["policy"].nav \in Ids
    BY <1>2 DEF Policies
  <2> QED BY <1>3, <2>1, <2>2
<1> QED BY <1>1, <1>3, <1>4 DEF Policies

LEMMA PlanType == ASSUME TypeOK, RunOK, PlanRules PROVE TypeOK'
<1>1. /\ pc' = "rules" /\ saved' = [f \in {"ossec", "old_rules", "rules", "policy", "config"} |-> disk[f]]
      /\ UNCHANGED <<disk, manager, foreign, request, prov, snap, torn, outcome, effective, at,
                     installs, failures, kills>>
  BY DEF PlanRules
<1>2. SavedOK(saved')
  BY <1>1, ManagedFiles DEF TypeOK, IsDisk, SavedOK
<1>3. plan' \in Policies
  BY PlanFacts
<1>4. RestOK'
  BY <1>1, TypeParts, RestSame
<1>5. IsDisk(disk') /\ manager' \in Managers /\ PlansOK'
  BY <1>1, <1>3, TypeParts DEF PlansOK
<1>6. pc' \in States
  BY <1>1 DEF States, Forward
<1> QED BY <1>2, <1>4, <1>5, <1>6, TypePartsNext

LEMMA ForwardType == ASSUME TypeOK, RunOK, ProgressOK, ForwardStep PROVE TypeOK'
<1>1. CASE DisableRules
  <2>1. /\ disk' = [f \in Files |-> IF f \in {"rules", "old_rules", "policy"} THEN None ELSE disk[f]]
        /\ pc' = "disable_block"
        /\ UNCHANGED <<manager, foreign, request, prov, snap, torn, outcome, effective, plan,
                       saved, at, installs, failures, kills>>
    BY <1>1 DEF DisableRules
  <2>2. IsDisk(disk')
    BY <2>1, TypeParts, ContentsAre DEF IsDisk
  <2>3. RestOK'
    BY <2>1, TypeParts, RestSame
  <2>4. SavedOK(saved') /\ manager' \in Managers /\ PlansOK' /\ pc' \in States
    BY <2>1, TypeParts DEF PlansOK, States, Forward
  <2> QED BY <2>2, <2>3, <2>4, TypePartsNext
<1>2. CASE DisableBlock
  <2>1. "ossec" \in Files /\ NoBlock \in Contents("ossec") /\ "disable_restart" \in Forward
    BY ManagedFiles, ContentsAre DEF Forward
  <2> QED BY <1>2, <2>1, WriteType DEF DisableBlock
<1>3. CASE PrepareConfig
  BY <1>3, PrepareType
<1>4. CASE PlanRules
  BY <1>4, PlanType
<1>5. CASE InstallRules
  BY <1>5, InstallRulesType
<1>6. CASE InstallPhase4 \/ InstallModel \/ RecordManifest
  BY <1>6, StagesType
<1>7. CASE SyncNavigation
  <2>1. /\ pc' \in {"block", "undo"}
        /\ UNCHANGED <<manager, foreign, request, prov, snap, torn, outcome, effective, plan,
                       saved, at, installs, failures, kills>>
    BY <1>7 DEF SyncNavigation
  <2>2. pc = "sync" /\ disk["config"] \in Configs /\ disk["policy"].nav \in Ids
    <3>1. pc \in FromSync /\ pc \in FromOldRules /\ pc \in FromRules /\ pc = "sync"
      BY <1>7 DEF SyncNavigation, FromSync, FromConfig, FromOldRules, FromPolicy, FromRules
    <3> QED BY <3>1, PlanTyped DEF ProgressOK
  <2>3. disk' = disk \/ disk' = [disk EXCEPT !["config"].nav = disk["policy"].nav]
    BY <1>7 DEF SyncNavigation
  <2>4. [disk["config"] EXCEPT !.nav = disk["policy"].nav] \in Configs
    BY <2>2 DEF Configs
  <2>5. IsDisk(disk')
    <3> DEFINE v == [disk["config"] EXCEPT !.nav = disk["policy"].nav]
    <3>1. v \in Contents("config") /\ "config" \in Files
      BY <2>4, ContentsAre, ManagedFiles
    <3>2. disk' = disk \/ disk' = [disk EXCEPT !["config"] = v]
      BY <2>3
    <3> HIDE DEF v
    <3> QED BY <3>1, <3>2, TypeParts, WriteTyped
  <2>6. RestOK'
    BY <2>1, TypeParts, RestSame
  <2>7. SavedOK(saved') /\ manager' \in Managers /\ PlansOK' /\ pc' \in States
    BY <2>1, TypeParts DEF PlansOK, States, Forward, Rollback
  <2> QED BY <2>5, <2>6, <2>7, TypePartsNext
<1>8. CASE RestartManager
  BY <1>8, RestartType DEF RestartManager, Forward
<1>9. CASE Verify
  <2>1. /\ pc' \in {"manifest", "remove"}
        /\ UNCHANGED <<disk, manager, foreign, request, prov, snap, torn, outcome, effective,
                       plan, saved, at, installs, failures, kills>>
    BY <1>9 DEF Verify
  <2>2. RestOK'
    BY <2>1, TypeParts, RestSame
  <2>3. IsDisk(disk') /\ SavedOK(saved') /\ manager' \in Managers /\ PlansOK' /\ pc' \in States
    BY <2>1, TypeParts DEF PlansOK, States, Forward, Rollback
  <2> QED BY <2>2, <2>3, TypePartsNext
<1> QED BY <1>1, <1>2, <1>3, <1>4, <1>5, <1>6, <1>7, <1>8, <1>9 DEF ForwardStep

LEMMA FailureType == ASSUME TypeOK, FailureStep PROVE TypeOK'
<1>1. /\ pc' \in {"undo", "undo_restart", "remove"}
      /\ UNCHANGED <<foreign, request, prov, snap, torn, outcome, at, installs, kills>>
  BY FailureMoves
<1>2. effective' = effective /\ plan' = plan
  BY DEF FailureStep, Fail, RestartFails, Signal, Undo, UndoRestart
<1>3. failures' \in 0..MaxFailures
  <2>1. failures \in 0..MaxFailures /\ MaxFailures \in Nat
    BY BoundsAssumption DEF TypeOK
  <2>2. failures' = failures \/ (failures < MaxFailures /\ failures' = failures + 1)
    BY DEF FailureStep, Fail, RestartFails, Signal, Undo, UndoRestart
  <2> QED BY <2>1, <2>2
<1>4. manager' = manager \/ manager' \in {Down, Loaded(disk)}
  BY DEF FailureStep, Fail, RestartFails, Signal, Undo, UndoRestart
<1>5. manager' \in Managers
  BY <1>4, TypeParts, LoadedFacts
<1>6. saved' = saved \/ saved' = Nothing
  BY DEF FailureStep, Fail, RestartFails, Signal, Undo, UndoRestart
<1>7. SavedOK(saved')
  BY <1>6, TypeParts DEF SavedOK, Nothing
<1>8. disk' = disk \/ disk' = [f \in Files |-> IF f \in DOMAIN saved THEN saved[f] ELSE disk[f]]
  BY DEF FailureStep, Fail, RestartFails, Signal, Undo, UndoRestart
<1>9. IsDisk(disk')
  BY <1>8, TypeParts DEF IsDisk, SavedOK
<1>10. RestOK'
  BY <1>1, <1>3, TypeParts DEF RestOK
<1>11. PlansOK' /\ pc' \in States
  BY <1>1, <1>2, TypeParts DEF PlansOK, States, Rollback
<1> QED BY <1>5, <1>7, <1>9, <1>10, <1>11, TypePartsNext

\* What a pass of the rollback's loop leaves alone, and where it goes.
LEMMA LoopMoves ==
  ASSUME TypeOK, LoopStep
  PROVE  /\ UNCHANGED <<manager, foreign, request, prov, snap, torn, outcome, effective, plan,
                        saved, installs, failures, kills>>
         /\ pc \in {"remove", "restore"} /\ pc' \in {"remove", "restore", "reload"}
         /\ at' \in 1..10
<1>1. /\ UNCHANGED <<manager, foreign, request, prov, snap, torn, outcome, effective, plan,
                     saved, installs, failures, kills>>
      /\ pc \in {"remove", "restore"} /\ pc' \in {"remove", "restore", "reload"}
  BY DEF LoopStep, RollbackRemove, RollbackRestore
<1>2. at \in 1..10
  BY ManagedFiles DEF TypeOK
<1>3. at' = at \/ at' = IF at = 10 THEN 1 ELSE at + 1
  BY ManagedFiles DEF LoopStep, RollbackRemove, RollbackRestore
<1>4. at' \in 1..10
  BY <1>2, <1>3
<1> QED BY <1>1, <1>4

LEMMA LoopType == ASSUME TypeOK, LoopStep PROVE TypeOK'
<1>1. /\ UNCHANGED <<manager, foreign, request, prov, snap, torn, outcome, effective, plan,
                     saved, installs, failures, kills>>
      /\ pc' \in {"remove", "restore", "reload"} /\ at' \in DOMAIN managed
  BY LoopMoves, ManagedFiles
<1> DEFINE f == managed[at]
<1>2. f \in Files
  BY ManagedFiles, ManagedOnce DEF TypeOK
<1>3. snap[f] \in Contents(f)
  BY <1>2 DEF TypeOK, IsDisk
<1>4. (IF f = "cache" THEN 0 ELSE None) \in Contents(f)
  <2>1. 0 \in 0..MaxCalls
    BY BoundsAssumption
  <2>2. CASE f = "cache"
    BY <2>1, <2>2, ContentsAre
  <2>3. CASE f # "cache"
    <3>1. None \in Contents(f)
      BY <1>2, <2>3, ManagedFiles, ContentsAre
    <3> QED BY <2>3, <3>1
  <2> QED BY <2>2, <2>3
<1>5. \E v \in Contents(f) : disk' = [disk EXCEPT ![f] = v]
  BY <1>3, <1>4 DEF LoopStep, RollbackRemove, RollbackRestore
<1> HIDE DEF f
<1>6. IsDisk(disk')
  BY <1>2, <1>5, TypeParts, WriteTyped
<1>7. RestOK' /\ PlansOK' /\ pc' \in States
  BY <1>1, TypeParts DEF RestOK, PlansOK, States, Rollback
<1> QED BY <1>1, <1>6, <1>7, TypeParts, TypePartsNext

LEMMA EndingType == ASSUME TypeOK, Ending PROVE TypeOK'
<1>1. Forget
  BY DEF Ending, Commit, Kill, RollbackRestart
<1>2. UNCHANGED <<disk, foreign, snap, installs, failures>>
  BY DEF Ending, Commit, Kill, RollbackRestart
<1>3. manager' = manager \/ manager' \in {Down, Loaded(disk)}
  BY DEF Ending, Commit, Kill, RollbackRestart
<1>4. manager' \in Managers
  BY <1>3, TypeParts, LoadedFacts
<1>5. outcome' \in {"committed", "failed", "killed"} /\ torn' \in BOOLEAN
  BY DEF Ending, Commit, Kill, RollbackRestart, TypeOK
<1>6. kills' \in 0..MaxKills
  <2>1. kills \in 0..MaxKills /\ MaxKills \in Nat
    BY BoundsAssumption DEF TypeOK
  <2>2. kills' = kills \/ (kills < MaxKills /\ kills' = kills + 1)
    BY DEF Ending, Commit, Kill, RollbackRestart
  <2> QED BY <2>1, <2>2
<1>7. NoOptions \in Options /\ 1 \in DOMAIN managed
  BY ManagedFiles DEF NoOptions, Options
<1>8. RestOK'
  BY <1>1, <1>2, <1>5, <1>6, <1>7, TypeParts DEF Forget, RestOK
<1>9. PlansOK' /\ pc' \in States /\ SavedOK(saved')
  BY <1>1 DEF Forget, PlansOK, States, SavedOK, Nothing
<1> QED BY <1>2, <1>4, <1>8, <1>9, TypeParts, TypePartsNext

\* A run begins with the provider asked for, the installed one, or the default.
LEMMA BeginFacts ==
  ASSUME TypeOK, Begin
  PROVE  /\ pc = "idle" /\ pc' \in {"disable_rules", "prepare"}
         /\ request' \in Options /\ prov' \in Providers
         /\ snap' = disk /\ outcome' = "running" /\ installs' = installs + 1
         /\ installs < MaxInstalls
         /\ foreign => prov' # "google_webrisk"
         /\ request'.prov = None /\ disk["config"] # None => prov' = disk["config"].prov
         /\ pc' = "disable_rules" <=> disk["config"] # None /\ disk["config"].prov # prov'
         /\ UNCHANGED <<disk, manager, foreign, effective, plan, saved, at, torn, failures, kills>>
<1>1. PICK r \in Requests :
          /\ pc = "idle" /\ installs < MaxInstalls
          /\ foreign => reputation_provider(r) # "google_webrisk"
          /\ request' = r /\ prov' = reputation_provider(r)
          /\ snap' = disk /\ pc' = FirstStep(reputation_provider(r))
          /\ outcome' = "running" /\ installs' = installs + 1
          /\ UNCHANGED <<disk, manager, foreign, effective, plan, saved, at, torn, failures, kills>>
  BY DEF Begin
<1>2. r \in Options
  BY RequestsAssumption
<1>3. r.prov \in Providers \cup {None}
  BY <1>2 DEF Options
<1>4. disk["config"] \in Configs \cup {None}
  BY TypeParts, DiskHolds
<1>5. disk["config"] # None => disk["config"].prov \in Providers
  BY <1>4 DEF Configs
<1>6. installed_provider = IF disk["config"] = None THEN None ELSE disk["config"].prov
  BY DEF installed_provider
<1>7. reputation_provider(r) = IF r.prov # None THEN r.prov
                               ELSE IF installed_provider # None THEN installed_provider
                               ELSE "phishtank"
  BY DEF reputation_provider
<1>8. prov' \in Providers
  BY <1>1, <1>3, <1>5, <1>6, <1>7 DEF Providers
<1>9. None \notin Providers
  BY NoneIsNothing
<1>10. r.prov = None /\ disk["config"] # None => prov' = disk["config"].prov
  BY <1>1, <1>5, <1>6, <1>7, <1>9
<1>11. pc' = IF installed_provider \notin {None, prov'} THEN "disable_rules" ELSE "prepare"
  BY <1>1 DEF FirstStep
<1>12. pc' = "disable_rules" <=> disk["config"] # None /\ disk["config"].prov # prov'
  BY <1>5, <1>6, <1>9, <1>11
<1>13. pc' \in {"disable_rules", "prepare"}
  BY <1>11
<1> QED BY <1>1, <1>2, <1>8, <1>10, <1>12, <1>13

LEMMA TypeStep == ASSUME TypeOK, RunOK, ProgressOK, [Next]_vars PROVE TypeOK'
<1>1. CASE Begin
  <2>1. installs' \in 0..MaxInstalls
    <3>1. installs \in 0..MaxInstalls /\ MaxInstalls \in Nat
      BY BoundsAssumption DEF TypeOK
    <3> QED BY <1>1, <3>1, BeginFacts
  <2>2. /\ IsDisk(snap') /\ request' \in Options /\ prov' \in Providers
        /\ outcome' = "running" /\ pc' \in {"disable_rules", "prepare"}
        /\ UNCHANGED <<disk, manager, foreign, effective, plan, saved, at, torn, failures, kills>>
    BY <1>1, BeginFacts, TypeParts
  <2>3. RestOK'
    BY <2>1, <2>2, TypeParts DEF RestOK
  <2>4. PlansOK' /\ pc' \in States
    BY <2>2, TypeParts DEF PlansOK, States, Forward
  <2> QED BY <2>2, <2>3, <2>4, TypeParts, TypePartsNext
<1>2. CASE ForwardStep
  BY <1>2, ForwardType
<1>3. CASE FailureStep
  BY <1>3, FailureType
<1>4. CASE LoopStep
  BY <1>4, LoopType
<1>5. CASE Ending
  BY <1>5, EndingType
<1>6. CASE Outside
  <2>1. disk["cache"] \in 0..MaxCalls
    BY TypeParts, DiskHolds
  <2>2. /\ UNCHANGED <<pc, foreign, request, prov, effective, plan, snap, saved, at, torn,
                       outcome, installs, failures, kills>>
        /\ IsDisk(disk') /\ (manager' = manager \/ manager' = Loaded(disk))
    BY <1>6, <2>1, OutsideMoves, TypeParts
  <2>3. manager' \in Managers
    BY <2>2, TypeParts, LoadedFacts
  <2>4. RestOK'
    BY <2>2, TypeParts, RestSame
  <2>5. SavedOK(saved') /\ PlansOK' /\ pc' \in States
    BY <2>2, TypeParts DEF PlansOK
  <2> QED BY <2>2, <2>3, <2>4, <2>5, TypePartsNext
<1> QED BY <1>1, <1>2, <1>3, <1>4, <1>5, <1>6, StepKinds

-----------------------------------------------------------------------------
(* What a run knows of itself.                                             *)

LEMMA RunStep == ASSUME TypeOK, RunOK, [Next]_vars PROVE RunOK'
<1>1. CASE Begin
  <2>1. installs \in Nat
    BY BoundsAssumption DEF TypeOK
  <2>2. installs' # 0
    BY <1>1, <2>1, BeginFacts
  <2>3. pc = "idle" /\ at = 1 /\ at' = at
    BY <1>1, BeginFacts DEF RunOK
  <2> QED BY <1>1, <2>2, <2>3, BeginFacts DEF RunOK
<1>2. CASE ForwardStep
  <2>1. /\ pc \in Forward /\ pc' \in Forward \cup {"undo", "remove"}
        /\ UNCHANGED <<foreign, request, prov, snap, outcome, at, installs>>
    BY <1>2, ForwardMoves
  <2>2. pc # "idle" /\ pc' # "idle" /\ pc \notin {"remove", "restore"}
    BY <2>1 DEF Forward
  <2> QED BY <2>1, <2>2 DEF RunOK
<1>3. CASE FailureStep
  <2>1. /\ pc \in Forward \cup {"undo", "undo_restart"} /\ pc' \in {"undo", "undo_restart", "remove"}
        /\ UNCHANGED <<foreign, request, prov, snap, outcome, at, installs>>
    BY <1>3, FailureMoves
  <2>2. pc # "idle" /\ pc' # "idle" /\ pc \notin {"remove", "restore"}
    BY <2>1 DEF Forward
  <2> QED BY <2>1, <2>2 DEF RunOK
<1>4. CASE LoopStep
  <2>1. /\ pc \in {"remove", "restore"} /\ pc' \in {"remove", "restore", "reload"}
        /\ UNCHANGED <<foreign, request, prov, snap, outcome, installs>>
    BY <1>4, LoopMoves
  <2>2. pc' = "reload" => at' = 1
    BY <1>4 DEF LoopStep, RollbackRemove, RollbackRestore
  <2> QED BY <2>1, <2>2 DEF RunOK
<1>5. CASE Ending
  <2>1. pc' = "idle" /\ at' = 1 /\ outcome' # "running"
    BY <1>5 DEF Ending, Commit, Kill, RollbackRestart, Forget
  <2> QED BY <2>1 DEF RunOK
<1>6. CASE Outside
  <2>1. UNCHANGED <<pc, foreign, request, prov, snap, at, outcome, installs>>
    BY <1>6, OutsideMoves, TypeParts, DiskHolds
  <2> QED BY <2>1 DEF RunOK
<1> QED BY <1>1, <1>2, <1>3, <1>4, <1>5, <1>6, StepKinds

-----------------------------------------------------------------------------
(* What each command leaves for those after it.                            *)

\* The content of every file after a change of one.
LEMMA WriteKeeps ==
  ASSUME IsDisk(disk), NEW f \in Files, NEW v, disk' = [disk EXCEPT ![f] = v]
  PROVE  /\ disk'[f] = v
         /\ f # "ossec" => disk'["ossec"] = disk["ossec"]
         /\ f # "rules" => disk'["rules"] = disk["rules"]
         /\ f # "policy" => disk'["policy"] = disk["policy"]
         /\ f # "config" => disk'["config"] = disk["config"]
         /\ f # "manifest" => disk'["manifest"] = disk["manifest"]
         /\ f # "key" => disk'["key"] = disk["key"]
         /\ f # "model" => disk'["model"] = disk["model"]
         /\ f # "code" => disk'["code"] = disk["code"]
BY WriteFacts, ManagedFiles

\* Before the second half of a run there is nothing to say.
LEMMA ProgressEarly == ASSUME pc' \notin FromPlan PROVE ProgressOK'
BY DEF ProgressOK, FromVerify, FromMlRestart, FromMlConfig, FromRestart, FromBlock, FromSync,
       FromConfig, FromOldRules, FromPolicy, FromRules, FromPlan

\* The frame of a command that writes.
LEMMA WriteFrame ==
  ASSUME TypeOK, NEW here, NEW f \in Files, NEW v, NEW next, Write(here, f, v, next)
  PROVE  /\ pc = here /\ pc' = next /\ disk' = [disk EXCEPT ![f] = v]
         /\ UNCHANGED <<manager, foreign, request, prov, snap, torn, outcome, effective, plan,
                        saved, at, installs, failures, kills>>
BY DEF Write

LEMMA ProgressRules == ASSUME TypeOK, ProgressOK, InstallRules PROVE ProgressOK'
<1> USE DEF FromVerify, FromMlRestart, FromMlConfig, FromRestart, FromBlock, FromSync,
            FromConfig, FromOldRules, FromPolicy, FromRules, FromPlan
<1>0. IsDisk(disk) /\ UNCHANGED <<manager, prov, effective, plan, installs>>
  BY TypeParts DEF InstallRules, Write
<1>1. CASE Write("rules", "rules", plan, "policy")
  <2>1. pc = "rules" /\ pc' = "policy" /\ disk' = [disk EXCEPT !["rules"] = plan]
    BY <1>1 DEF Write
  <2>2. disk'["rules"] = plan /\ disk'["key"] = disk["key"]
    BY <1>0, <2>1, WriteKeeps, ManagedFiles
  <2> QED BY <1>0, <2>1, <2>2 DEF ProgressOK
<1>2. CASE Write("policy", "policy", plan, "old_rules")
  <2>1. pc = "policy" /\ pc' = "old_rules" /\ disk' = [disk EXCEPT !["policy"] = plan]
    BY <1>2 DEF Write
  <2>2. disk'["policy"] = plan /\ disk'["key"] = disk["key"] /\ disk'["rules"] = disk["rules"]
    BY <1>0, <2>1, WriteKeeps, ManagedFiles
  <2> QED BY <1>0, <2>1, <2>2 DEF ProgressOK
<1>3. CASE Write("old_rules", "old_rules", None, "config_nav")
  <2>1. pc = "old_rules" /\ pc' = "config_nav" /\ disk' = [disk EXCEPT !["old_rules"] = None]
    BY <1>3 DEF Write
  <2>2. disk'["key"] = disk["key"] /\ disk'["rules"] = disk["rules"]
        /\ disk'["policy"] = disk["policy"]
    BY <1>0, <2>1, WriteKeeps, ManagedFiles
  <2> QED BY <1>0, <2>1, <2>2 DEF ProgressOK
<1>4. CASE Write("config_nav", "config", ConfigWithId, "block_nav")
  <2>1. pc = "config_nav" /\ pc' = "block_nav" /\ disk' = [disk EXCEPT !["config"] = ConfigWithId]
    BY <1>4 DEF Write
  <2> HIDE DEF ConfigWithId
  <2>2. disk'["key"] = disk["key"] /\ disk'["rules"] = disk["rules"]
        /\ disk'["policy"] = disk["policy"]
    BY <1>0, <2>1, WriteKeeps, ManagedFiles
  <2> QED BY <1>0, <2>1, <2>2 DEF ProgressOK
<1>5. CASE Write("block_nav", "ossec", BlockWithId, "rules_restart")
  <2>1. pc = "block_nav" /\ pc' = "rules_restart" /\ disk' = [disk EXCEPT !["ossec"] = BlockWithId]
    BY <1>5 DEF Write
  <2>2. disk'["key"] = disk["key"] /\ disk'["rules"] = disk["rules"]
        /\ disk'["policy"] = disk["policy"]
    BY <1>0, <2>1, WriteKeeps, ManagedFiles
  <2> QED BY <1>0, <2>1, <2>2 DEF ProgressOK
<1> QED BY <1>1, <1>2, <1>3, <1>4, <1>5 DEF InstallRules

LEMMA ProgressStages ==
  ASSUME TypeOK, ProgressOK, InstallPhase4 \/ InstallModel \/ RecordManifest
  PROVE  ProgressOK'
<1> USE DEF FromVerify, FromMlRestart, FromMlConfig, FromRestart, FromBlock, FromSync,
            FromConfig, FromOldRules, FromPolicy, FromRules, FromPlan
<1>0. IsDisk(disk) /\ UNCHANGED <<manager, prov, effective, plan, installs>>
  BY TypeParts DEF InstallPhase4, InstallModel, RecordManifest, Write, Backup
<1>1. CASE Backup("phase4", {"ossec", "config", "code"}, "code")
  <2>1. pc = "phase4" /\ pc' = "code" /\ disk' = disk
    BY <1>1 DEF Backup
  <2> QED BY <1>0, <2>1 DEF ProgressOK
<1>2. CASE Write("code", "code", installs, "config")
  <2>1. pc = "code" /\ pc' = "config" /\ disk' = [disk EXCEPT !["code"] = installs]
    BY <1>2 DEF Write
  <2>2. disk'["code"] = installs /\ disk'["key"] = disk["key"]
        /\ disk'["rules"] = disk["rules"] /\ disk'["policy"] = disk["policy"]
    BY <1>0, <2>1, WriteKeeps, ManagedFiles
  <2> QED BY <1>0, <2>1, <2>2 DEF ProgressOK
<1>3. CASE Write("config", "config", effective, "sync")
  <2>1. pc = "config" /\ pc' = "sync" /\ disk' = [disk EXCEPT !["config"] = effective]
    BY <1>3 DEF Write
  <2>2. /\ disk'["config"] = effective /\ disk'["key"] = disk["key"]
        /\ disk'["rules"] = disk["rules"] /\ disk'["policy"] = disk["policy"]
        /\ disk'["code"] = disk["code"]
    BY <1>0, <2>1, WriteKeeps, ManagedFiles
  <2> QED BY <1>0, <2>1, <2>2 DEF ProgressOK
<1>4. CASE Write("block", "ossec", disk["config"].nav, "phase4_restart")
  <2>1. pc = "block" /\ pc' = "phase4_restart"
        /\ disk' = [disk EXCEPT !["ossec"] = disk["config"].nav]
    BY <1>4 DEF Write
  <2>2. /\ disk'["ossec"] = disk["config"].nav /\ disk'["key"] = disk["key"]
        /\ disk'["rules"] = disk["rules"] /\ disk'["policy"] = disk["policy"]
        /\ disk'["code"] = disk["code"] /\ disk'["config"] = disk["config"]
    BY <1>0, <2>1, WriteKeeps, ManagedFiles
  <2> QED BY <1>0, <2>1, <2>2 DEF ProgressOK
<1>5. CASE Backup("ml", {"model", "config"}, "model")
  <2>1. pc = "ml" /\ pc' = "model" /\ disk' = disk
    BY <1>5 DEF Backup
  <2> QED BY <1>0, <2>1 DEF ProgressOK
<1>6. CASE Write("model", "model", installs, "ml_config")
  <2>1. pc = "model" /\ pc' = "ml_config" /\ disk' = [disk EXCEPT !["model"] = installs]
    BY <1>6 DEF Write
  <2>2. /\ disk'["model"] = installs /\ disk'["key"] = disk["key"]
        /\ disk'["rules"] = disk["rules"] /\ disk'["policy"] = disk["policy"]
        /\ disk'["code"] = disk["code"] /\ disk'["config"] = disk["config"]
        /\ disk'["ossec"] = disk["ossec"]
    BY <1>0, <2>1, WriteKeeps, ManagedFiles
  <2> QED BY <1>0, <2>1, <2>2 DEF ProgressOK
<1>7. CASE Write("ml_config", "config", [disk["config"] EXCEPT !.ml = TRUE], "ml_restart")
  <2> DEFINE c == [disk["config"] EXCEPT !.ml = TRUE]
  <2>1. pc = "ml_config" /\ pc' = "ml_restart" /\ disk' = [disk EXCEPT !["config"] = c]
    BY <1>7 DEF Write
  <2>2. disk["config"] \in Configs
    BY <2>1 DEF ProgressOK
  <2>3. c \in Configs /\ c.prov = disk["config"].prov /\ c.nav = disk["config"].nav /\ c.ml
    BY <2>2 DEF Configs
  <2> HIDE DEF c
  <2>4. /\ disk'["config"] = c /\ disk'["key"] = disk["key"]
        /\ disk'["rules"] = disk["rules"] /\ disk'["policy"] = disk["policy"]
        /\ disk'["code"] = disk["code"] /\ disk'["model"] = disk["model"]
        /\ disk'["ossec"] = disk["ossec"]
    BY <1>0, <2>1, WriteKeeps, ManagedFiles
  <2> QED BY <1>0, <2>1, <2>3, <2>4 DEF ProgressOK
<1>8. CASE RecordManifest
  <2>1. pc = "manifest" /\ pc' = "commit" /\ disk' = [disk EXCEPT !["manifest"] = prov]
    BY <1>8 DEF RecordManifest, Write
  <2>2. /\ disk'["manifest"] = prov /\ disk'["key"] = disk["key"]
        /\ disk'["rules"] = disk["rules"] /\ disk'["policy"] = disk["policy"]
        /\ disk'["code"] = disk["code"] /\ disk'["config"] = disk["config"]
        /\ disk'["ossec"] = disk["ossec"] /\ disk'["model"] = disk["model"]
    BY <1>0, <2>1, WriteKeeps, ManagedFiles
  <2>3. Loaded(disk') = Loaded(disk)
    BY <2>2, LoadedSame
  <2> QED BY <1>0, <2>1, <2>2, <2>3 DEF ProgressOK
<1> QED BY <1>1, <1>2, <1>3, <1>4, <1>5, <1>6, <1>7, <1>8 DEF InstallPhase4, InstallModel

LEMMA ProgressForward == ASSUME TypeOK, RunOK, ProgressOK, ForwardStep PROVE ProgressOK'
<1>1. CASE DisableRules \/ DisableBlock
  <2>1. pc' \in {"disable_block", "disable_restart"}
    BY <1>1 DEF DisableRules, DisableBlock, Write
  <2>2. pc' \notin FromPlan
    BY <2>1 DEF FromVerify, FromMlRestart, FromMlConfig, FromRestart, FromBlock, FromSync,
                FromConfig, FromOldRules, FromPolicy, FromRules, FromPlan
  <2> QED BY <2>2, ProgressEarly
<1> USE DEF FromVerify, FromMlRestart, FromMlConfig, FromRestart, FromBlock, FromSync,
            FromConfig, FromOldRules, FromPolicy, FromRules, FromPlan
<1>2. CASE PrepareConfig
  <2>1. prov' = prov /\ pc' \in {"remove", "plan"}
    BY <1>2 DEF PrepareConfig
  <2>2. CASE pc' = "remove"
    BY <2>2, ProgressEarly
  <2>3. CASE pc' = "plan"
    <3>1. effective' \in Configs /\ effective'.prov = prov
      BY <1>2, <2>3, EffectiveFacts
    <3>2. prov = "google_webrisk" => disk'["key"] # None
      <4>1. IsDisk(disk) /\ "key" \in Files
        BY TypeParts, ManagedFiles
      <4>2. installs \in 1..MaxInstalls /\ installs # None
        BY <1>2, NumberTyped, NoneIsNothing, BoundsAssumption DEF PrepareConfig
      <4>3. ~(prov = "google_webrisk" /\ ~request.key /\ disk["key"] = None)
        BY <1>2, <2>3 DEF PrepareConfig
      <4>4. disk' = IF prov = "google_webrisk" /\ request.key
                    THEN [disk EXCEPT !["key"] = installs] ELSE disk
        BY <1>2 DEF PrepareConfig
      <4>5. CASE prov = "google_webrisk" /\ request.key
        <5>1. disk'["key"] = installs
          BY <4>1, <4>4, <4>5, WriteFacts
        <5> QED BY <4>2, <5>1
      <4>6. CASE ~(prov = "google_webrisk" /\ request.key)
        BY <4>3, <4>4, <4>6
      <4> QED BY <4>5, <4>6
    <3> QED BY <2>1, <2>3, <3>1, <3>2 DEF ProgressOK
  <2> QED BY <2>1, <2>2, <2>3
<1>3. CASE PlanRules
  <2>1. pc = "plan" /\ pc' = "rules" /\ UNCHANGED <<disk, prov, effective>>
    BY <1>3 DEF PlanRules
  <2>2. plan' \in Policies /\ plan'.prov = prov
    BY <1>3, PlanFacts
  <2> QED BY <2>1, <2>2 DEF ProgressOK
<1>4. CASE InstallRules
  BY <1>4, ProgressRules
<1>5. CASE InstallPhase4 \/ InstallModel \/ RecordManifest
  BY <1>5, ProgressStages
<1>6. CASE SyncNavigation
  <2> DEFINE c == [disk["config"] EXCEPT !.nav = disk["policy"].nav]
  <2>1. /\ pc = "sync" /\ UNCHANGED <<manager, prov, effective, plan, installs>>
        /\ disk' = IF disk["config"].prov = disk["policy"].prov
                   THEN [disk EXCEPT !["config"] = c] ELSE disk
        /\ pc' = IF disk["config"].prov = disk["policy"].prov THEN "block" ELSE "undo"
    BY <1>6 DEF SyncNavigation
  <2>2. CASE pc' = "undo"
    BY <2>2, ProgressEarly
  <2>3. CASE pc' = "block"
    <3>1. disk' = [disk EXCEPT !["config"] = c]
      BY <2>1, <2>3
    <3>2. disk["config"] \in Configs /\ disk["policy"] = plan /\ plan.nav \in Ids
      BY <2>1, PlanTyped DEF ProgressOK
    <3>3. c \in Configs /\ c.prov = disk["config"].prov /\ c.nav = plan.nav
      BY <3>2 DEF Configs
    <3> HIDE DEF c
    <3>4. /\ disk'["config"] = c /\ disk'["key"] = disk["key"]
          /\ disk'["rules"] = disk["rules"] /\ disk'["policy"] = disk["policy"]
          /\ disk'["code"] = disk["code"]
      BY <3>1, WriteKeeps, ManagedFiles, TypeParts
    <3> QED BY <2>1, <2>3, <3>3, <3>4 DEF ProgressOK
  <2> QED BY <2>1, <2>2, <2>3
<1>7. CASE RestartManager
  <2>1. /\ UNCHANGED <<disk, prov, effective, plan, installs>> /\ manager' = Loaded(disk)
        /\ \/ pc = "disable_restart" /\ pc' = "prepare"
           \/ pc = "rules_restart" /\ pc' = "phase4"
           \/ pc = "phase4_restart" /\ pc' = "ml"
           \/ pc = "ml_restart" /\ pc' = "verify"
    BY <1>7 DEF RestartManager, Restart
  <2>2. CASE pc' = "prepare"
    BY <2>2, ProgressEarly
  <2>3. CASE pc = "rules_restart" /\ pc' = "phase4"
    BY <2>1, <2>3 DEF ProgressOK
  <2>4. CASE pc = "phase4_restart" /\ pc' = "ml"
    BY <2>1, <2>4 DEF ProgressOK
  <2>5. CASE pc = "ml_restart" /\ pc' = "verify"
    BY <2>1, <2>5 DEF ProgressOK
  <2> QED BY <2>1, <2>2, <2>3, <2>4, <2>5
<1>8. CASE Verify
  <2>1. pc = "verify" /\ pc' \in {"manifest", "remove"}
        /\ UNCHANGED <<disk, manager, prov, effective, plan, installs>>
    BY <1>8 DEF Verify
  <2>2. CASE pc' = "remove"
    BY <2>2, ProgressEarly
  <2>3. CASE pc' = "manifest"
    BY <2>1, <2>3 DEF ProgressOK
  <2> QED BY <2>1, <2>2, <2>3
<1> QED BY <1>1, <1>2, <1>3, <1>4, <1>5, <1>6, <1>7, <1>8 DEF ForwardStep

LEMMA ProgressStep == ASSUME TypeOK, RunOK, ProgressOK, [Next]_vars PROVE ProgressOK'
<1>1. CASE ForwardStep
  BY <1>1, ProgressForward
<1>2. CASE Begin \/ FailureStep \/ LoopStep \/ Ending
  <2>1. pc' \in {"disable_rules", "prepare", "undo", "undo_restart", "remove", "restore", "reload",
                 "idle"}
    BY <1>2, BeginFacts, FailureMoves, LoopMoves DEF Ending, Commit, Kill, RollbackRestart, Forget
  <2>2. pc' \notin FromPlan
    BY <2>1 DEF FromVerify, FromMlRestart, FromMlConfig, FromRestart, FromBlock, FromSync,
                FromConfig, FromOldRules, FromPolicy, FromRules, FromPlan
  <2> QED BY <2>2, ProgressEarly
<1>3. CASE Outside
  <2>1. /\ UNCHANGED <<pc, prov, effective, plan, installs>>
        /\ \A f \in Files \ {"cache"} : disk'[f] = disk[f]
        /\ manager' = manager \/ manager' = Loaded(disk)
    BY <1>3, OutsideMoves, TypeParts, DiskHolds
  <2>2. /\ disk'["ossec"] = disk["ossec"] /\ disk'["rules"] = disk["rules"]
        /\ disk'["policy"] = disk["policy"] /\ disk'["config"] = disk["config"]
        /\ disk'["manifest"] = disk["manifest"] /\ disk'["key"] = disk["key"]
        /\ disk'["model"] = disk["model"] /\ disk'["code"] = disk["code"]
    BY <2>1, ManagedFiles
  <2>3. Loaded(disk') = Loaded(disk)
    BY <2>2, LoadedSame
  <2>4. pc \in FromVerify => manager' = Loaded(disk')
    BY <2>1, <2>3 DEF ProgressOK
  <2> QED BY <2>1, <2>2, <2>4 DEF ProgressOK
<1> QED BY <1>1, <1>2, <1>3, StepKinds

-----------------------------------------------------------------------------
(* The rollback.                                                           *)

\* What is back stays back while nothing but a call is counted.
LEMMA BackOutside ==
  ASSUME TypeOK, Outside, NEW f \in Files, Back(f)
  PROVE  Back(f)'
<1>1. /\ snap' = snap /\ \A g \in Files \ {"cache"} : disk'[g] = disk[g]
      /\ disk'["cache"] \in 0..MaxCalls /\ disk'["cache"] >= disk["cache"]
  BY OutsideMoves, TypeParts, DiskHolds
<1>2. disk["cache"] \in 0..MaxCalls /\ snap["cache"] \in 0..MaxCalls /\ MaxCalls \in Nat
  BY TypeParts, DiskHolds, BoundsAssumption DEF RestOK
<1>3. CASE f = "cache"
  <2> DEFINE a == disk["cache"]
             b == disk'["cache"]
             c == snap["cache"]
  <2>1. a \in Nat /\ b \in Nat /\ c \in Nat /\ b >= a /\ a >= c
    BY <1>1, <1>2, <1>3 DEF Back
  <2> HIDE DEF a, b, c
  <2>2. b >= c
    BY <2>1
  <2> QED BY <1>1, <1>3, <2>2 DEF Back, b, c
<1>4. CASE f # "cache"
  BY <1>1, <1>4 DEF Back
<1> QED BY <1>3, <1>4

\* A file of another place of the loop is left alone.
LEMMA BackElsewhere ==
  ASSUME TypeOK, NEW v, disk' = [disk EXCEPT ![managed[at]] = v], snap' = snap,
         NEW i \in 1..10, i # at, Back(managed[i])
  PROVE  Back(managed[i])'
<1>1. at \in 1..10
  BY ManagedFiles DEF TypeOK
<1>2. managed[i] \in Files /\ managed[at] \in Files /\ managed[i] # managed[at]
  BY <1>1, ManagedOnce
<1>3. disk'[managed[i]] = disk[managed[i]]
  BY <1>2, WriteFacts, TypeParts
<1> QED BY <1>3 DEF Back

LEMMA RollbackLoop == ASSUME TypeOK, RollbackOK, LoopStep PROVE RollbackOK'
<1>1. at \in 1..10 /\ at \in Nat /\ snap' = snap
  BY ManagedFiles, LoopMoves DEF TypeOK
<1>2. \A i \in 1..at - 1 : i \in 1..10 /\ i # at /\ Back(managed[i])
  <2>1. \A i \in 1..at - 1 : Back(managed[i])
    BY LoopMoves DEF RollbackOK
  <2> QED BY <1>1, <2>1
<1>3. CASE RollbackRemove
  <2>1. pc' = "restore" /\ at' = at
    BY <1>3 DEF RollbackRemove
  <2>2. \E v : disk' = [disk EXCEPT ![managed[at]] = v]
    BY <1>3 DEF RollbackRemove
  <2>3. \A i \in 1..at - 1 : Back(managed[i])'
    BY <1>1, <1>2, <2>2, BackElsewhere
  <2> QED BY <2>1, <2>3 DEF RollbackOK
<1>4. CASE RollbackRestore
  <2>1. disk' = [disk EXCEPT ![managed[at]] = snap[managed[at]]]
    BY <1>4 DEF RollbackRestore
  <2>2. \A i \in 1..at - 1 : Back(managed[i])'
    BY <1>1, <1>2, <2>1, BackElsewhere
  <2>3. ASSUME NEW i \in 1..10, i = at PROVE Back(managed[i])'
    <3>1. managed[i] \in Files
      BY ManagedOnce
    <3>2. disk'[managed[i]] = snap[managed[i]]
      BY <2>1, <2>3, <3>1, WriteFacts, TypeParts
    <3>3. snap["cache"] \in 0..MaxCalls
      BY TypeParts, DiskHolds DEF RestOK
    <3>4. snap["cache"] >= snap["cache"]
      BY <3>3
    <3> QED BY <1>1, <3>2, <3>4 DEF Back
  <2>4. \A i \in 1..at : Back(managed[i])'
    <3>1. \A i \in 1..at : i \in 1..10 /\ (i = at \/ i \in 1..at - 1)
      BY <1>1
    <3> QED BY <2>2, <2>3, <3>1
  <2>5. CASE at = 10
    <3>1. pc' = "reload"
      BY <1>4, <2>5, ManagedFiles DEF RollbackRestore
    <3>2. \A f \in Files : Back(f)'
      BY <2>4, <2>5, ManagedOnce
    <3> QED BY <3>1, <3>2 DEF RollbackOK
  <2>6. CASE at # 10
    <3>1. pc' = "remove" /\ at' = at + 1
      BY <1>4, <2>6, ManagedFiles DEF RollbackRestore
    <3>2. 1..at' - 1 = 1..at
      BY <1>1, <3>1
    <3> QED BY <2>4, <3>1, <3>2 DEF RollbackOK
  <2> QED BY <2>5, <2>6
<1> QED BY <1>3, <1>4 DEF LoopStep

LEMMA RollbackStep == ASSUME TypeOK, RunOK, RollbackOK, [Next]_vars PROVE RollbackOK'
<1>1. CASE LoopStep
  BY <1>1, RollbackLoop
<1>2. CASE ForwardStep \/ FailureStep
  <2>1. at' = at /\ pc \notin {"remove", "restore"} /\ pc' \notin {"restore", "reload"}
    BY <1>2, ForwardMoves, FailureMoves DEF Forward
  <2>2. at' = 1
    BY <2>1 DEF RunOK
  <2>3. 1..at' - 1 = {}
    BY <2>2
  <2> QED BY <2>1, <2>3 DEF RollbackOK
<1>3. CASE Begin \/ Ending
  <2>1. pc' \in {"disable_rules", "prepare", "idle"}
    BY <1>3, BeginFacts DEF Ending, Commit, Kill, RollbackRestart, Forget
  <2> QED BY <2>1 DEF RollbackOK
<1>4. CASE Outside
  <2>1. pc' = pc /\ at' = at
    BY <1>4, OutsideMoves, TypeParts, DiskHolds
  <2>2. \A f \in Files : Back(f) => Back(f)'
    BY <1>4, BackOutside
  <2>3. at \in 1..10
    BY ManagedFiles DEF TypeOK
  <2>4. \A i \in 1..at - 1 : managed[i] \in Files
    BY <2>3, ManagedOnce
  <2> QED BY <2>1, <2>2, <2>4 DEF RollbackOK
<1> QED BY <1>1, <1>2, <1>3, <1>4, StepKinds

\* When the loop has ended every file is back, and the manager has loaded them or is down.
LEMMA FailedStep ==
  ASSUME TypeOK, RunOK, RollbackOK, FailedInstallRestores, [Next]_vars
  PROVE  FailedInstallRestores'
<1>1. CASE RollbackRestart
  <2>1. UNCHANGED <<disk, snap>> /\ manager' \in {Down, Loaded(disk)} /\ \A f \in Files : Back(f)
    BY <1>1 DEF RollbackRestart, RollbackOK
  <2>2. \A f \in Files \ {"cache"} : disk'[f] = snap'[f]
    BY <2>1 DEF Back
  <2>3. disk'["cache"] >= snap'["cache"]
    BY <2>1, ManagedFiles DEF Back
  <2>4. manager'.up => manager' = Loaded(disk')
    BY <2>1 DEF Down
  <2> QED BY <2>2, <2>3, <2>4 DEF FailedInstallRestores
<1>2. CASE Begin \/ ForwardStep \/ FailureStep \/ LoopStep \/ Commit \/ Kill
  <2>1. outcome' # "failed"
    <3>1. CASE Begin \/ Commit \/ Kill
      BY <3>1, BeginFacts DEF Commit, Kill
    <3>2. CASE ForwardStep \/ FailureStep \/ LoopStep
      <4>1. outcome' = outcome /\ pc # "idle"
        BY <3>2, ForwardMoves, FailureMoves, LoopMoves DEF Forward
      <4> QED BY <4>1 DEF RunOK
    <3> QED BY <1>2, <3>1, <3>2
  <2> QED BY <2>1 DEF FailedInstallRestores
<1>3. CASE Outside /\ outcome = "failed"
  <2>1. /\ snap' = snap /\ \A f \in Files \ {"cache"} : disk'[f] = disk[f]
        /\ manager' = manager \/ manager' = Loaded(disk)
    BY <1>3, OutsideMoves, TypeParts, DiskHolds
  <2>2. Back("cache")'
    <3>1. Back("cache")
      BY <1>3 DEF FailedInstallRestores, Back
    <3> QED BY <1>3, <3>1, BackOutside, ManagedFiles
  <2>3. \A f \in Files \ {"cache"} : disk'[f] = snap'[f]
    BY <1>3, <2>1 DEF FailedInstallRestores
  <2>4. Loaded(disk') = Loaded(disk)
    BY <2>1, LoadedSame, ManagedFiles
  <2>5. manager'.up => manager' = Loaded(disk')
    BY <1>3, <2>1, <2>4 DEF FailedInstallRestores
  <2> QED BY <2>2, <2>3, <2>5 DEF FailedInstallRestores, Back
<1>4. CASE Outside /\ outcome # "failed"
  BY <1>4, OutsideMoves, TypeParts, DiskHolds DEF FailedInstallRestores
<1> QED BY <1>1, <1>2, <1>3, <1>4, StepKinds DEF Ending

-----------------------------------------------------------------------------
(* The end of a run that succeeds.                                         *)

LEMMA CommittedStep ==
  ASSUME TypeOK, RunOK, ProgressOK, CommittedAgrees, [Next]_vars
  PROVE  CommittedAgrees'
<1>1. CASE Commit
  <2>1. UNCHANGED <<disk, manager, installs>> /\ pc = "commit"
    BY <1>1 DEF Commit
  <2>2. /\ disk["config"] \in Configs /\ disk["config"].prov = prov /\ disk["config"].ml
        /\ disk["config"].nav = plan.nav /\ plan \in Policies /\ plan.prov = prov
        /\ disk["rules"] = plan /\ disk["policy"] = plan /\ disk["ossec"] = plan.nav
        /\ disk["manifest"] = prov /\ (prov = "google_webrisk" => disk["key"] # None)
        /\ disk["code"] = installs /\ disk["model"] = installs /\ manager = Loaded(disk)
    BY <2>1 DEF ProgressOK, FromVerify, FromMlRestart, FromMlConfig, FromRestart, FromBlock,
                FromSync, FromConfig, FromOldRules, FromPolicy, FromRules, FromPlan
  <2>3. disk["config"] # None
    BY <2>2, NoneIsNothing
  <2>4. plan = [prov |-> disk["config"].prov, nav |-> disk["config"].nav]
    BY <2>2 DEF Policies
  <2> QED BY <2>1, <2>2, <2>3, <2>4 DEF CommittedAgrees
<1>2. CASE Begin \/ ForwardStep \/ FailureStep \/ LoopStep \/ Kill \/ RollbackRestart
  <2>1. outcome' # "committed"
    <3>1. CASE Begin \/ Kill \/ RollbackRestart
      BY <3>1, BeginFacts DEF Kill, RollbackRestart
    <3>2. CASE ForwardStep \/ FailureStep \/ LoopStep
      <4>1. outcome' = outcome /\ pc # "idle"
        BY <3>2, ForwardMoves, FailureMoves, LoopMoves DEF Forward
      <4> QED BY <4>1 DEF RunOK
    <3> QED BY <1>2, <3>1, <3>2
  <2> QED BY <2>1 DEF CommittedAgrees
<1>3. CASE Outside
  <2>1. /\ UNCHANGED <<outcome, installs>> /\ \A f \in Files \ {"cache"} : disk'[f] = disk[f]
        /\ manager' = manager \/ manager' = Loaded(disk)
    BY <1>3, OutsideMoves, TypeParts, DiskHolds
  <2>2. /\ disk'["ossec"] = disk["ossec"] /\ disk'["rules"] = disk["rules"]
        /\ disk'["policy"] = disk["policy"] /\ disk'["config"] = disk["config"]
        /\ disk'["manifest"] = disk["manifest"] /\ disk'["key"] = disk["key"]
        /\ disk'["model"] = disk["model"] /\ disk'["code"] = disk["code"]
    BY <2>1, ManagedFiles
  <2>3. Loaded(disk') = Loaded(disk)
    BY <2>2, LoadedSame
  <2> QED BY <2>1, <2>2, <2>3 DEF CommittedAgrees
<1> QED BY <1>1, <1>2, <1>3, StepKinds DEF Ending

LEMMA CompleteSame ==
  ASSUME NEW d, NEW e, Complete(d),
         e["config"] = d["config"], e["rules"] = d["rules"], e["manifest"] = d["manifest"]
  PROVE  Complete(e)
BY DEF Complete

LEMMA SettledStep ==
  ASSUME TypeOK, RunOK, ProgressOK, RollbackOK, SettledOK, [Next]_vars
  PROVE  SettledOK'
<1>1. foreign' = foreign
  BY BeginFacts, ForwardMoves, FailureMoves, LoopMoves, OutsideMoves, TypeParts, DiskHolds, StepKinds
     DEF Ending, Commit, Kill, RollbackRestart
<1>2. CASE Begin
  BY <1>1, <1>2, BeginFacts DEF SettledOK, Complete
<1>3. CASE ForwardStep \/ FailureStep \/ LoopStep
  <2>1. UNCHANGED <<snap, torn>> /\ pc # "idle" /\ pc' # "idle"
    BY <1>3, ForwardMoves, FailureMoves, LoopMoves DEF Forward
  <2> QED BY <1>1, <2>1 DEF SettledOK, Complete
<1>4. CASE Commit
  <2>1. UNCHANGED <<disk, manager>> /\ pc = "commit" /\ pc' = "idle"
    BY <1>4 DEF Commit, Forget
  <2>2. /\ disk["config"] \in Configs /\ disk["config"].prov = prov
        /\ plan \in Policies /\ plan.prov = prov /\ disk["rules"] = plan
        /\ disk["manifest"] = prov /\ manager = Loaded(disk)
    BY <2>1 DEF ProgressOK, FromVerify, FromMlRestart, FromMlConfig, FromRestart, FromBlock,
                FromSync, FromConfig, FromOldRules, FromPolicy, FromRules, FromPlan
  <2>3. disk["config"] # None /\ plan # None
    BY <2>2, NoneIsNothing
  <2>4. foreign => prov # "google_webrisk"
    BY <2>1 DEF RunOK
  <2>5. Complete(disk)
    BY <2>2, <2>3, <2>4 DEF Complete
  <2> QED BY <1>1, <2>1, <2>2, <2>5 DEF SettledOK, Complete
<1>5. CASE Kill
  BY <1>5 DEF Kill, SettledOK
<1>6. CASE RollbackRestart
  <2>1. /\ UNCHANGED <<disk, snap, torn>> /\ pc = "reload" /\ pc' = "idle"
        /\ manager' \in {Down, Loaded(disk)}
    BY <1>6 DEF RollbackRestart, Forget
  <2>2. disk["config"] = snap["config"] /\ disk["rules"] = snap["rules"]
        /\ disk["manifest"] = snap["manifest"]
    <3>1. \A f \in Files : Back(f)
      BY <2>1 DEF RollbackOK
    <3> QED BY <3>1, ManagedFiles DEF Back
  <2>3. ~torn => Complete(disk)
    BY <2>1, <2>2, CompleteSame DEF SettledOK
  <2> QED BY <1>1, <2>1, <2>3 DEF SettledOK, Complete
<1>7. CASE Outside
  <2>1. /\ UNCHANGED <<pc, snap, torn>> /\ \A f \in Files \ {"cache"} : disk'[f] = disk[f]
        /\ manager' = manager \/ manager' = Loaded(disk)
    BY <1>7, OutsideMoves, TypeParts, DiskHolds
  <2>2. /\ disk'["ossec"] = disk["ossec"] /\ disk'["rules"] = disk["rules"]
        /\ disk'["config"] = disk["config"] /\ disk'["manifest"] = disk["manifest"]
    BY <2>1, ManagedFiles
  <2>3. Loaded(disk') = Loaded(disk)
    BY <2>2, LoadedSame
  <2> QED BY <1>1, <2>1, <2>2, <2>3 DEF SettledOK, Complete, Down
<1> QED BY <1>2, <1>3, <1>4, <1>5, <1>6, <1>7, StepKinds DEF Ending

-----------------------------------------------------------------------------
(* Whose rules answer.                                                     *)

\* A change of the files that keeps to provider p, and a restart that loads what was there.
LEMMA StillSpeaks ==
  ASSUME NEW d, IsDisk(d), NEW e, NEW m, NEW p, Speaks(d, m, p), Installed(e, p)
  PROVE  Speaks(e, m, p) /\ Speaks(e, Loaded(d), p)
<1>1. d["rules"] # None => d["rules"].prov = p
  BY DEF Speaks, Installed
<1>2. Loaded(d).rules # None => Loaded(d).rules = d["rules"]
  BY LoadedFacts
<1> QED BY <1>1, <1>2 DEF Speaks

LEMMA StillSilent ==
  ASSUME NEW d, IsDisk(d), NEW e, NEW m, Silent(d, m), e["ossec"] = NoBlock
  PROVE  Silent(e, m) /\ Silent(e, Loaded(d))
BY LoadedFacts DEF Silent

\* A command of a run that goes forward, when it keeps to the run's provider.
LEMMA ProviderNext ==
  ASSUME TypeOK, ProviderOK, prov' = prov, torn' = torn,
         pc \in Forward \ Disabling, pc' \in Forward \ Disabling,
         pc \in BeforeBlock => pc' \in BeforeBlock,
         manager' = manager \/ manager' = Loaded(disk),
         Installed(disk, prov) => Installed(disk', prov),
         disk["ossec"] = NoBlock => disk'["ossec"] = NoBlock
  PROVE  ProviderOK'
<1>1. IsDisk(disk)
  BY TypeParts
<1>2. pc' \notin Disabling
  OBVIOUS
<1>3. CASE torn
  BY <1>3 DEF ProviderOK
<1>4. CASE ~torn /\ Speaks(disk, manager, prov)
  <2>1. Installed(disk', prov)
    BY <1>4 DEF Speaks
  <2>2. Speaks(disk', manager', prov)
    BY <1>1, <1>4, <2>1, StillSpeaks
  <2> QED BY <1>2, <2>2 DEF ProviderOK, Disabling
<1>5. CASE ~torn /\ pc \in BeforeBlock /\ Silent(disk, manager)
  <2>1. disk'["ossec"] = NoBlock
    BY <1>5 DEF Silent
  <2>2. Silent(disk', manager')
    BY <1>1, <1>5, <2>1, StillSilent
  <2> QED BY <1>2, <1>5, <2>2 DEF ProviderOK, Disabling
<1> QED BY <1>3, <1>4, <1>5 DEF ProviderOK

LEMMA ProviderRules == ASSUME TypeOK, ProgressOK, ProviderOK, InstallRules PROVE ProviderOK'
<1> USE DEF Forward, Disabling, BeforeBlock
<1>0. IsDisk(disk) /\ UNCHANGED <<manager, prov, torn>>
  BY TypeParts DEF InstallRules, Write
<1>1. CASE Write("rules", "rules", plan, "policy")
  <2>1. pc = "rules" /\ pc' = "policy" /\ disk' = [disk EXCEPT !["rules"] = plan]
    BY <1>1 DEF Write
  <2>2. plan.prov = prov
    BY <2>1 DEF ProgressOK, FromRules
  <2>3. disk'["rules"] = plan /\ disk'["config"] = disk["config"] /\ disk'["ossec"] = disk["ossec"]
    BY <1>0, <2>1, WriteKeeps, ManagedFiles
  <2>4. Installed(disk, prov) => Installed(disk', prov)
    BY <2>2, <2>3 DEF Installed
  <2> QED BY <1>0, <2>1, <2>3, <2>4, ProviderNext
<1>2. CASE Write("policy", "policy", plan, "old_rules")
  <2>1. pc = "policy" /\ pc' = "old_rules" /\ disk' = [disk EXCEPT !["policy"] = plan]
    BY <1>2 DEF Write
  <2>2. /\ disk'["rules"] = disk["rules"] /\ disk'["config"] = disk["config"]
        /\ disk'["ossec"] = disk["ossec"]
    BY <1>0, <2>1, WriteKeeps, ManagedFiles
  <2>3. Installed(disk, prov) => Installed(disk', prov)
    BY <2>2 DEF Installed
  <2> QED BY <1>0, <2>1, <2>2, <2>3, ProviderNext
<1>3. CASE Write("old_rules", "old_rules", None, "config_nav")
  <2>1. pc = "old_rules" /\ pc' = "config_nav" /\ disk' = [disk EXCEPT !["old_rules"] = None]
    BY <1>3 DEF Write
  <2>2. /\ disk'["rules"] = disk["rules"] /\ disk'["config"] = disk["config"]
        /\ disk'["ossec"] = disk["ossec"]
    BY <1>0, <2>1, WriteKeeps, ManagedFiles
  <2>3. Installed(disk, prov) => Installed(disk', prov)
    BY <2>2 DEF Installed
  <2> QED BY <1>0, <2>1, <2>2, <2>3, ProviderNext
<1>4. CASE Write("config_nav", "config", ConfigWithId, "block_nav")
  <2>1. pc = "config_nav" /\ pc' = "block_nav" /\ disk' = [disk EXCEPT !["config"] = ConfigWithId]
    BY <1>4 DEF Write
  <2>2. ConfigWithId # None => disk["config"] # None /\ ConfigWithId.prov = disk["config"].prov
    <3>1. disk["config"] \in Configs \cup {None}
      BY <1>0, DiskHolds
    <3> QED BY <3>1 DEF ConfigWithId, Configs
  <2> HIDE DEF ConfigWithId
  <2>3. /\ disk'["rules"] = disk["rules"] /\ disk'["config"] = ConfigWithId
        /\ disk'["ossec"] = disk["ossec"]
    BY <1>0, <2>1, WriteKeeps, ManagedFiles
  <2>4. Installed(disk, prov) => Installed(disk', prov)
    BY <2>2, <2>3 DEF Installed
  <2> QED BY <1>0, <2>1, <2>3, <2>4, ProviderNext
<1>5. CASE Write("block_nav", "ossec", BlockWithId, "rules_restart")
  <2>1. pc = "block_nav" /\ pc' = "rules_restart" /\ disk' = [disk EXCEPT !["ossec"] = BlockWithId]
    BY <1>5 DEF Write
  <2>2. disk["ossec"] = NoBlock => BlockWithId = NoBlock
    BY DEF BlockWithId
  <2>3. /\ disk'["rules"] = disk["rules"] /\ disk'["config"] = disk["config"]
        /\ disk'["ossec"] = BlockWithId
    BY <1>0, <2>1, WriteKeeps, ManagedFiles
  <2>4. Installed(disk, prov) => Installed(disk', prov)
    BY <2>3 DEF Installed
  <2> QED BY <1>0, <2>1, <2>2, <2>3, <2>4, ProviderNext
<1> QED BY <1>1, <1>2, <1>3, <1>4, <1>5 DEF InstallRules

LEMMA ProviderStages ==
  ASSUME TypeOK, ProgressOK, ProviderOK, InstallPhase4 \/ InstallModel \/ RecordManifest
  PROVE  ProviderOK'
<1> USE DEF Forward, Disabling, BeforeBlock
<1>0. IsDisk(disk) /\ UNCHANGED <<manager, prov, torn>>
  BY TypeParts DEF InstallPhase4, InstallModel, RecordManifest, Write, Backup
<1>1. ASSUME \/ pc = "phase4" /\ pc' = "code"
             \/ pc = "code" /\ pc' = "config"
             \/ pc = "ml" /\ pc' = "model"
             \/ pc = "model" /\ pc' = "ml_config"
             \/ pc = "manifest" /\ pc' = "commit",
             disk'["rules"] = disk["rules"], disk'["config"] = disk["config"],
             disk'["ossec"] = disk["ossec"]
      PROVE  ProviderOK'
  <2>1. Installed(disk, prov) => Installed(disk', prov)
    BY <1>1 DEF Installed
  <2>2. pc \in Forward \ Disabling /\ pc' \in Forward \ Disabling
        /\ (pc \in BeforeBlock => pc' \in BeforeBlock)
    BY <1>1
  <2> QED BY <1>0, <1>1, <2>1, <2>2, ProviderNext
<1>2. CASE \/ Backup("phase4", {"ossec", "config", "code"}, "code")
           \/ Backup("ml", {"model", "config"}, "model")
  BY <1>1, <1>2 DEF Backup
<1>3. CASE Write("code", "code", installs, "config")
  <2>1. pc = "code" /\ pc' = "config" /\ disk' = [disk EXCEPT !["code"] = installs]
    BY <1>3 DEF Write
  <2> QED BY <1>0, <1>1, <2>1, WriteKeeps, ManagedFiles
<1>4. CASE Write("model", "model", installs, "ml_config")
  <2>1. pc = "model" /\ pc' = "ml_config" /\ disk' = [disk EXCEPT !["model"] = installs]
    BY <1>4 DEF Write
  <2> QED BY <1>0, <1>1, <2>1, WriteKeeps, ManagedFiles
<1>5. CASE RecordManifest
  <2>1. pc = "manifest" /\ pc' = "commit" /\ disk' = [disk EXCEPT !["manifest"] = prov]
    BY <1>5 DEF RecordManifest, Write
  <2> QED BY <1>0, <1>1, <2>1, WriteKeeps, ManagedFiles
<1>6. CASE Write("config", "config", effective, "sync")
  <2>1. pc = "config" /\ pc' = "sync" /\ disk' = [disk EXCEPT !["config"] = effective]
    BY <1>6 DEF Write
  <2>2. effective.prov = prov
    BY <2>1 DEF ProgressOK, FromPlan, FromRules, FromPolicy, FromOldRules, FromConfig
  <2>3. /\ disk'["rules"] = disk["rules"] /\ disk'["config"] = effective
        /\ disk'["ossec"] = disk["ossec"]
    BY <1>0, <2>1, WriteKeeps, ManagedFiles
  <2>4. Installed(disk, prov) => Installed(disk', prov)
    BY <2>2, <2>3 DEF Installed
  <2> QED BY <1>0, <2>1, <2>3, <2>4, ProviderNext
<1>7. CASE Write("block", "ossec", disk["config"].nav, "phase4_restart")
  <2>1. pc = "block" /\ pc' = "phase4_restart"
        /\ disk' = [disk EXCEPT !["ossec"] = disk["config"].nav]
    BY <1>7 DEF Write
  <2>2. disk["config"].prov = prov /\ disk["rules"] = plan /\ plan.prov = prov
    BY <2>1 DEF ProgressOK, FromSync, FromBlock, FromConfig, FromOldRules, FromPolicy, FromRules
  <2>3. disk'["rules"] = disk["rules"] /\ disk'["config"] = disk["config"]
    BY <1>0, <2>1, WriteKeeps, ManagedFiles
  <2>4. Installed(disk', prov)
    BY <2>2, <2>3 DEF Installed
  <2>5. ~torn => Speaks(disk, manager, prov) \/ Silent(disk, manager)
    BY <2>1 DEF ProviderOK
  <2>6. ~torn => Speaks(disk', manager, prov)
    BY <2>4, <2>5 DEF Speaks, Silent
  <2> QED BY <1>0, <2>1, <2>6 DEF ProviderOK
<1>8. CASE Write("ml_config", "config", [disk["config"] EXCEPT !.ml = TRUE], "ml_restart")
  <2> DEFINE c == [disk["config"] EXCEPT !.ml = TRUE]
  <2>1. pc = "ml_config" /\ pc' = "ml_restart" /\ disk' = [disk EXCEPT !["config"] = c]
    BY <1>8 DEF Write
  <2>2. disk["config"] \in Configs /\ disk["config"].prov = prov
    BY <2>1 DEF ProgressOK, FromSync, FromBlock, FromRestart, FromMlConfig
  <2>3. c.prov = prov
    BY <2>2 DEF Configs
  <2> HIDE DEF c
  <2>4. disk'["rules"] = disk["rules"] /\ disk'["config"] = c /\ disk'["ossec"] = disk["ossec"]
    BY <1>0, <2>1, WriteKeeps, ManagedFiles
  <2>5. Installed(disk, prov) => Installed(disk', prov)
    BY <2>3, <2>4 DEF Installed
  <2> QED BY <1>0, <2>1, <2>4, <2>5, ProviderNext
<1> QED BY <1>2, <1>3, <1>4, <1>5, <1>6, <1>7, <1>8 DEF InstallPhase4, InstallModel

LEMMA ProviderForward ==
  ASSUME TypeOK, RunOK, ProgressOK, ProviderOK, ForwardStep
  PROVE  ProviderOK'
<1> USE DEF Forward, Disabling, BeforeBlock
<1>0. IsDisk(disk) /\ UNCHANGED <<prov, torn, snap>>
  BY TypeParts, ForwardMoves
<1>1. CASE pc' \in {"undo", "remove"}
  BY <1>1 DEF ProviderOK
<1>2. CASE DisableRules
  <2>1. /\ pc = "disable_rules" /\ pc' = "disable_block" /\ manager' = manager
        /\ disk' = [f \in Files |-> IF f \in {"rules", "old_rules", "policy"} THEN None ELSE disk[f]]
    BY <1>2 DEF DisableRules
  <2>2. disk'["rules"] = None /\ disk'["config"] = disk["config"]
    BY <2>1, ManagedFiles
  <2> QED BY <1>0, <2>1, <2>2 DEF ProviderOK, Speaks, Installed
<1>3. CASE DisableBlock
  <2>1. /\ pc = "disable_block" /\ pc' = "disable_restart" /\ manager' = manager
        /\ disk' = [disk EXCEPT !["ossec"] = NoBlock]
    BY <1>3 DEF DisableBlock, Write
  <2>2. disk'["rules"] = disk["rules"] /\ disk'["config"] = disk["config"]
        /\ disk'["ossec"] = NoBlock
    BY <1>0, <2>1, WriteKeeps, ManagedFiles
  <2> QED BY <1>0, <2>1, <2>2 DEF ProviderOK, Speaks, Installed
<1>4. CASE PrepareConfig /\ pc' = "plan"
  <2>1. pc = "prepare" /\ manager' = manager
        /\ (disk' = disk \/ disk' = [disk EXCEPT !["key"] = installs])
    BY <1>4 DEF PrepareConfig
  <2>2. disk'["rules"] = disk["rules"] /\ disk'["config"] = disk["config"]
        /\ disk'["ossec"] = disk["ossec"]
    BY <1>0, <2>1, WriteKeeps, ManagedFiles
  <2>3. Installed(disk, prov) => Installed(disk', prov)
    BY <2>2 DEF Installed
  <2> QED BY <1>0, <1>4, <2>1, <2>2, <2>3, ProviderNext
<1>5. CASE PlanRules
  <2>1. pc = "plan" /\ pc' = "rules" /\ UNCHANGED <<disk, manager>>
    BY <1>5 DEF PlanRules
  <2> QED BY <1>0, <2>1, ProviderNext
<1>6. CASE InstallRules
  BY <1>6, ProviderRules
<1>7. CASE InstallPhase4 \/ InstallModel \/ RecordManifest
  BY <1>7, ProviderStages
<1>8. CASE SyncNavigation /\ pc' = "block"
  <2> DEFINE c == [disk["config"] EXCEPT !.nav = disk["policy"].nav]
  <2>1. pc = "sync" /\ manager' = manager /\ disk' = [disk EXCEPT !["config"] = c]
    BY <1>8 DEF SyncNavigation
  <2>2. disk["config"] \in Configs /\ disk["config"].prov = prov
    BY <2>1 DEF ProgressOK, FromSync
  <2>3. c.prov = prov
    BY <2>2 DEF Configs
  <2> HIDE DEF c
  <2>4. disk'["rules"] = disk["rules"] /\ disk'["config"] = c /\ disk'["ossec"] = disk["ossec"]
    BY <1>0, <2>1, WriteKeeps, ManagedFiles
  <2>5. Installed(disk, prov) => Installed(disk', prov)
    BY <2>3, <2>4 DEF Installed
  <2> QED BY <1>0, <1>8, <2>1, <2>4, <2>5, ProviderNext
<1>9. CASE RestartManager
  <2>1. disk' = disk /\ manager' = Loaded(disk)
    BY <1>9 DEF RestartManager, Restart
  <2>2. CASE pc = "disable_restart" /\ pc' = "prepare"
    <3>1. ~torn => disk["ossec"] = NoBlock
      BY <2>2 DEF ProviderOK
    <3>2. ~torn => Silent(disk', manager')
      BY <1>0, <2>1, <3>1, LoadedFacts DEF Silent
    <3> QED BY <1>0, <2>2, <3>2 DEF ProviderOK
  <2>3. CASE \/ pc = "rules_restart" /\ pc' = "phase4"
             \/ pc = "phase4_restart" /\ pc' = "ml"
             \/ pc = "ml_restart" /\ pc' = "verify"
    <3>1. pc \in Forward \ Disabling /\ pc' \in Forward \ Disabling
          /\ (pc \in BeforeBlock => pc' \in BeforeBlock)
      BY <2>3
    <3> QED BY <1>0, <2>1, <3>1, ProviderNext
  <2> QED BY <1>9, <2>2, <2>3 DEF RestartManager, Restart
<1>10. CASE Verify /\ pc' = "manifest"
  <2>1. pc = "verify" /\ UNCHANGED <<disk, manager>>
    BY <1>10 DEF Verify
  <2> QED BY <1>0, <1>10, <2>1, ProviderNext
<1>11. /\ PrepareConfig => pc' \in {"plan", "remove"}
       /\ SyncNavigation => pc' \in {"block", "undo"}
       /\ Verify => pc' \in {"manifest", "remove"}
  <2>1. PrepareConfig => pc' \in {"plan", "remove"}
    BY DEF PrepareConfig
  <2>2. SyncNavigation => pc' \in {"block", "undo"}
    BY DEF SyncNavigation
  <2>3. Verify => pc' \in {"manifest", "remove"}
    BY DEF Verify
  <2> QED BY <2>1, <2>2, <2>3
<1> QED BY <1>1, <1>2, <1>3, <1>4, <1>5, <1>6, <1>7, <1>8, <1>9, <1>10, <1>11 DEF ForwardStep

\* A run begins on a complete installation: of its own provider, or of one it disables first.
LEMMA ProviderBegin == ASSUME TypeOK, SettledOK, Begin PROVE ProviderOK'
<1>1. /\ pc = "idle" /\ pc' \in {"disable_rules", "prepare"} /\ snap' = disk
      /\ pc' = "disable_rules" <=> disk["config"] # None /\ disk["config"].prov # prov'
      /\ UNCHANGED <<disk, manager, torn>>
  BY BeginFacts
<1>2. SUFFICES ASSUME ~torn PROVE ProviderOK'
  BY <1>1 DEF ProviderOK
<1>3. Complete(disk) /\ manager \in {Down, Loaded(disk)} /\ IsDisk(disk)
  BY <1>1, <1>2, TypeParts DEF SettledOK
<1>4. manager.rules = None \/ manager.rules = disk["rules"]
  BY <1>3, LoadedFacts
<1>5. CASE pc' = "disable_rules"
  <2>1. disk["config"] # None /\ Speaks(disk, manager, disk["config"].prov)
    BY <1>1, <1>3, <1>4, <1>5 DEF Complete, Speaks, Installed
  <2> QED BY <1>1, <1>5, <2>1 DEF ProviderOK, Disabling
<1>6. CASE pc' = "prepare"
  <2>1. disk["config"] # None => disk["config"].prov = prov'
    BY <1>1, <1>6
  <2>2. Speaks(disk, manager, prov')
    BY <1>3, <1>4, <2>1 DEF Complete, Speaks, Installed
  <2> QED BY <1>1, <1>6, <2>2 DEF ProviderOK, Disabling
<1> QED BY <1>1, <1>5, <1>6

LEMMA ProviderStep ==
  ASSUME TypeOK, RunOK, ProgressOK, SettledOK, ProviderOK, [Next]_vars
  PROVE  ProviderOK'
<1>1. CASE Begin
  BY <1>1, ProviderBegin
<1>2. CASE ForwardStep
  BY <1>2, ProviderForward
<1>3. CASE FailureStep \/ LoopStep \/ Ending
  <2>1. pc' \in {"undo", "undo_restart", "remove", "restore", "reload", "idle"}
    BY <1>3, FailureMoves, LoopMoves DEF Ending, Commit, Kill, RollbackRestart, Forget
  <2> QED BY <2>1 DEF ProviderOK, Forward, Disabling
<1>4. CASE Outside
  <2>1. /\ UNCHANGED <<pc, snap, torn, prov>> /\ \A f \in Files \ {"cache"} : disk'[f] = disk[f]
        /\ manager' = manager \/ manager' = Loaded(disk)
    BY <1>4, OutsideMoves, TypeParts, DiskHolds
  <2>2. /\ disk'["ossec"] = disk["ossec"] /\ disk'["rules"] = disk["rules"]
        /\ disk'["config"] = disk["config"] /\ IsDisk(disk)
    BY <2>1, ManagedFiles, TypeParts
  <2>3. \A p : Installed(disk, p) => Installed(disk', p)
    BY <2>2 DEF Installed
  <2>4. \A p : Speaks(disk, manager, p) => Speaks(disk', manager', p)
    <3>1. ASSUME NEW p, Speaks(disk, manager, p) PROVE Speaks(disk', manager', p)
      <4>1. Installed(disk', p)
        BY <2>3, <3>1 DEF Speaks
      <4> QED BY <2>1, <2>2, <3>1, <4>1, StillSpeaks
    <3> QED BY <3>1
  <2>5. Silent(disk, manager) => Silent(disk', manager')
    <3>1. ASSUME Silent(disk, manager) PROVE Silent(disk', manager')
      <4>1. disk'["ossec"] = NoBlock
        BY <2>2, <3>1 DEF Silent
      <4> QED BY <2>1, <2>2, <3>1, <4>1, StillSilent
    <3> QED BY <3>1
  <2> QED BY <2>1, <2>2, <2>4, <2>5 DEF ProviderOK
<1> QED BY <1>1, <1>2, <1>3, <1>4, StepKinds

-----------------------------------------------------------------------------
(* The theorems.                                                           *)

LEMMA InitInv == ASSUME Init PROVE IInv
<1>1. TypeOK
  BY InitType
<1>2. /\ pc = "idle" /\ outcome = "none" /\ at = 1 /\ manager = Loaded(disk)
      /\ disk["config"] = None /\ disk["rules"] = None /\ disk["manifest"] = None
  BY ManagedFiles DEF Init
<1>3. RunOK /\ RollbackOK /\ SettledOK /\ FailedInstallRestores /\ CommittedAgrees
  BY <1>2 DEF RunOK, RollbackOK, SettledOK, Complete, FailedInstallRestores, CommittedAgrees
<1>4. ProgressOK
  BY <1>2 DEF ProgressOK, FromVerify, FromMlRestart, FromMlConfig, FromRestart, FromBlock,
              FromSync, FromConfig, FromOldRules, FromPolicy, FromRules, FromPlan
<1>5. ProviderOK
  BY <1>2 DEF ProviderOK, Forward, Disabling
<1> QED BY <1>1, <1>3, <1>4, <1>5 DEF IInv

LEMMA StepInv == ASSUME IInv, [Next]_vars PROVE IInv'
<1> USE DEF IInv
<1>1. TypeOK'
  BY TypeStep
<1>2. RunOK' /\ ProgressOK'
  BY RunStep, ProgressStep
<1>3. RollbackOK' /\ FailedInstallRestores'
  BY RollbackStep, FailedStep
<1>4. SettledOK' /\ ProviderOK'
  BY SettledStep, ProviderStep
<1>5. CommittedAgrees'
  BY CommittedStep
<1> QED BY <1>1, <1>2, <1>3, <1>4, <1>5

\* A result fires a rule of its own among the rules of its configuration's provider.
LEMMA OwnRule ==
  ASSUME NEW policy, NEW c, policy.prov = c.prov, NEW result \in Results(c)
  PROVE  FiredRule(policy, result) # "classification_base"
<1>1. \/ result = [status |-> "malicious", source |-> c.prov]
      \/ result = [status |-> "error", source |-> "classifier"]
      \/ result \in [status : {"suspicious", "review", "unlikely"}, source : {"ml"}]
      \/ result \in [status : {"not_found", "listed_inactive"}, source : {c.prov}]
  BY DEF Results
<1>2. CASE result = [status |-> "malicious", source |-> c.prov]
  BY <1>2 DEF FiredRule
<1>3. CASE result = [status |-> "error", source |-> "classifier"]
  BY <1>3 DEF FiredRule
<1>4. CASE result \in [status : {"suspicious", "review", "unlikely"}, source : {"ml"}]
  <2>1. \/ result = [status |-> "suspicious", source |-> "ml"]
        \/ result = [status |-> "review", source |-> "ml"]
        \/ result = [status |-> "unlikely", source |-> "ml"]
    BY <1>4
  <2> QED BY <2>1 DEF FiredRule
<1>5. CASE result \in [status : {"not_found", "listed_inactive"}, source : {c.prov}]
  <2>1. \/ result = [status |-> "not_found", source |-> c.prov]
        \/ result = [status |-> "listed_inactive", source |-> c.prov]
    BY <1>5
  <2> QED BY <2>1 DEF FiredRule
<1> QED BY <1>1, <1>2, <1>3, <1>4, <1>5

LEMMA ServesOne == ASSUME IInv PROVE OneProviderServing
<1> SUFFICES ASSUME Serving, pc \notin Rollback, ~torn
             PROVE  /\ \A result \in Results(disk["config"]) :
                          FiredRule(manager.rules, result) # "classification_base"
                    /\ foreign => manager.rules.prov # "google_webrisk"
  BY DEF OneProviderServing
<1> USE DEF IInv
<1>1. manager.block # NoBlock /\ manager.rules # None /\ disk["config"] # None /\ manager.up
  BY DEF Serving
<1>2. pc = "idle" \/ pc \in Forward
  BY TypeParts DEF States
<1>3. manager.rules.prov = disk["config"].prov /\ (foreign => disk["config"].prov # "google_webrisk")
  <2>1. CASE pc = "idle"
    <3>1. Complete(disk) /\ manager = Loaded(disk)
      BY <1>1, <2>1 DEF SettledOK, Down
    <3>2. manager.rules = disk["rules"]
      BY <1>1, <3>1, LoadedFacts, TypeParts
    <3> QED BY <1>1, <3>1, <3>2 DEF Complete
  <2>2. CASE pc \in Forward \ Disabling
    <3>1. Speaks(disk, manager, prov)
      BY <1>1, <2>2 DEF ProviderOK, Silent
    <3>2. foreign => prov # "google_webrisk"
      BY <2>2 DEF RunOK, Forward
    <3> QED BY <1>1, <3>1, <3>2 DEF Speaks, Installed
  <2>3. CASE pc \in Disabling
    <3>1. snap["config"] # None /\ Speaks(disk, manager, snap["config"].prov)
      BY <2>3 DEF ProviderOK
    <3>2. Complete(snap)
      BY <2>3 DEF SettledOK, Disabling
    <3> QED BY <1>1, <3>1, <3>2 DEF Speaks, Installed, Complete
  <2> QED BY <1>2, <2>1, <2>2, <2>3
<1>4. \A result \in Results(disk["config"]) :
          FiredRule(manager.rules, result) # "classification_base"
  BY <1>3, OwnRule
<1> QED BY <1>3, <1>4

LEMMA Retains == ASSUME IInv PROVE RetainsProvider
<1> SUFFICES ASSUME pc = "commit", request.prov = None, ~torn, snap["manifest"] # None
             PROVE  prov = snap["manifest"]
  BY DEF RetainsProvider
<1>1. Complete(snap)
  BY DEF IInv, SettledOK
<1>2. snap["config"] # None /\ snap["manifest"] = snap["config"].prov
  BY <1>1 DEF Complete
<1> QED BY <1>2 DEF IInv, RunOK

\* Every reachable state satisfies the inductive invariant: types, the progress of a run, that
\* of its rollback, and whose rules can answer an alert (install-wazuh-server.sh).
THEOREM InductiveInvariant == Spec => []IInv
<1>1. IInv /\ [Next]_vars => IInv'
  BY StepInv
<1> QED BY InitInv, <1>1, PTL DEF Spec

\* Every file holds what its readers can read, and the rollback stays within the list of managed
\* files (install-wazuh-server.sh:300).
THEOREM TypeCorrect == Spec => []TypeOK
BY InductiveInvariant, PTL DEF IInv

\* After any failing command or trapped signal, in any stage, every managed file is as it was and
\* a running manager has loaded them (install-wazuh-server.sh:293-321, wazuh-server/README.md:137).
THEOREM FailureRestores == Spec => []FailedInstallRestores
BY InductiveInvariant, PTL DEF IInv

\* A run that ends well leaves everything in agreement, whatever a run killed before it had left
\* (install-wazuh-server.sh:446).
THEOREM CommitAgrees == Spec => []CommittedAgrees
BY InductiveInvariant, PTL DEF IInv

\* Whatever is served, during a switch of providers too, is answered by rules of its provider,
\* and Web Risk never next to an unmanaged PhishTank (wazuh-server/README.md:114).
THEOREM ProvidersNeverMixed == Spec => []OneProviderServing
BY InductiveInvariant, ServesOne, PTL

\* A run without a provider option is about to commit the provider of the last complete run
\* (google-web-risk-integration-plan.md:467).
THEOREM ProviderIsRetained == Spec => []RetainsProvider
BY InductiveInvariant, Retains, PTL

===============================================================================
