--------------------------- MODULE ServerInstaller ---------------------------
(***************************************************************************)
(* wazuh-server/install-wazuh-server.sh and the three installers it runs:  *)
(* configure-rules.py --install, install-phase4.sh --config and            *)
(* install-ml-model.py.  The outer script snapshots the managed files,     *)
(* removes the old provider when it changes, runs the stages and records a *)
(* deployment manifest; each stage restores its own backup when it fails,  *)
(* and the outer script then restores the snapshot.  The Wazuh manager     *)
(* keeps serving all the while: it holds the rules and the integration     *)
(* block of its last restart, and every classification it starts reads the *)
(* configuration that is on disk at that moment.                           *)
(***************************************************************************)
EXTENDS Naturals, Sequences

CONSTANTS
  Ids,          \* rule identifiers a configuration may choose for navigations
  None,         \* a file that does not exist, an option that is not given
  Requests,     \* bound: the command lines that are tried
  OtherRestarts, \* whether others restart the manager too
  MaxInstalls,  \* bound: runs of the installer
  MaxFailures,  \* bound: failing commands and trapped signals
  MaxKills,     \* bound: ends of the installer that no trap sees
  MaxCalls      \* bound: Web Risk calls counted in the cache database

Providers == {"phishtank", "google_webrisk"}

\* 0 is ossec.conf without the managed block, and the navigation_rule_id of
\* the configuration the repository ships, which no pipeline rule has.
NoBlock == 0

\* The order of managed in the script; the files one stage writes together
\* are one entry.
managed == <<"ossec", "old_rules", "rules", "policy", "config", "manifest",
             "key", "cache", "model", "code">>

Files == {managed[i] : i \in DOMAIN managed}

Policies == [prov : Providers, nav : Ids]
Configs  == [prov : Providers, nav : Ids \cup {NoBlock}, ml : BOOLEAN]

ASSUME IdsAssumption == Ids \subseteq Nat \ {0}
ASSUME NoneAssumption == None \notin Nat \cup Providers \cup {"phase3"} \cup Policies \cup Configs
ASSUME BoundsAssumption ==
  /\ MaxInstalls \in Nat /\ MaxFailures \in Nat
  /\ MaxKills \in Nat /\ MaxCalls \in Nat /\ OtherRestarts \in BOOLEAN

VARIABLES
  disk,      \* what each managed file holds; for the cache, the calls counted
  manager,   \* the block and the rules the running manager has loaded
  foreign,   \* an unmanaged PhishTank rule or integration is active
  pc,        \* the next command of the installer, "idle" without one
  request,   \* the options of the run
  prov,      \* reputation_provider
  effective, \* effective_config
  plan,      \* the policy configure-rules.py has computed
  snap,      \* backup_dir/files of the last run
  saved,     \* the backup of the stage that is under way
  at,        \* the file the rollback has reached
  outcome,   \* how the last run ended
  torn,      \* a run was killed, and none was completed since
  installs, failures, kills

vars == <<disk, manager, foreign, pc, request, prov, effective, plan, snap,
          saved, at, outcome, torn, installs, failures, kills>>

options  == <<foreign, request, prov, snap, torn, outcome>>
counters == <<installs, failures, kills>>

Rollback == {"undo", "undo_restart", "remove", "restore", "reload"}
Forward  == {"disable_rules", "disable_block", "disable_restart", "prepare",
             "plan", "rules", "policy", "old_rules", "config_nav",
             "block_nav", "rules_restart", "phase4", "code", "config",
             "sync", "block", "phase4_restart", "ml", "model", "ml_config",
             "ml_restart", "verify", "manifest", "commit"}

NoOptions == [prov |-> None, nav |-> None, key |-> FALSE, config |-> FALSE]
Options   == [prov : Providers \cup {None}, nav : Ids \cup {None},
              key : BOOLEAN, config : BOOLEAN]

ASSUME RequestsAssumption == Requests \subseteq Options

\* No stage is under way.
Nothing == [f \in {} |-> None]

Down == [up |-> FALSE, block |-> NoBlock, rules |-> None]

\* systemctl restart: the manager does not start without ossec.conf.
Loaded(d) ==
  IF d["ossec"] = None THEN Down
  ELSE [up |-> TRUE, block |-> d["ossec"], rules |-> d["rules"]]

Init ==
  /\ \E old \in {None, "phase3"} :
       disk = [f \in Files |-> CASE f = "ossec" -> NoBlock
                                 [] f = "cache" -> 0
                                 [] f = "old_rules" -> old
                                 [] OTHER -> None]
  /\ manager = Loaded(disk)
  /\ foreign \in BOOLEAN
  /\ pc = "idle" /\ outcome = "none" /\ torn = FALSE
  /\ request = NoOptions /\ prov = None /\ effective = None /\ plan = None
  /\ snap = disk /\ saved = Nothing /\ at = 1
  /\ installs = 0 /\ failures = 0 /\ kills = 0

---------------------------------------------------------------------------
(* The stages *)

installed_provider == IF disk["config"] = None THEN None
                      ELSE disk["config"].prov

\* reputation_provider without a look at the installed configuration.
ProviderByDefault(r) == IF r.prov # None THEN r.prov ELSE "phishtank"

\* FirstStep for every provider alike: the new files simply replace the old.
FirstStepAlways(p) == "prepare"

\* Without the option an installation keeps its provider.
reputation_provider(r) ==
  IF r.prov # None THEN r.prov
  ELSE IF installed_provider # None THEN installed_provider
  ELSE "phishtank"

\* Another provider is disabled before anything of the new one is written.
FirstStep(p) ==
  IF installed_provider \notin {None, p} THEN "disable_rules" ELSE "prepare"

\* The checks before the snapshot end the script without a change.
Begin ==
  \E r \in Requests :
    LET p == reputation_provider(r) IN
    /\ pc = "idle" /\ installs < MaxInstalls
    /\ disk["ossec"] # None
    /\ r.key => p = "google_webrisk"
    /\ foreign => p # "google_webrisk"
    /\ request' = r /\ prov' = p
    /\ snap' = disk
    /\ pc' = FirstStep(p)
    /\ outcome' = "running"
    /\ installs' = installs + 1
    /\ UNCHANGED <<disk, manager, foreign, effective, plan, saved, at, torn,
                   failures, kills>>

\* One command that leaves file f with content v.
Write(here, f, v, next) ==
  /\ pc = here
  /\ disk' = [disk EXCEPT ![f] = v]
  /\ pc' = next
  /\ UNCHANGED <<manager, options, effective, plan, saved, at, counters>>

DisableRules ==
  /\ pc = "disable_rules"
  /\ disk' = [f \in Files |-> IF f \in {"rules", "old_rules", "policy"}
                              THEN None ELSE disk[f]]
  /\ pc' = "disable_block"
  /\ UNCHANGED <<manager, options, effective, plan, saved, at, counters>>

DisableBlock == Write("disable_block", "ossec", NoBlock, "disable_restart")

\* The key, and the configuration the second stage will install.
PrepareConfig ==
  LET shipped == [prov |-> prov, nav |-> NoBlock, ml |-> FALSE]
      keyed   == prov = "google_webrisk" /\ request.key
      missing == prov = "google_webrisk" /\ ~request.key /\ disk["key"] = None
  IN
  /\ pc = "prepare"
  /\ disk' = IF keyed THEN [disk EXCEPT !["key"] = installs] ELSE disk
  /\ effective' = IF missing THEN None
                  ELSE IF request.config \/ disk["config"] = None THEN shipped
                  ELSE [disk["config"] EXCEPT !.prov = prov]
  /\ pc' = IF missing THEN "remove" ELSE "plan"
  /\ UNCHANGED <<manager, options, plan, saved, at, counters>>

\* An installed policy keeps its identifiers unless an option or the wizard
\* replaces them; without one they are allocated.
PlanRules ==
  /\ pc = "plan"
  /\ \E n \in IF request.nav # None THEN {request.nav}
              ELSE IF disk["policy"] # None THEN {disk["policy"].nav}
              ELSE Ids :
       plan' = [prov |-> prov, nav |-> n]
  /\ saved' = [f \in {"ossec", "old_rules", "rules", "policy", "config"}
                 |-> disk[f]]
  /\ pc' = "rules"
  /\ UNCHANGED <<disk, manager, options, effective, at, counters>>

\* update_classifier_config and update_integration_rule_id touch what exists.
ConfigWithId == IF disk["config"] = None THEN None
                ELSE [disk["config"] EXCEPT !.nav = plan.nav]
BlockWithId  == IF disk["ossec"] = NoBlock THEN NoBlock ELSE plan.nav

InstallRules ==
  \/ Write("rules", "rules", plan, "policy")
  \/ Write("policy", "policy", plan, "old_rules")
  \/ Write("old_rules", "old_rules", None, "config_nav")
  \/ Write("config_nav", "config", ConfigWithId, "block_nav")
  \/ Write("block_nav", "ossec", BlockWithId, "rules_restart")

\* The backup of a stage, before its first write.
Backup(here, files, next) ==
  /\ pc = here
  /\ saved' = [f \in files |-> disk[f]]
  /\ pc' = next
  /\ UNCHANGED <<disk, manager, options, effective, plan, at, counters>>

InstallPhase4 ==
  \/ Backup("phase4", {"ossec", "config", "code"}, "code")
  \/ Write("code", "code", installs, "config")
  \/ Write("config", "config", effective, "sync")
  \/ Write("block", "ossec", disk["config"].nav, "phase4_restart")

\* SyncNavigation that leaves the configuration its identifier.
SyncNothing ==
  /\ pc = "sync"
  /\ pc' = IF disk["config"].prov = disk["policy"].prov THEN "block" ELSE "undo"
  /\ UNCHANGED <<disk, manager, options, effective, plan, saved, at, counters>>

\* The configuration follows the identifiers of the rule policy.
SyncNavigation ==
  LET agrees == disk["config"].prov = disk["policy"].prov IN
  /\ pc = "sync"
  /\ disk' = IF agrees
             THEN [disk EXCEPT !["config"].nav = disk["policy"].nav]
             ELSE disk
  /\ pc' = IF agrees THEN "block" ELSE "undo"
  /\ UNCHANGED <<manager, options, effective, plan, saved, at, counters>>

InstallModel ==
  \/ Backup("ml", {"model", "config"}, "model")
  \/ Write("model", "model", installs, "ml_config")
  \/ Write("ml_config", "config", [disk["config"] EXCEPT !.ml = TRUE],
           "ml_restart")

\* Validate, restart, is-active and logtest, and the end of the stage.
Restart(here, next) ==
  /\ pc = here
  /\ manager' = Loaded(disk)
  /\ saved' = Nothing
  /\ pc' = next
  /\ UNCHANGED <<disk, options, effective, plan, at, counters>>

RestartManager ==
  \/ Restart("disable_restart", "prepare")
  \/ Restart("rules_restart", "phase4")
  \/ Restart("phase4_restart", "ml")
  \/ Restart("ml_restart", "verify")

\* The last two stages read: the ML check, and the audit of the provider in
\* the configuration, the policy and the rules.
Verify ==
  /\ pc = "verify"
  /\ pc' = IF /\ disk["config"].prov = prov
              /\ disk["policy"].prov = prov
              /\ disk["rules"].prov = prov
           THEN "manifest" ELSE "remove"
  /\ UNCHANGED <<disk, manager, options, effective, plan, saved, at, counters>>

RecordManifest == Write("manifest", "manifest", prov, "commit")

\* The run is over: what it worked with is forgotten.
Forget == /\ pc' = "idle" /\ request' = NoOptions /\ prov' = None
          /\ effective' = None /\ plan' = None /\ saved' = Nothing /\ at' = 1

Commit ==
  /\ pc = "commit"
  /\ Forget
  /\ outcome' = "committed" /\ torn' = FALSE
  /\ UNCHANGED <<disk, manager, foreign, snap, counters>>

---------------------------------------------------------------------------
(* Failures *)

\* A command fails, before it changes anything that counts: the stage that
\* has a backup restores it, and the script then restores the snapshot.
Fail ==
  /\ pc \in Forward /\ failures < MaxFailures
  /\ pc' = IF saved = Nothing THEN "remove" ELSE "undo"
  /\ failures' = failures + 1
  /\ UNCHANGED <<disk, manager, options, effective, plan, saved, at,
                 installs, kills>>

\* The restart itself fails, or a test after it.
RestartFails ==
  /\ pc \in {"disable_restart", "rules_restart", "phase4_restart",
             "ml_restart"}
  /\ failures < MaxFailures
  /\ manager' \in {Down, Loaded(disk)}
  /\ pc' = IF saved = Nothing THEN "remove" ELSE "undo"
  /\ failures' = failures + 1
  /\ UNCHANGED <<disk, options, effective, plan, saved, at, installs,
                 kills>>

\* INT and TERM end the stage without its rollback, and run the script's.
Signal ==
  /\ pc \in Forward \cup {"undo", "undo_restart"} /\ failures < MaxFailures
  /\ pc' = "remove" /\ saved' = Nothing
  /\ failures' = failures + 1
  /\ UNCHANGED <<disk, manager, options, effective, plan, at, installs,
                 kills>>

\* HUP and KILL, a second signal once the traps are reset, a power failure.
Kill ==
  /\ pc # "idle" /\ kills < MaxKills
  /\ Forget
  /\ outcome' = "killed" /\ torn' = TRUE
  /\ kills' = kills + 1
  /\ UNCHANGED <<disk, manager, foreign, snap, installs, failures>>

\* The stage puts its own backup back and restarts the manager.
Undo ==
  /\ pc = "undo"
  /\ disk' = [f \in Files |-> IF f \in DOMAIN saved THEN saved[f] ELSE disk[f]]
  /\ saved' = Nothing
  /\ pc' = "undo_restart"
  /\ UNCHANGED <<manager, options, effective, plan, at, counters>>

UndoRestart ==
  /\ pc = "undo_restart"
  /\ manager' \in {Down, Loaded(disk)}
  /\ pc' = "remove"
  /\ UNCHANGED <<disk, options, effective, plan, saved, at, counters>>

\* rollback of the outer script, one file after the other.
RollbackRemove ==
  /\ pc = "remove"
  /\ disk' = [disk EXCEPT ![managed[at]] = IF managed[at] = "cache" THEN 0
                                           ELSE None]
  /\ pc' = "restore"
  /\ UNCHANGED <<manager, options, effective, plan, saved, at, counters>>

\* RollbackRestore whose loop ends one file too early.
RollbackRestoreShort ==
  /\ pc = "restore"
  /\ disk' = [disk EXCEPT ![managed[at]] = snap[managed[at]]]
  /\ pc' = IF at + 1 = Len(managed) THEN "reload" ELSE "remove"
  /\ at' = IF at + 1 = Len(managed) THEN 1 ELSE at + 1
  /\ UNCHANGED <<manager, options, effective, plan, saved, counters>>

\* RollbackRestore whose loop goes on after the last file.
RollbackRestorePast ==
  /\ pc = "restore"
  /\ disk' = [disk EXCEPT ![managed[at]] = snap[managed[at]]]
  /\ pc' = IF at > Len(managed) THEN "reload" ELSE "remove"
  /\ at' = at + 1
  /\ UNCHANGED <<manager, options, effective, plan, saved, counters>>

RollbackRestore ==
  /\ pc = "restore"
  /\ disk' = [disk EXCEPT ![managed[at]] = snap[managed[at]]]
  /\ pc' = IF at = Len(managed) THEN "reload" ELSE "remove"
  /\ at' = IF at = Len(managed) THEN 1 ELSE at + 1
  /\ UNCHANGED <<manager, options, effective, plan, saved, counters>>

RollbackRestart ==
  /\ pc = "reload"
  /\ manager' \in {Down, Loaded(disk)}
  /\ Forget
  /\ outcome' = "failed"
  /\ UNCHANGED <<disk, foreign, snap, torn, counters>>

---------------------------------------------------------------------------
(* The manager at work *)

\* The loaded rules raise the alert the loaded block waits for, and the
\* program that is started accepts it.
Serving ==
  /\ manager.up /\ manager.block # NoBlock
  /\ manager.rules # None /\ manager.rules.nav = manager.block
  /\ disk["code"] # None
  /\ disk["config"] # None /\ disk["config"].nav = manager.block

\* What classify_navigation and error_result say under configuration c.
Results(c) ==
  {[status |-> "malicious", source |-> c.prov],
   [status |-> "error", source |-> "classifier"]}
    \cup IF c.ml
         THEN [status : {"suspicious", "review", "unlikely"}, source : {"ml"}]
         ELSE [status : {"not_found", "listed_inactive"}, source : {c.prov}]

\* The rule of the generated policy that a result fires, by its two fields;
\* the classification base is its parent and of level 0.
FiredRule(policy, result) ==
  CASE result = [status |-> "malicious", source |-> policy.prov] -> "phishtank"
    [] result = [status |-> "suspicious", source |-> "ml"]       -> "ml"
    [] result = [status |-> "review", source |-> "ml"]           -> "review"
    [] result.status = "error"                                   -> "error"
    [] result.status \in {"not_found", "listed_inactive", "unlikely"}
                                                                 -> "negative"
    [] OTHER                                         -> "classification_base"

\* reserve_request: a lookup is counted in the cache database.
Classify ==
  /\ Serving /\ disk["config"].prov = "google_webrisk" /\ disk["key"] # None
  /\ disk["cache"] < MaxCalls
  /\ disk' = [disk EXCEPT !["cache"] = @ + 1]
  /\ UNCHANGED <<manager, options, pc, effective, plan, saved, at, counters>>

\* An administrator or a reboot restarts the manager at any time.
ManagerRestart ==
  /\ OtherRestarts
  /\ manager' = Loaded(disk)
  /\ UNCHANGED <<disk, options, pc, effective, plan, saved, at, counters>>

Next ==
  \/ Begin \/ DisableRules \/ DisableBlock \/ PrepareConfig \/ PlanRules
  \/ InstallRules \/ InstallPhase4 \/ SyncNavigation \/ InstallModel
  \/ RestartManager \/ Verify \/ RecordManifest \/ Commit
  \/ Fail \/ RestartFails \/ Signal \/ Kill
  \/ Undo \/ UndoRestart
  \/ RollbackRemove \/ RollbackRestore \/ RollbackRestart
  \/ Classify \/ ManagerRestart

Spec == Init /\ [][Next]_vars

---------------------------------------------------------------------------
(* Properties *)

Contents(f) ==
  CASE f = "ossec"              -> Ids \cup {NoBlock, None}
    [] f = "old_rules"          -> {"phase3", None}
    [] f \in {"rules", "policy"} -> Policies \cup {None}
    [] f = "config"             -> Configs \cup {None}
    [] f = "manifest"           -> Providers \cup {None}
    [] f = "cache"              -> 0..MaxCalls
    [] OTHER                    -> 1..MaxInstalls \cup {None}

IsDisk(d) == DOMAIN d = Files /\ \A f \in Files : d[f] \in Contents(f)

\* Every file holds what its readers can read, and the rollback never walks
\* past the last managed file (install-wazuh-server.sh:300).
TypeOK ==
  /\ IsDisk(disk) /\ IsDisk(snap)
  /\ DOMAIN saved \subseteq Files
  /\ \A f \in DOMAIN saved : saved[f] \in Contents(f)
  /\ manager \in [up : BOOLEAN, block : Ids \cup {NoBlock},
                  rules : Policies \cup {None}]
  /\ foreign \in BOOLEAN /\ torn \in BOOLEAN
  /\ pc \in Forward \cup Rollback \cup {"idle"}
  /\ request \in Options
  /\ prov \in Providers \cup {None}
  /\ effective \in Configs \cup {None}
  /\ plan \in Policies \cup {None}
  /\ at \in DOMAIN managed
  /\ outcome \in {"none", "running", "committed", "failed", "killed"}
  /\ installs \in 0..MaxInstalls
  /\ failures \in 0..MaxFailures /\ kills \in 0..MaxKills

\* "Failure restores the pre-installation state" (wazuh-server/README.md:137):
\* after any failing command or trapped signal, in any stage and after that
\* stage's own rollback, every managed file is as it was, and a manager that
\* runs has loaded what is on disk.  Only the cache may have moved on.
FailedInstallRestores ==
  outcome = "failed" =>
    /\ \A f \in Files \ {"cache"} : disk[f] = snap[f]
    /\ disk["cache"] >= snap["cache"]
    /\ manager.up => manager = Loaded(disk)

\* A run that ends well leaves configuration, policy, rules, block, manifest
\* and manager in agreement on one provider and one navigation rule, with its
\* own modules and model, whatever an earlier run that was killed at any
\* command had left (install-wazuh-server.sh:446).
CommittedAgrees ==
  outcome = "committed" =>
    LET c == disk["config"] IN
    /\ c # None /\ c.ml
    /\ disk["policy"] = [prov |-> c.prov, nav |-> c.nav]
    /\ disk["rules"] = disk["policy"]
    /\ disk["ossec"] = c.nav
    /\ disk["manifest"] = c.prov
    /\ c.prov = "google_webrisk" => disk["key"] # None
    /\ disk["code"] = installs /\ disk["model"] = installs
    /\ manager = Loaded(disk)

\* "PhishTank and Google Web Risk are never active together" (wazuh-server/
\* README.md:114): while an install or a switch goes forward, and between
\* runs, whatever a classification that can start will say fires a rule of
\* its own among those the manager has loaded, a confirmed match that of its
\* provider, and Web Risk is not served next to an unmanaged PhishTank.  A
\* rollback, and a run that was killed, are the exceptions.
OneProviderServing ==
  Serving /\ pc \notin Rollback /\ ~torn =>
    /\ \A result \in Results(disk["config"]) :
         FiredRule(manager.rules, result) # "classification_base"
    /\ foreign => manager.rules.prov # "google_webrisk"

\* "Rerunning without provider options preserves the current provider"
\* (docs/google-web-risk-integration-plan.md:467): what is about to be
\* committed is the provider of the last complete run, failed runs between
\* them or not.
RetainsProvider ==
  pc = "commit" /\ request.prov = None /\ ~torn /\ snap["manifest"] # None =>
    prov = snap["manifest"]
===============================================================================
