------------------------ MODULE ModelInstaller_proofs ------------------------
(***************************************************************************)
(* That a failed installation of a model restores what was there, and that *)
(* a score nothing disturbed is one of a complete installation.            *)
(*                                                                         *)
(* A failing run can restore because, at every step, what it has changed   *)
(* is exactly the artifacts of its own mode that its loop has passed       *)
(* (FilesOK) and its copies are those of the files it began with (RunOK).  *)
(* A score can rely on the files because what a run began with, and what   *)
(* it leaves, is an installation whose files and thresholds fit together   *)
(* (DiskOK), and a process no run disturbed has seen no other (ProcsOK).   *)
(***************************************************************************)
EXTENDS ModelInstaller, TLAPS

Files == [Artifacts -> Versions \cup {Torn}]
Configs == {<<>>} \cup {<<s>> : s \in Settings}
Runs == [mode : Modes, settings : Settings, override : Scores \cup {Unset}, review : Scores,
         snapshot : Files, next : {1, 2}]
Jobs == [settings : Settings, scaler : Versions, model : Versions,
         result : Statuses \cup {"none", "error"}, disturbed : BOOLEAN]
PcStates == {"idle", "scaler", "model", "result"}
Outcomes == {"none", "installed", "failed", "cut"}

-----------------------------------------------------------------------------
(* The inductive invariant.                                                *)

BundlesOK == bundles \in Seq(Scores) /\ Len(bundles) \in 0..MaxRuns

InstallerOK ==
    /\ file \in Files /\ settings \in Configs
    /\ at \in Steps
    /\ run \in Runs /\ (run.mode = "modern" => run.next = 1)
    /\ failures \in 0..MaxFailures /\ cuts \in 0..MaxCuts /\ scorings \in 0..MaxScorings
    /\ before \in Files \X Configs /\ outcome \in Outcomes /\ cut \in BOOLEAN

\* A threshold of a model and the settings' own make bands that are in order.
FitsModern(s, bundle) == Ordered(s.review, score_url(s.threshold, bundle))
FitsLegacy(s) == Ordered(s.review, score_legacy_url(s.threshold))

\* The files are those of complete installations, and what is enabled can be used.
Sound(f, c, b) ==
    /\ c # <<>>
    /\ c[1].enabled /\ c[1].mode = "modern" =>
        f["bundle"] \in 1..Len(b) /\ FitsModern(c[1], b[f["bundle"]])
    /\ c[1].enabled /\ c[1].mode = "legacy_svr" =>
        f["svr"] = f["scaler"] /\ f["svr"] \in 1..Len(b) /\ FitsLegacy(c[1])

\* The artifacts of the run's mode, and those of them its loop has passed.
Own == IF run.mode = "modern" THEN {"bundle"} ELSE {"svr", "scaler"}
Passed == IF run.next = 1 THEN {} ELSE {"svr"}

\* The run knows what it began with, and brings a model that its settings fit.
RunOK ==
    at # "idle" =>
        /\ outcome = "none"
        /\ before[2] = <<run.settings>>
        /\ at # "backup" => run.snapshot = before[1]
        /\ Len(bundles) # 0
        /\ run.mode = "modern" => FitsModern(updated_config, bundles[Len(bundles)])
        /\ run.mode = "legacy_svr" => FitsLegacy(updated_config)

\* How far the run has changed the files.
FilesOK ==
    /\ at = "backup" => file = before[1] /\ run.next = 1
    /\ at \in {"backup", "artifacts", "settings"} => settings = before[2]
    /\ at = "artifacts" =>
        \A a \in Artifacts : file[a] = IF a \in Passed THEN Len(bundles) ELSE before[1][a]
    /\ at \in {"settings", "check"} =>
        \A a \in Artifacts : file[a] = IF a \in Own THEN Len(bundles) ELSE before[1][a]
    /\ at = "check" => settings = <<updated_config>>
    /\ at \in {"undo", "undoing"} =>
        \A a \in Artifacts : a \notin Own \/ a \in Passed => file[a] = before[1][a]
    /\ at \in {"restore", "restoring"} => file = before[1]
    /\ outcome = "failed" => file = before[1] /\ settings = before[2]

DiskOK ==
    ~cut => IF at = "idle" THEN Sound(file, settings, bundles)
                           ELSE Sound(before[1], before[2], bundles)

\* What a process that no run has disturbed has loaded is what is installed.
Undisturbed(j, place) ==
    ~j.disturbed /\ place # "idle" =>
        /\ at = "idle"
        /\ ~cut =>
            /\ settings[1].enabled /\ j.settings = settings[1]
            /\ place = "scaler" => j.settings.mode = "legacy_svr"
            /\ place = "model" /\ j.settings.mode = "legacy_svr" => j.scaler = file["scaler"]
            /\ place = "result" =>
                /\ j.result # "error"
                /\ j.settings.mode = "legacy_svr" => j.scaler = j.model

ProcsOK ==
    /\ pc \in [Procs -> PcStates] /\ job \in [Procs -> Jobs]
    /\ \A p \in Procs : Undisturbed(job[p], pc[p])

IInv == BundlesOK /\ InstallerOK /\ RunOK /\ FilesOK /\ DiskOK /\ ProcsOK

-----------------------------------------------------------------------------
(* The installer's loops.                                                  *)

\* The artifact a loop is at, and where it goes after it.
Current == managed(run.mode)[run.next]

LEMMA CurrentArtifact ==
    ASSUME InstallerOK
    PROVE  /\ run.mode \in Modes /\ run.next \in {1, 2} /\ (run.mode = "modern" => run.next = 1)
           /\ run.mode = "modern" => Current = "bundle"
           /\ run.mode = "legacy_svr" /\ run.next = 1 => Current = "svr"
           /\ run.mode = "legacy_svr" /\ run.next = 2 => Current = "scaler"
           /\ Current \in Artifacts
BY DEF InstallerOK, Runs, Modes, Current, managed, Artifacts

LEMMA Loop ==
    ASSUME InstallerOK, NEW again, NEW done, Advance(again, done)
    PROVE  \/ /\ run.mode = "legacy_svr" /\ run.next = 1
              /\ at' = again /\ run' = [run EXCEPT !.next = 2]
           \/ /\ run.mode = "modern" \/ run.next = 2
              /\ at' = done /\ run' = [run EXCEPT !.next = 1]
<1>1. run.mode \in Modes /\ run.next \in {1, 2} /\ (run.mode = "modern" => run.next = 1)
    BY CurrentArtifact
<1>2. Len(managed(run.mode)) = IF run.mode = "modern" THEN 1 ELSE 2
    BY DEF managed
<1>3. CASE run.mode = "modern"
    BY <1>1, <1>2, <1>3 DEF Advance
<1>4. CASE run.mode = "legacy_svr" /\ run.next = 1
    BY <1>2, <1>4 DEF Advance
<1>5. CASE run.mode = "legacy_svr" /\ run.next = 2
    BY <1>2, <1>5 DEF Advance
<1> QED
    BY <1>1, <1>3, <1>4, <1>5 DEF Modes

\* A step of a loop keeps the type of what it counts.
LEMMA LoopTyped ==
    ASSUME InstallerOK, NEW again \in Steps, NEW done \in Steps, Advance(again, done)
    PROVE  /\ at' \in Steps /\ run' \in Runs /\ (run'.mode = "modern" => run'.next = 1)
           /\ run'.mode = run.mode /\ run'.settings = run.settings
           /\ run'.override = run.override /\ run'.review = run.review
           /\ run'.snapshot = run.snapshot
<1>1. run \in Runs /\ (run.mode = "modern" => run.next = 1)
    BY DEF InstallerOK
<1>2. CASE run.mode = "legacy_svr" /\ at' = again /\ run' = [run EXCEPT !.next = 2]
    BY <1>1, <1>2 DEF Runs
<1>3. CASE at' = done /\ run' = [run EXCEPT !.next = 1]
    BY <1>1, <1>3 DEF Runs
<1> QED
    BY Loop, <1>2, <1>3

\* The processes leave the files and the installer alone.
Scoring(p) ==
    LoadSettings(p) \/ LoadScaler(p) \/ Score(p) \/ Report(p) \/ NextSample(p)

LEMMA ScoringLeaves ==
    ASSUME scorings \in 0..MaxScorings, NEW p \in Procs, Scoring(p)
    PROVE  /\ UNCHANGED <<file, settings, bundles, at, run, failures, cuts, before, outcome, cut>>
           /\ scorings' \in 0..MaxScorings
<1>1. MaxScorings \in Nat
    BY InstallerBounds
<1> QED
    BY <1>1 DEF Scoring, LoadSettings, LoadScaler, Score, Report, NextSample, disk, installer, past

-----------------------------------------------------------------------------
(* Types.                                                                  *)

LEMMA Constants ==
    /\ MaxRuns \in Nat /\ MaxFailures \in Nat /\ MaxCuts \in Nat /\ MaxScorings \in Nat
    /\ Top \in Nat \ {0} /\ LegacyThreshold \in Scores /\ DefaultReview \in Scores
BY InstallerBounds, ScoringAssumption DEF Scores

LEMMA NoRunTyped == NoRun \in Runs /\ NoRun.mode = "modern" /\ NoRun.next = 1
<1>1. NoSettings \in Settings
    BY Constants DEF NoSettings, Settings, Modes, Scores
<1>2. [a \in Artifacts |-> Absent] \in Files
    BY Constants DEF Files, Versions, Absent
<1> QED
    BY <1>1, <1>2, Constants DEF NoRun, Runs, Modes, Scores

LEMMA Written ==
    ASSUME InstallerOK PROVE updated_config \in Settings
BY DEF InstallerOK, Runs, updated_config, Settings

LEMMA BundlesTyped ==
    ASSUME BundlesOK, [Next]_vars PROVE BundlesOK'
<1>1. ASSUME NEW bundle \in Scores, Len(bundles) < MaxRuns, bundles' = Append(bundles, bundle)
      PROVE  BundlesOK'
    BY <1>1, Constants DEF BundlesOK
<1>2. CASE UNCHANGED bundles
    BY <1>2 DEF BundlesOK
<1>3. Install => BundlesOK'
    BY <1>1 DEF Install, Begin
<1>4. Install \/ UNCHANGED bundles
    BY DEF Next, vars, installer, Backup, ReplaceArtifact, WriteSettings, Complete, Fail, Undo,
           UndoArtifact, FinishArtifact, RestoreSettings, FinishSettings, CutOff,
           LoadSettings, LoadScaler, Score, Report, NextSample
<1> QED
    BY <1>2, <1>3, <1>4

LEMMA InstallerTyped ==
    ASSUME InstallerOK, BundlesOK, [Next]_vars PROVE InstallerOK'
<1> USE DEF InstallerOK
<1>u. CASE UNCHANGED vars
    BY <1>u DEF vars, disk, installer, past, scoring
<1>p. ASSUME NEW p \in Procs, Scoring(p) PROVE InstallerOK'
    BY <1>p, ScoringLeaves
<1>f. \A a \in Artifacts, c \in Versions \cup {Torn} : Put(a, c) => file' \in Files
    BY DEF Put, Files
<1>1. ASSUME NEW mode \in Modes, NEW override \in Scores \cup {Unset},
             NEW review \in Scores \cup {Unset}, NEW bundle \in Scores,
             Begin(mode, override, review, bundle)
      PROVE  InstallerOK'
    <2>1. settings[1] \in Settings
        BY <1>1 DEF Begin, Readable, Configs
    <2>2. ReviewFor(review) \in Scores
        BY <2>1 DEF ReviewFor, Settings
    <2>3. run' \in Runs /\ run'.next = 1
        BY <1>1, <2>1, <2>2, NoRunTyped DEF Begin, Runs
    <2>4. before' \in Files \X Configs
        BY <1>1 DEF Begin, disk
    <2>5. UNCHANGED <<file, settings, failures, cuts, cut, scorings>> /\ at' = "backup"
          /\ outcome' = "none"
        BY <1>1 DEF Begin, disk
    <2> QED
        BY <2>3, <2>4, <2>5 DEF Steps, Outcomes
<1>2. CASE Backup
    <2>1. run' \in Runs /\ run'.mode = run.mode /\ run'.next = run.next
        BY <1>2 DEF Backup, Runs
    <2>2. UNCHANGED <<file, settings, scorings, failures, cuts, before, outcome, cut>>
          /\ at' = "artifacts"
        BY <1>2 DEF Backup, disk, scoring, past
    <2> QED
        BY <2>1, <2>2 DEF Steps
<1>3. CASE ReplaceArtifact
    <2>1. Len(bundles) \in Versions /\ Current \in Artifacts
        BY CurrentArtifact DEF BundlesOK, Versions, Absent
    <2>2. file' \in Files
        BY <1>3, <1>f, <2>1 DEF ReplaceArtifact, Current
    <2>3. UNCHANGED <<settings, scorings, failures, cuts, before, outcome, cut>>
        BY <1>3 DEF ReplaceArtifact, scoring, past
    <2>4. at' \in Steps /\ run' \in Runs /\ (run'.mode = "modern" => run'.next = 1)
        <3>1. Advance("artifacts", "settings") /\ "artifacts" \in Steps /\ "settings" \in Steps
            BY <1>3 DEF ReplaceArtifact, Steps
        <3> QED
            BY <3>1, LoopTyped
    <2> QED
        BY <2>2, <2>3, <2>4
<1>4. CASE WriteSettings
    <2>1. settings' \in Configs
        BY <1>4, Written DEF WriteSettings, Configs
    <2> QED
        BY <1>4, <2>1 DEF WriteSettings, scoring, past, Steps
<1>5. CASE Complete
    BY <1>5, NoRunTyped DEF Complete, disk, scoring, Steps, Outcomes
<1>6. CASE Fail
    <2>1. run' \in Runs /\ run'.next = 1
        BY <1>6 DEF Fail, Runs
    <2>2. failures' \in 0..MaxFailures
        BY <1>6, Constants DEF Fail
    <2>3. UNCHANGED <<file, settings, scorings, cuts, before, outcome, cut>> /\ at' = "undo"
        BY <1>6 DEF Fail, disk, scoring, past
    <2> QED
        BY <2>1, <2>2, <2>3 DEF Steps
<1>7. CASE UndoArtifact
    <2>1. Current \in Artifacts /\ Absent \in Versions
        BY CurrentArtifact, Constants DEF Versions, Absent
    <2>2. file' \in Files
        <3>1. Put(Current, Absent) \/ Put(Current, Torn)
            BY <1>7 DEF UndoArtifact, Current
        <3> QED
            BY <3>1, <2>1, <1>f
    <2>3. UNCHANGED <<settings, scorings, failures, cuts, before, outcome, cut>>
        BY <1>7 DEF UndoArtifact, scoring, past
    <2>4. at' \in Steps /\ run' \in Runs /\ (run'.mode = "modern" => run'.next = 1)
        <3>1. Advance("undo", "restore") \/ (at' = "undoing" /\ UNCHANGED run)
            BY <1>7 DEF UndoArtifact
        <3>2. "undo" \in Steps /\ "undoing" \in Steps /\ "restore" \in Steps
            BY DEF Steps
        <3> QED
            BY <3>1, <3>2, LoopTyped
    <2> QED
        BY <2>2, <2>3, <2>4
<1>8. CASE FinishArtifact
    <2>1. Current \in Artifacts /\ run.snapshot[Current] \in Versions \cup {Torn}
        BY CurrentArtifact DEF Runs, Files
    <2>2. file' \in Files
        <3>1. Put(Current, run.snapshot[Current])
            BY <1>8 DEF FinishArtifact, Current
        <3> QED
            BY <3>1, <2>1, <1>f
    <2>3. UNCHANGED <<settings, scorings, failures, cuts, before, outcome, cut>>
        BY <1>8 DEF FinishArtifact, scoring, past
    <2>4. at' \in Steps /\ run' \in Runs /\ (run'.mode = "modern" => run'.next = 1)
        <3>1. Advance("undo", "restore") /\ "undo" \in Steps /\ "restore" \in Steps
            BY <1>8 DEF FinishArtifact, Steps
        <3> QED
            BY <3>1, LoopTyped
    <2> QED
        BY <2>2, <2>3, <2>4
<1>9. CASE RestoreSettings
    BY <1>9 DEF RestoreSettings, scoring, past, Steps, Configs
<1>10. CASE FinishSettings
    <2>1. settings' \in Configs
        BY <1>10 DEF FinishSettings, Configs, Runs
    <2> QED
        BY <1>10, <2>1, NoRunTyped DEF FinishSettings, scoring, Steps, Outcomes
<1>11. CASE CutOff
    <2>1. cuts' \in 0..MaxCuts
        BY <1>11, Constants DEF CutOff
    <2> QED
        BY <1>11, <2>1, NoRunTyped DEF CutOff, disk, scoring, Steps, Outcomes
<1> QED
    BY <1>u, <1>p, <1>1, <1>2, <1>3, <1>4, <1>5, <1>6, <1>7, <1>8, <1>9, <1>10, <1>11
    DEF Next, Install, Undo, Scoring

-----------------------------------------------------------------------------
(* What the run knows, and how far it has changed the files.               *)

\* What an installer's step keeps of the run and of the files it began with.
KeepsRun ==
    /\ UNCHANGED <<bundles, before, outcome>>
    /\ run'.mode = run.mode /\ run'.settings = run.settings /\ run'.override = run.override
    /\ run'.review = run.review /\ run'.snapshot = run.snapshot

LEMMA RunKept ==
    ASSUME RunOK, at \notin {"idle", "backup"}, KeepsRun PROVE RunOK'
<1>1. updated_config' = updated_config
    BY DEF updated_config, KeepsRun
<1> QED
    BY <1>1 DEF RunOK, KeepsRun

LEMMA RunStep ==
    ASSUME BundlesOK, InstallerOK, RunOK, FilesOK, [Next]_vars PROVE RunOK'
<1>k. CASE UNCHANGED <<bundles, at, run, before, outcome>>
    <2>1. updated_config' = updated_config
        BY <1>k DEF updated_config
    <2> QED
        BY <1>k, <2>1 DEF RunOK
<1>i. CASE at' = "idle"
    BY <1>i DEF RunOK
<1>u. CASE UNCHANGED vars
    BY <1>u, <1>k DEF vars, installer, past
<1>p. ASSUME NEW p \in Procs, Scoring(p) PROVE RunOK'
    BY <1>p, <1>k, ScoringLeaves DEF InstallerOK
<1>1. ASSUME NEW mode \in Modes, NEW override \in Scores \cup {Unset},
             NEW review \in Scores \cup {Unset}, NEW bundle \in Scores,
             Begin(mode, override, review, bundle)
      PROVE  RunOK'
    <2>1. at' = "backup" /\ outcome' = "none" /\ before' = <<file, settings>>
        BY <1>1 DEF Begin, disk
    <2>2. run'.settings = settings[1] /\ run'.mode = mode /\ run'.override = override
          /\ run'.review = ReviewFor(review)
        BY <1>1 DEF Begin, NoRun
    <2>3. before'[2] = <<run'.settings>>
        BY <1>1, <2>1, <2>2 DEF Begin, Readable, InstallerOK, Configs
    <2>4. Len(bundles') # 0 /\ bundles'[Len(bundles')] = bundle
        BY <1>1 DEF Begin, BundlesOK
    <2>5. Ordered(ReviewFor(review), Effective(mode, override, bundle))
        BY <1>1 DEF Begin, Validated
    <2>6. updated_config'.review = ReviewFor(review) /\ updated_config'.threshold = override
        BY <2>2 DEF updated_config
    <2>7. mode = "modern" => FitsModern(updated_config, bundles[Len(bundles)])'
        BY <2>4, <2>5, <2>6 DEF Effective, FitsModern
    <2>8. mode = "legacy_svr" => FitsLegacy(updated_config)'
        BY <2>5, <2>6 DEF Effective, FitsLegacy
    <2> QED
        BY <2>1, <2>2, <2>3, <2>4, <2>7, <2>8 DEF RunOK
<1>2. CASE Backup
    <2>1. /\ UNCHANGED <<bundles, before, outcome>> /\ at = "backup" /\ at' = "artifacts"
          /\ run' = [run EXCEPT !.snapshot = file]
        BY <1>2 DEF Backup, past
    <2>2. run'.mode = run.mode /\ run'.settings = run.settings /\ run'.snapshot = file
          /\ run'.override = run.override /\ run'.review = run.review
        BY <2>1 DEF InstallerOK, Runs
    <2>3. updated_config' = updated_config
        BY <2>2 DEF updated_config
    <2> QED
        BY <2>1, <2>2, <2>3 DEF RunOK, FilesOK
<1>l. ASSUME NEW again \in Steps, NEW done \in Steps, Advance(again, done),
             UNCHANGED <<bundles, before, outcome>>
      PROVE  KeepsRun
    BY <1>l, LoopTyped DEF KeepsRun
<1>3. CASE ReplaceArtifact
    <2>1. Advance("artifacts", "settings") /\ at = "artifacts"
          /\ UNCHANGED <<bundles, before, outcome>>
        BY <1>3 DEF ReplaceArtifact, past
    <2> QED
        BY <2>1, <1>l, RunKept DEF Steps
<1>4. CASE WriteSettings
    BY <1>4, RunKept DEF WriteSettings, KeepsRun, past
<1>6. CASE Fail
    <2>1. /\ UNCHANGED <<bundles, before, outcome>> /\ at \in {"artifacts", "settings", "check"}
          /\ run' = [run EXCEPT !.next = 1]
        BY <1>6 DEF Fail, past
    <2>2. KeepsRun
        BY <2>1 DEF KeepsRun, InstallerOK, Runs
    <2> QED
        BY <2>1, <2>2, RunKept
<1>7. CASE UndoArtifact
    <2>1. at = "undo" /\ UNCHANGED <<bundles, before, outcome>>
        BY <1>7 DEF UndoArtifact, past
    <2>2. Advance("undo", "restore") \/ UNCHANGED run
        BY <1>7 DEF UndoArtifact
    <2>3. KeepsRun
        BY <2>1, <2>2, <1>l DEF KeepsRun, Steps
    <2> QED
        BY <2>1, <2>3, RunKept
<1>8. CASE FinishArtifact
    <2>1. Advance("undo", "restore") /\ at = "undoing"
          /\ UNCHANGED <<bundles, before, outcome>>
        BY <1>8 DEF FinishArtifact, past
    <2> QED
        BY <2>1, <1>l, RunKept DEF Steps
<1>9. CASE RestoreSettings
    BY <1>9, RunKept DEF RestoreSettings, KeepsRun, past
<1>10. CASE Complete \/ FinishSettings \/ CutOff
    BY <1>10, <1>i DEF Complete, FinishSettings, CutOff
<1> QED
    BY <1>u, <1>p, <1>1, <1>2, <1>3, <1>4, <1>6, <1>7, <1>8, <1>9, <1>10
    DEF Next, Install, Undo, Scoring

\* A file after one of the artifacts is put in place.
LEMMA Placed ==
    ASSUME InstallerOK, NEW a \in Artifacts, NEW content, Put(a, content), NEW b \in Artifacts
    PROVE  file'[b] = IF b = a THEN content ELSE file[b]
BY DEF InstallerOK, Put, Files

LEMMA FilesStep ==
    ASSUME BundlesOK, InstallerOK, RunOK, FilesOK, [Next]_vars PROVE FilesOK'
<1>n. at # "idle" => outcome = "none"
    BY DEF RunOK
<1>k. CASE UNCHANGED <<file, settings, bundles, at, run, before, outcome>>
    <2>1. updated_config' = updated_config /\ Own' = Own /\ Passed' = Passed
        BY <1>k DEF updated_config, Own, Passed
    <2> QED
        BY <1>k, <2>1 DEF FilesOK
<1>u. CASE UNCHANGED vars
    BY <1>u, <1>k DEF vars, disk, installer, past
<1>p. ASSUME NEW p \in Procs, Scoring(p) PROVE FilesOK'
    BY <1>p, <1>k, ScoringLeaves DEF InstallerOK
<1>a. run.mode \in Modes /\ run.next \in {1, 2} /\ (run.mode = "modern" => run.next = 1)
    BY CurrentArtifact
<1>b. \A a \in Artifacts : a \in {"bundle", "svr", "scaler"}
    BY DEF Artifacts
<1>1. ASSUME NEW mode \in Modes, NEW override \in Scores \cup {Unset},
             NEW review \in Scores \cup {Unset}, NEW bundle \in Scores,
             Begin(mode, override, review, bundle)
      PROVE  FilesOK'
    <2>1. /\ at' = "backup" /\ outcome' = "none" /\ before' = <<file, settings>>
          /\ UNCHANGED <<file, settings>> /\ run'.next = 1
        BY <1>1 DEF Begin, disk, NoRun
    <2> QED
        BY <2>1 DEF FilesOK
<1>2. CASE Backup
    <2>1. /\ UNCHANGED <<file, settings, before, outcome>> /\ at = "backup" /\ at' = "artifacts"
          /\ run'.next = run.next
        BY <1>2 DEF Backup, past, disk, InstallerOK, Runs
    <2>2. file = before[1] /\ settings = before[2] /\ Passed' = {}
        BY <2>1 DEF FilesOK, Passed
    <2> QED
        BY <2>1, <2>2, <1>n DEF FilesOK
<1>3. CASE ReplaceArtifact
    <2>1. /\ at = "artifacts" /\ Put(Current, Len(bundles)) /\ Advance("artifacts", "settings")
          /\ UNCHANGED <<settings, bundles, before, outcome>>
        BY <1>3 DEF ReplaceArtifact, past, Current
    <2>2. \A b \in Artifacts : file'[b] = IF b = Current THEN Len(bundles) ELSE file[b]
        BY <2>1, Placed, CurrentArtifact
    <2>3. \A b \in Artifacts : file[b] = IF b \in Passed THEN Len(bundles) ELSE before[1][b]
        BY <2>1 DEF FilesOK
    <2>4. settings' = before'[2] /\ outcome' = "none"
        BY <2>1, <1>n DEF FilesOK
    <2>5. CASE /\ run.mode = "legacy_svr" /\ run.next = 1
               /\ at' = "artifacts" /\ run' = [run EXCEPT !.next = 2]
        <3>1. Passed' = {"svr"} /\ Passed = {} /\ Current = "svr"
            BY <2>5, CurrentArtifact DEF Passed, InstallerOK, Runs
        <3>2. \A b \in Artifacts :
                file'[b] = IF b \in Passed' THEN Len(bundles') ELSE before'[1][b]
            BY <2>1, <2>2, <2>3, <3>1
        <3> QED
            BY <2>5, <2>4, <3>2 DEF FilesOK
    <2>6. CASE /\ run.mode = "modern" \/ run.next = 2
               /\ at' = "settings" /\ run' = [run EXCEPT !.next = 1]
        <3>1. Own' = Own
            BY <2>6 DEF Own, InstallerOK, Runs
        <3>2. \A b \in Artifacts : b \in Own <=> b = Current \/ b \in Passed
            BY <1>a, <1>b, <2>6, CurrentArtifact DEF Own, Passed, Modes
        <3>3. \A b \in Artifacts :
                file'[b] = IF b \in Own' THEN Len(bundles') ELSE before'[1][b]
            BY <2>1, <2>2, <2>3, <3>1, <3>2
        <3> QED
            BY <2>6, <2>4, <3>3 DEF FilesOK
    <2> QED
        BY <2>1, <2>5, <2>6, Loop
<1>4. CASE WriteSettings
    <2>1. /\ at = "settings" /\ at' = "check" /\ settings' = <<updated_config>>
          /\ UNCHANGED <<file, bundles, run, before, outcome>>
        BY <1>4 DEF WriteSettings, past
    <2>2. updated_config' = updated_config /\ Own' = Own
        BY <2>1 DEF updated_config, Own
    <2> QED
        BY <2>1, <2>2, <1>n DEF FilesOK
<1>5. CASE Complete
    BY <1>5 DEF Complete, FilesOK
<1>6. CASE Fail
    <2>1. /\ at \in {"artifacts", "settings", "check"} /\ at' = "undo" /\ run'.next = 1
          /\ run'.mode = run.mode /\ UNCHANGED <<file, settings, bundles, before, outcome>>
        BY <1>6 DEF Fail, disk, past, InstallerOK, Runs
    <2>2. Own' = Own /\ Passed' = {}
        BY <2>1 DEF Own, Passed
    <2>3. \A a \in Artifacts : a \in Passed /\ at = "artifacts" => a \in Own
        BY <1>a DEF Own, Passed, Modes
    <2>4. \A a \in Artifacts : a \notin Own => file[a] = before[1][a]
        BY <2>1, <2>3 DEF FilesOK
    <2> QED
        BY <2>1, <2>2, <2>4, <1>n DEF FilesOK
\* A step that has put an artifact back and goes on with the loop.
<1>r. ASSUME at \in {"undo", "undoing"}, Put(Current, before[1][Current]),
             Advance("undo", "restore"), UNCHANGED <<bundles, before, outcome>>
      PROVE  FilesOK'
    <2>1. \A b \in Artifacts : file'[b] = IF b = Current THEN before[1][b] ELSE file[b]
        BY <1>r, Placed, CurrentArtifact
    <2>2. \A b \in Artifacts : b \notin Own \/ b \in Passed => file[b] = before[1][b]
        BY <1>r DEF FilesOK
    <2>3. outcome' = "none"
        BY <1>r, <1>n
    <2>4. CASE /\ run.mode = "legacy_svr" /\ run.next = 1
               /\ at' = "undo" /\ run' = [run EXCEPT !.next = 2]
        <3>1. Passed' = {"svr"} /\ Passed = {} /\ Current = "svr" /\ Own' = Own
            BY <2>4, CurrentArtifact DEF Passed, Own, InstallerOK, Runs
        <3> QED
            BY <1>r, <2>1, <2>2, <2>3, <2>4, <3>1 DEF FilesOK
    <2>5. CASE /\ run.mode = "modern" \/ run.next = 2
               /\ at' = "restore" /\ run' = [run EXCEPT !.next = 1]
        <3>1. \A b \in Artifacts : b = Current \/ b \notin Own \/ b \in Passed
            BY <1>a, <1>b, <2>5, CurrentArtifact DEF Own, Passed, Modes
        <3>2. \A b \in Artifacts : file'[b] = before[1][b]
            BY <2>1, <2>2, <3>1
        <3>3. file' = before[1]
            <4>1. file' \in Files /\ before[1] \in Files
                BY InstallerTyped DEF InstallerOK
            <4> QED
                BY <3>2, <4>1 DEF Files
        <3> QED
            BY <1>r, <2>3, <2>5, <3>3 DEF FilesOK
    <2> QED
        BY <1>r, <2>4, <2>5, Loop
<1>7. CASE UndoArtifact
    <2>1. at = "undo" /\ UNCHANGED <<settings, bundles, before, outcome>>
        BY <1>7 DEF UndoArtifact, past
    <2>2. run.snapshot = before[1]
        BY <2>1 DEF RunOK
    <2>3. CASE Put(Current, Torn) /\ at' = "undoing" /\ UNCHANGED run
        <3>1. \A b \in Artifacts : b # Current => file'[b] = file[b]
            BY <2>3, Placed, CurrentArtifact
        <3>2. Own' = Own /\ Passed' = Passed
            BY <2>3 DEF Own, Passed
        <3>3. Current \in Own /\ Current \notin Passed
            BY <1>a, CurrentArtifact DEF Own, Passed, Modes
        <3> QED
            BY <2>1, <2>3, <3>1, <3>2, <3>3, <1>n DEF FilesOK
    <2>4. CASE run.snapshot[Current] = Absent /\ Put(Current, Absent) /\ Advance("undo", "restore")
        BY <2>1, <2>2, <2>4, <1>r
    <2> QED
        BY <1>7, <2>3, <2>4 DEF UndoArtifact, Current
<1>8. CASE FinishArtifact
    <2>1. /\ at = "undoing" /\ Put(Current, run.snapshot[Current]) /\ Advance("undo", "restore")
          /\ UNCHANGED <<bundles, before, outcome>>
        BY <1>8 DEF FinishArtifact, Current, past
    <2>2. run.snapshot = before[1]
        BY <2>1 DEF RunOK
    <2> QED
        BY <2>1, <2>2, <1>r
<1>9. CASE RestoreSettings
    <2>1. at = "restore" /\ at' = "restoring" /\ UNCHANGED <<file, before, outcome>>
        BY <1>9 DEF RestoreSettings, past
    <2> QED
        BY <2>1, <1>n DEF FilesOK
<1>10. CASE FinishSettings
    <2>1. /\ at = "restoring" /\ at' = "idle" /\ settings' = <<run.settings>>
          /\ UNCHANGED <<file, before>>
        BY <1>10 DEF FinishSettings
    <2>2. before[2] = <<run.settings>>
        BY <2>1 DEF RunOK
    <2> QED
        BY <2>1, <2>2 DEF FilesOK
<1>11. CASE CutOff
    BY <1>11 DEF CutOff, FilesOK
<1> QED
    BY <1>u, <1>p, <1>1, <1>2, <1>3, <1>4, <1>5, <1>6, <1>7, <1>8, <1>9, <1>10, <1>11
    DEF Next, Install, Undo, Scoring

-----------------------------------------------------------------------------
(* What is installed.                                                      *)

\* A further bundle changes nothing of an installation.
LEMMA SoundGrows ==
    ASSUME BundlesOK, NEW bundle \in Scores, NEW f, NEW c, Sound(f, c, bundles)
    PROVE  Sound(f, c, Append(bundles, bundle))
<1>1. /\ Len(Append(bundles, bundle)) = Len(bundles) + 1 /\ Len(bundles) \in Nat
      /\ \A i \in 1..Len(bundles) : Append(bundles, bundle)[i] = bundles[i]
    BY DEF BundlesOK
<1>2. 1..Len(bundles) \subseteq 1..Len(Append(bundles, bundle))
    BY <1>1
<1> QED
    BY <1>1, <1>2 DEF Sound

LEMMA DiskStep ==
    ASSUME BundlesOK, InstallerOK, RunOK, FilesOK, DiskOK, [Next]_vars PROVE DiskOK'
<1>k. CASE UNCHANGED <<file, settings, bundles, at, before, cut>>
    BY <1>k DEF DiskOK
<1>m. CASE at # "idle" /\ at' # "idle" /\ UNCHANGED <<bundles, before, cut>>
    BY <1>m DEF DiskOK
<1>u. CASE UNCHANGED vars
    BY <1>u, <1>k DEF vars, disk, installer, past
<1>p. ASSUME NEW p \in Procs, Scoring(p) PROVE DiskOK'
    BY <1>p, <1>k, ScoringLeaves DEF InstallerOK
<1>1. ASSUME NEW mode \in Modes, NEW override \in Scores \cup {Unset},
             NEW review \in Scores \cup {Unset}, NEW bundle \in Scores,
             Begin(mode, override, review, bundle)
      PROVE  DiskOK'
    <2>1. /\ at = "idle" /\ at' = "backup" /\ before' = <<file, settings>> /\ cut' = cut
          /\ bundles' = Append(bundles, bundle)
        BY <1>1 DEF Begin, disk
    <2>2. ~cut => Sound(file, settings, bundles')
        BY <2>1, SoundGrows DEF DiskOK
    <2> QED
        BY <2>1, <2>2 DEF DiskOK
<1>2. CASE Backup
    BY <1>2, <1>m DEF Backup, past
<1>3. CASE ReplaceArtifact
    BY <1>3, <1>m, Loop DEF ReplaceArtifact, past
<1>4. CASE WriteSettings
    BY <1>4, <1>m DEF WriteSettings, past
<1>5. CASE Complete
    <2>1. at = "check" /\ at' = "idle" /\ UNCHANGED <<file, settings, bundles>>
        BY <1>5 DEF Complete, disk
    <2>2. settings = <<updated_config>>
        BY <2>1 DEF FilesOK
    <2>3. \A a \in Artifacts : a \in Own => file[a] = Len(bundles)
        BY <2>1 DEF FilesOK
    <2>4. Len(bundles) \in 1..Len(bundles)
        BY <2>1 DEF RunOK, BundlesOK
    <2>5. updated_config.mode = run.mode
        BY DEF updated_config
    <2>6. run.mode = "modern" => Sound(file, settings, bundles)
        BY <2>1, <2>2, <2>3, <2>4, <2>5 DEF RunOK, Sound, Own, Artifacts
    <2>7. run.mode = "legacy_svr" => Sound(file, settings, bundles)
        BY <2>1, <2>2, <2>3, <2>4, <2>5 DEF RunOK, Sound, Own, Artifacts
    <2>8. Sound(file, settings, bundles)
        BY <2>6, <2>7, CurrentArtifact DEF Modes
    <2> QED
        BY <2>1, <2>8 DEF DiskOK
<1>6. CASE Fail
    BY <1>6, <1>m DEF Fail, past
<1>7. CASE UndoArtifact
    <2>1. at = "undo" /\ UNCHANGED <<bundles, before, cut>>
        BY <1>7 DEF UndoArtifact, past
    <2>2. Advance("undo", "restore") \/ at' = "undoing"
        BY <1>7 DEF UndoArtifact
    <2> QED
        BY <2>1, <2>2, <1>m, Loop
<1>8. CASE FinishArtifact
    BY <1>8, <1>m, Loop DEF FinishArtifact, past
<1>9. CASE RestoreSettings
    BY <1>9, <1>m DEF RestoreSettings, past
<1>10. CASE FinishSettings
    <2>1. /\ at = "restoring" /\ at' = "idle" /\ settings' = <<run.settings>>
          /\ UNCHANGED <<file, bundles, cut>>
        BY <1>10 DEF FinishSettings
    <2>2. file' = before[1] /\ settings' = before[2]
        BY <2>1 DEF RunOK, FilesOK
    <2> QED
        BY <2>1, <2>2 DEF DiskOK
<1>11. CASE CutOff
    BY <1>11 DEF CutOff, DiskOK
<1> QED
    BY <1>u, <1>p, <1>1, <1>2, <1>3, <1>4, <1>5, <1>6, <1>7, <1>8, <1>9, <1>10, <1>11
    DEF Next, Install, Undo, Scoring

-----------------------------------------------------------------------------
(* The processes.                                                          *)

LEMMA JobTyped ==
    /\ NoJob \in Jobs
    /\ \A s \in Settings, d \in BOOLEAN :
        [NoJob EXCEPT !.settings = s, !.disturbed = d] \in Jobs
<1>1. NoSettings \in Settings /\ Absent \in Versions
    BY Constants DEF NoSettings, Settings, Modes, Scores, Versions, Absent
<1> QED
    BY <1>1 DEF NoJob, Jobs

\* One process's step, in terms of what it has loaded and where it is.
LEMMA OneProc ==
    ASSUME ProcsOK, UNCHANGED <<file, settings, at, cut>>, NEW p \in Procs,
           NEW j \in Jobs, NEW place \in PcStates,
           job' = [job EXCEPT ![p] = j], pc' = [pc EXCEPT ![p] = place], Undisturbed(j, place)
    PROVE  ProcsOK'
<1>1. pc' \in [Procs -> PcStates] /\ job' \in [Procs -> Jobs]
    BY DEF ProcsOK
<1>2. ASSUME NEW q \in Procs PROVE Undisturbed(job'[q], pc'[q])
    <2>1. CASE q = p
        BY <2>1 DEF ProcsOK
    <2>2. CASE q # p
        BY <2>2 DEF ProcsOK
    <2> QED
        BY <2>1, <2>2
<1>3. ASSUME NEW q \in Procs PROVE Undisturbed(job[q], pc[q])'
    BY <1>2 DEF Undisturbed
<1> QED
    BY <1>1, <1>3 DEF ProcsOK

\* A step of the installer while it is at work: every process has been disturbed.
LEMMA WhileInstalling ==
    ASSUME ProcsOK, at # "idle", UNCHANGED <<pc, job>> PROVE ProcsOK'
<1>1. \A p \in Procs : job[p].disturbed \/ pc[p] = "idle"
    BY DEF ProcsOK, Undisturbed
<1> QED
    BY <1>1 DEF ProcsOK, Undisturbed

\* A process that fails, unless it is disturbed, has found no complete installation.
LEMMA Failing ==
    ASSUME ProcsOK, UNCHANGED <<file, settings, at, cut>>, NEW p \in Procs, Fails(p),
           job[p].disturbed \/ at # "idle" \/ cut
    PROVE  ProcsOK'
<1> DEFINE d == job[p].disturbed \/ at # "idle"
           j == [job[p] EXCEPT !.result = "error", !.disturbed = d]
<1>1. job[p] \in Jobs
    BY DEF ProcsOK
<1>2. j \in Jobs /\ (j.disturbed <=> d)
    BY <1>1 DEF Jobs
<1>3. job' = [job EXCEPT ![p] = j] /\ pc' = [pc EXCEPT ![p] = "result"]
    BY <1>1 DEF Fails, ProcsOK, Jobs
<1>4. Undisturbed(j, "result")
    <2>1. CASE d
        BY <2>1, <1>2 DEF Undisturbed
    <2>2. CASE ~d
        BY <2>2, <1>2 DEF Undisturbed
    <2> QED
        BY <2>1, <2>2
<1> HIDE DEF j
<1> QED
    BY <1>2, <1>3, <1>4, OneProc DEF PcStates

\* A process that begins to score with settings it has, or that it loads while no run is on.
LEMMA Entering ==
    ASSUME ProcsOK, UNCHANGED <<file, settings, at, cut>>, NEW p \in Procs,
           NEW loaded \in Settings, Enter(p, loaded),
           ~job[p].disturbed /\ at = "idle" /\ ~cut => loaded = settings[1] /\ loaded.enabled
    PROVE  ProcsOK'
<1> DEFINE d == job[p].disturbed \/ at # "idle"
           j == [NoJob EXCEPT !.settings = loaded, !.disturbed = d]
           place == IF loaded.mode = "modern" THEN "model" ELSE "scaler"
<1>1. d \in BOOLEAN /\ j \in Jobs
    BY JobTyped DEF ProcsOK, Jobs
<1>2. j.settings = loaded /\ (j.disturbed <=> d)
    BY DEF NoJob
<1>3. job' = [job EXCEPT ![p] = j] /\ pc' = [pc EXCEPT ![p] = place]
    BY DEF Enter
<1>4. Undisturbed(j, place)
    <2>1. loaded.mode \in {"modern", "legacy_svr"}
        BY DEF Settings, Modes
    <2>2. CASE d
        BY <2>2, <1>2 DEF Undisturbed
    <2>3. CASE ~d
        BY <2>1, <2>3, <1>2 DEF Undisturbed
    <2> QED
        BY <2>2, <2>3
<1> HIDE DEF j
<1> QED
    BY <1>1, <1>3, <1>4, OneProc DEF PcStates

\* What is enabled, when nothing is disturbed or cut off, passes the settings' own check.
LEMMA SoundLoads ==
    ASSUME InstallerOK, DiskOK, at = "idle", ~cut
    PROVE  Readable /\ settings[1] \in Settings
           /\ (settings[1].enabled => from_mapping(settings[1]))
<1>1. Sound(file, settings, bundles)
    BY DEF DiskOK
<1>2. settings[1] \in Settings /\ settings # <<>>
    BY <1>1 DEF Sound, InstallerOK, Configs
<1>3. settings[1].mode \in {"modern", "legacy_svr"}
    BY <1>2 DEF Settings, Modes
<1>4. settings[1].enabled /\ settings[1].mode = "modern" => from_mapping(settings[1])
    BY <1>1 DEF Sound, FitsModern, Ordered, score_url, from_mapping
<1>5. settings[1].enabled /\ settings[1].mode = "legacy_svr" => from_mapping(settings[1])
    BY <1>1 DEF Sound, FitsLegacy, Ordered, score_legacy_url, from_mapping
<1> QED
    BY <1>2, <1>3, <1>4, <1>5 DEF Readable

LEMMA ProcsStep ==
    ASSUME BundlesOK, InstallerOK, DiskOK, ProcsOK, [Next]_vars PROVE ProcsOK'
<1>k. CASE UNCHANGED <<file, settings, at, cut, pc, job>>
    BY <1>k DEF ProcsOK, Undisturbed
<1>u. CASE UNCHANGED vars
    BY <1>u, <1>k DEF vars, disk, installer, past, scoring
<1>1. ASSUME NEW mode \in Modes, NEW override \in Scores \cup {Unset},
             NEW review \in Scores \cup {Unset}, NEW bundle \in Scores,
             Begin(mode, override, review, bundle)
      PROVE  ProcsOK'
    <2>1. pc' = pc /\ job' = [p \in Procs |-> [job[p] EXCEPT !.disturbed = pc[p] # "idle"]]
        BY <1>1 DEF Begin, Disturbs
    <2>2. ASSUME NEW p \in Procs
          PROVE  job'[p] \in Jobs /\ (job'[p].disturbed <=> pc'[p] # "idle")
        <3>1. job[p] \in Jobs
            BY DEF ProcsOK
        <3> QED
            BY <2>1, <3>1 DEF Jobs
    <2>3. job' \in [Procs -> Jobs]
        BY <2>1, <2>2
    <2> QED
        BY <2>1, <2>2, <2>3 DEF ProcsOK, Undisturbed
<1>2. CASE Backup \/ ReplaceArtifact \/ WriteSettings \/ Complete \/ Fail \/ Undo \/ CutOff
    <2>1. at # "idle" /\ UNCHANGED <<pc, job>>
        BY <1>2 DEF Backup, ReplaceArtifact, WriteSettings, Complete, Fail, Undo, CutOff,
               UndoArtifact, FinishArtifact, RestoreSettings, FinishSettings, scoring
    <2> QED
        BY <2>1, WhileInstalling
<1>3. ASSUME NEW p \in Procs, LoadSettings(p) PROVE ProcsOK'
    <2>1. UNCHANGED <<file, settings, at, cut>> /\ pc[p] = "idle"
        BY <1>3 DEF LoadSettings, disk, installer, past
    <2>2. CASE (~Readable \/ (settings[1].enabled /\ ~from_mapping(settings[1]))) /\ Fails(p)
        <3>1. job[p].disturbed \/ at # "idle" \/ cut
            BY <2>2, SoundLoads DEF InstallerOK
        <3> QED
            BY <2>1, <2>2, <3>1, Failing
    <2>3. CASE Readable /\ settings[1].enabled /\ Enter(p, settings[1])
        <3>1. settings[1] \in Settings
            BY <2>3 DEF Readable, InstallerOK, Configs
        <3> QED
            BY <2>1, <2>3, <3>1, Entering
    <2> QED
        BY <1>3, <2>2, <2>3 DEF LoadSettings
<1>4. ASSUME NEW p \in Procs, LoadScaler(p) PROVE ProcsOK'
    <2>1. UNCHANGED <<file, settings, at, cut>> /\ pc[p] = "scaler"
        BY <1>4 DEF LoadScaler, disk, installer, past
    <2>2. Undisturbed(job[p], pc[p]) /\ job[p] \in Jobs
        BY DEF ProcsOK
    <2>3. CASE ~Usable("scaler") /\ Fails(p)
        <3>1. ASSUME ~job[p].disturbed, at = "idle", ~cut PROVE FALSE
            <4>1. Sound(file, settings, bundles)
                BY <3>1 DEF DiskOK
            <4>2. settings[1].enabled /\ settings[1].mode = "legacy_svr"
                BY <2>1, <2>2, <3>1 DEF Undisturbed
            <4>3. file["scaler"] \in 1..Len(bundles)
                BY <4>1, <4>2 DEF Sound
            <4> QED
                BY <2>3, <4>3 DEF Usable, Absent, Torn, BundlesOK
        <3> QED
            BY <2>1, <2>3, <3>1, Failing
    <2>4. CASE /\ Usable("scaler") /\ pc' = [pc EXCEPT ![p] = "model"]
               /\ job' = [job EXCEPT ![p].scaler = file["scaler"]]
        <3> DEFINE j == [job[p] EXCEPT !.scaler = file["scaler"]]
        <3>1. file["scaler"] \in Versions
            BY <2>4 DEF Usable, InstallerOK, Files, Artifacts
        <3>2. j \in Jobs /\ j.settings = job[p].settings /\ j.disturbed = job[p].disturbed
              /\ j.scaler = file["scaler"]
            BY <2>2, <3>1 DEF Jobs
        <3>3. job' = [job EXCEPT ![p] = j]
            BY <2>4 DEF ProcsOK
        <3> HIDE DEF j
        <3>4. Undisturbed(j, "model")
            BY <2>1, <2>2, <3>2 DEF Undisturbed
        <3> QED
            BY <2>1, <2>4, <3>2, <3>3, <3>4, OneProc DEF PcStates
    <2> QED
        BY <1>4, <2>3, <2>4 DEF LoadScaler
<1>5. ASSUME NEW p \in Procs, Score(p) PROVE ProcsOK'
    <2> DEFINE mode == job[p].settings.mode
               a == managed(mode)[1]
               threshold == Effective(mode, job[p].settings.threshold,
                               IF mode = "modern" THEN bundles[file[a]] ELSE LegacyThreshold)
    <2>1. UNCHANGED <<file, settings, at, cut>> /\ pc[p] = "model"
        BY <1>5 DEF Score, disk, installer, past
    <2>2. Undisturbed(job[p], pc[p]) /\ job[p] \in Jobs
        BY DEF ProcsOK
    <2>3. mode \in {"modern", "legacy_svr"}
        BY <2>2 DEF Jobs, Settings, Modes
    <2>4. mode = "modern" => a = "bundle"
        BY DEF managed
    <2>5. mode = "legacy_svr" => a = "svr"
        BY DEF managed
    <2>6. CASE (~Usable(a) \/ ~Ordered(job[p].settings.review, threshold)) /\ Fails(p)
        <3>1. ASSUME ~job[p].disturbed, at = "idle", ~cut PROVE FALSE
            <4>1. Sound(file, settings, bundles)
                BY <3>1 DEF DiskOK
            <4>2. settings[1].enabled /\ job[p].settings = settings[1]
                BY <2>1, <2>2, <3>1 DEF Undisturbed
            <4>3. CASE mode = "modern"
                <5>1. file["bundle"] \in 1..Len(bundles)
                      /\ FitsModern(settings[1], bundles[file["bundle"]])
                    BY <4>1, <4>2, <4>3 DEF Sound
                <5>2. Usable(a)
                    BY <2>4, <4>3, <5>1 DEF Usable, Absent, Torn, BundlesOK
                <5>3. threshold = score_url(settings[1].threshold, bundles[file["bundle"]])
                    BY <2>4, <4>2, <4>3 DEF Effective
                <5> QED
                    BY <2>6, <4>2, <5>1, <5>2, <5>3 DEF FitsModern
            <4>4. CASE mode = "legacy_svr"
                <5>1. file["svr"] \in 1..Len(bundles) /\ FitsLegacy(settings[1])
                    BY <4>1, <4>2, <4>4 DEF Sound
                <5>2. Usable(a)
                    BY <2>5, <4>4, <5>1 DEF Usable, Absent, Torn, BundlesOK
                <5>3. threshold = score_legacy_url(settings[1].threshold)
                    BY <4>2, <4>4 DEF Effective
                <5> QED
                    BY <2>6, <4>2, <5>1, <5>2, <5>3 DEF FitsLegacy
            <4> QED
                BY <2>3, <4>3, <4>4
        <3> QED
            BY <2>1, <2>6, <3>1, Failing
    <2>7. ASSUME Usable(a), NEW score \in Scores, pc' = [pc EXCEPT ![p] = "result"],
                 job' = [job EXCEPT ![p].model = file[a],
                       ![p].result = status_for_ml(score, job[p].settings.review, threshold)]
          PROVE  ProcsOK'
        <3> DEFINE status == status_for_ml(score, job[p].settings.review, threshold)
                   j == [job[p] EXCEPT !.model = file[a], !.result = status]
        <3>1. status \in Statuses
            BY DEF status_for_ml, Statuses
        <3>2. a \in Artifacts
            BY <2>3, <2>4, <2>5 DEF Artifacts
        <3>3. file[a] \in Versions
            BY <2>7, <3>2 DEF Usable, InstallerOK, Files
        <3>4. job' = [job EXCEPT ![p] = j]
            BY <2>7 DEF ProcsOK
        <3> HIDE DEF status
        <3>5. j \in Jobs /\ j.settings = job[p].settings /\ j.disturbed = job[p].disturbed
              /\ j.scaler = job[p].scaler /\ j.model = file[a] /\ j.result = status
            BY <2>2, <3>1, <3>3 DEF Jobs
        <3>6. status # "error"
            BY <3>1 DEF Statuses
        <3> HIDE DEF j
        <3>7. ASSUME ~job[p].disturbed, at = "idle", ~cut, mode = "legacy_svr"
              PROVE  job[p].scaler = file[a]
            <4>1. Sound(file, settings, bundles)
                BY <3>7 DEF DiskOK
            <4>2. settings[1].enabled /\ job[p].settings = settings[1]
                  /\ job[p].scaler = file["scaler"]
                BY <2>1, <2>2, <3>7 DEF Undisturbed
            <4>3. file["svr"] = file["scaler"]
                BY <3>7, <4>1, <4>2 DEF Sound
            <4> QED
                BY <2>5, <3>7, <4>2, <4>3
        <3>8. Undisturbed(j, "result")
            BY <2>1, <2>2, <3>5, <3>6, <3>7 DEF Undisturbed
        <3> QED
            BY <2>1, <2>7, <3>4, <3>5, <3>8, OneProc DEF PcStates
    <2> QED
        BY <1>5, <2>6, <2>7 DEF Score
<1>6. ASSUME NEW p \in Procs, Report(p) PROVE ProcsOK'
    <2>1. /\ UNCHANGED <<file, settings, at, cut>>
          /\ pc' = [pc EXCEPT ![p] = "idle"] /\ job' = [job EXCEPT ![p] = NoJob]
        BY <1>6 DEF Report, disk, installer, past
    <2>2. Undisturbed(NoJob, "idle")
        BY DEF Undisturbed
    <2> QED
        BY <2>1, <2>2, JobTyped, OneProc DEF PcStates
<1>7. ASSUME NEW p \in Procs, NextSample(p) PROVE ProcsOK'
    <2>1. UNCHANGED <<file, settings, at, cut>> /\ pc[p] = "result"
          /\ Enter(p, job[p].settings) /\ job[p].settings.enabled
        BY <1>7 DEF NextSample, disk, installer, past
    <2>2. Undisturbed(job[p], pc[p]) /\ job[p].settings \in Settings
        BY DEF ProcsOK, Jobs
    <2>3. ~job[p].disturbed /\ at = "idle" /\ ~cut => job[p].settings = settings[1]
        BY <2>1, <2>2 DEF Undisturbed
    <2> QED
        BY <2>1, <2>2, <2>3, Entering
<1> QED
    BY <1>u, <1>1, <1>2, <1>3, <1>4, <1>5, <1>6, <1>7 DEF Next, Install

-----------------------------------------------------------------------------
(* The theorems.                                                           *)

LEMMA Initially == Init => IInv
<1> SUFFICES ASSUME Init PROVE IInv
    OBVIOUS
<1> DEFINE first == [NoSettings EXCEPT !.review = DefaultReview]
<1>1. first \in Settings /\ ~first.enabled
    BY Constants DEF NoSettings, Settings, Modes, Scores
<1>2. BundlesOK
    BY Constants DEF Init, BundlesOK
<1>3. file \in Files /\ settings = <<first>> /\ settings[1] = first
    BY Constants DEF Init, Files, Versions, Absent
<1>4. settings \in Configs /\ settings # <<>>
    BY <1>1, <1>3 DEF Configs
<1>5. InstallerOK
    <2>1. before \in Files \X Configs
        BY <1>3, <1>4 DEF Init, disk
    <2>2. run \in Runs /\ run.next = 1 /\ at \in Steps /\ outcome \in Outcomes /\ cut \in BOOLEAN
        BY NoRunTyped DEF Init, Steps, Outcomes
    <2>3. failures \in 0..MaxFailures /\ cuts \in 0..MaxCuts /\ scorings \in 0..MaxScorings
        BY Constants DEF Init
    <2> QED
        BY <1>3, <1>4, <2>1, <2>2, <2>3 DEF InstallerOK
<1>6. RunOK /\ FilesOK
    BY DEF Init, RunOK, FilesOK
<1>7. DiskOK
    <2>1. Sound(file, settings, bundles)
        BY <1>1, <1>3, <1>4 DEF Sound
    <2> QED
        BY <2>1 DEF Init, DiskOK
<1>8. ProcsOK
    BY JobTyped DEF Init, ProcsOK, PcStates, Undisturbed
<1> QED
    BY <1>2, <1>5, <1>6, <1>7, <1>8 DEF IInv

\* The invariant the others follow from, for any processes, scores, runs, failures and cuts.
THEOREM InductiveInvariant == Spec => []IInv
<1>1. IInv /\ [Next]_vars => IInv'
    BY BundlesTyped, InstallerTyped, RunStep, FilesStep, DiskStep, ProcsStep DEF IInv
<1> QED
    BY Initially, <1>1, PTL DEF Spec

\* The files, the settings and what the installer and the processes hold have the types the
\* code gives them: an artifact is absent, in part or one a run brought.
THEOREM TypeCorrect == Spec => []TypeOK
<1>1. IInv => TypeOK
    <2> SUFFICES ASSUME BundlesOK, InstallerOK, ProcsOK PROVE TypeOK
        BY DEF IInv
    <2>1. Readable => settings[1] \in Settings /\ Len(settings) = 1
        BY DEF InstallerOK, Configs, Readable
    <2>2. run.next \in 1..Len(managed(run.mode)) + 1
        BY CurrentArtifact DEF managed
    <2>3. \A p \in Procs : job[p] \in Jobs
        BY DEF ProcsOK
    <2>4. Len(bundles) <= MaxRuns
        BY Constants DEF BundlesOK
    <2>5. /\ run.mode \in Modes /\ run.settings \in Settings /\ run.override \in Scores \cup {Unset}
          /\ run.review \in Scores /\ run.snapshot \in Files
        BY DEF InstallerOK, Runs
    <2>6. \A p \in Procs : /\ job[p].settings \in Settings
                           /\ job[p].scaler \in Versions /\ job[p].model \in Versions
                           /\ job[p].result \in Statuses \cup {"none", "error"}
        BY <2>3 DEF Jobs
    <2>7. BundlesOK /\ InstallerOK /\ pc \in [Procs -> PcStates]
        BY DEF ProcsOK
    <2> QED
        BY <2>1, <2>2, <2>4, <2>5, <2>6, <2>7
        DEF TypeOK, BundlesOK, InstallerOK, Files, PcStates, Outcomes
<1> QED
    BY <1>1, InductiveInvariant, PTL

\* Wherever a run fails, every artifact, of both modes, and the settings end as they were when
\* it began (install-ml-model.py:199-209, 248-256).
THEOREM FailedRunRestores == Spec => []FailedModelInstallRestores
<1>1. IInv => FailedModelInstallRestores
    <2> SUFFICES ASSUME InstallerOK, FilesOK, outcome = "failed" PROVE disk = before
        BY DEF IInv, FailedModelInstallRestores
    <2>1. file = before[1] /\ settings = before[2]
        BY DEF FilesOK
    <2>2. before = <<before[1], before[2]>>
        BY DEF InstallerOK
    <2> QED
        BY <2>1, <2>2 DEF disk
<1> QED
    BY <1>1, InductiveInvariant, PTL

\* However the processes' loads fall among the steps of the installer's runs, a score that no
\* run disturbed is no error and takes its model and scaler from one installation, unless a
\* run was cut off and none has been completed since (install-ml-model.py:175-197, 230-235;
\* legacy_url_ml.py:208; edge_phishing_classifier.py:452-461).
THEOREM ScoresAreOfOneInstallation == Spec => []UndisturbedScores
<1>1. IInv => UndisturbedScores
    BY DEF IInv, ProcsOK, Undisturbed, UndisturbedScores
<1> QED
    BY <1>1, InductiveInvariant, PTL
=============================================================================
