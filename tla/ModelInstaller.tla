--------------------------- MODULE ModelInstaller ---------------------------
(***************************************************************************)
(* install-ml-model.py, which validates and installs a model, the          *)
(* original one with its scaler, and enables it in the classifier's        *)
(* settings, next to the processes that score with what is installed:      *)
(* classifications, each of one alert, and evaluations and verifications,  *)
(* which load the settings once and then score a list of URLs.             *)
(*                                                                         *)
(* An action is one file replaced, copied or read.  A model's content is   *)
(* the number of the run that brought it.                                  *)
(***************************************************************************)
EXTENDS ModelScoring, Sequences, FiniteSets

CONSTANTS
    Procs,        \* processes that score
    MaxRuns,      \* bound on runs of the installer
    MaxFailures,  \* bound on failing steps of theirs
    MaxCuts,      \* bound on runs that are cut off
    MaxScorings   \* bound on scores

ASSUME InstallerBounds == {MaxRuns, MaxFailures, MaxCuts, MaxScorings} \subseteq Nat

Absent == 0
Torn == -1     \* copied only in part
Artifacts == {"bundle", "svr", "scaler"}
NoSettings == [enabled |-> FALSE, mode |-> "modern", threshold |-> Unset, review |-> Top]

VARIABLES
    file,      \* the artifacts in the etc directory
    settings,  \* the classifier's settings file, a sequence of none when torn
    bundles,   \* the threshold of the bundle each run brings
    at,        \* where the installer is
    run,       \* its options, and what it has read and kept
    failures, cuts,
    pc, job,   \* where each scoring process is, and what it has loaded
    scorings,
    before,    \* history: the files when the last run began
    outcome,   \* history: how that run ended
    cut        \* history: a run was cut off, and none has been completed since

disk == <<file, settings>>
past == <<before, outcome, cut>>
installer == <<bundles, at, run, failures, cuts, past>>
scoring == <<pc, job, scorings>>
vars == <<disk, installer, scoring>>

\* The artifacts of a mode, in the order in which they are replaced and put back.
managed(mode) == IF mode = "modern" THEN <<"bundle">> ELSE <<"svr", "scaler">>
Versions == Absent..MaxRuns

\* `disturbed`: the installer has run since the process loaded its settings.
NoJob == [settings |-> NoSettings, scaler |-> Absent, model |-> Absent, result |-> "none",
          disturbed |-> FALSE]
NoRun == [mode |-> "modern", settings |-> NoSettings, override |-> Unset, review |-> Top,
          snapshot |-> [a \in Artifacts |-> Absent], next |-> 1]

Readable == settings # <<>>
Steps == {"idle", "backup", "artifacts", "settings", "check", "undo", "undoing", "restore",
          "restoring"}

TypeOK ==
    /\ file \in [Artifacts -> Versions \cup {Torn}]
    /\ Readable => settings[1] \in Settings /\ Len(settings) = 1
    /\ bundles \in Seq(Scores) /\ Len(bundles) <= MaxRuns
    /\ at \in Steps
    /\ run.mode \in Modes /\ run.settings \in Settings /\ run.override \in Scores \cup {Unset}
    /\ run.review \in Scores /\ run.snapshot \in [Artifacts -> Versions \cup {Torn}]
    /\ run.next \in 1..Len(managed(run.mode)) + 1
    /\ failures \in 0..MaxFailures /\ cuts \in 0..MaxCuts
    /\ pc \in [Procs -> {"idle", "scaler", "model", "result"}]
    /\ \A p \in Procs :
        /\ job[p].settings \in Settings
        /\ job[p].scaler \in Versions /\ job[p].model \in Versions
        /\ job[p].result \in Statuses \cup {"none", "error"}
    /\ scorings \in 0..MaxScorings
    /\ outcome \in {"none", "installed", "failed", "cut"} /\ cut \in BOOLEAN

Init ==
    /\ file = [a \in Artifacts |-> Absent]
    /\ settings = <<[NoSettings EXCEPT !.review = DefaultReview]>>
    /\ bundles = <<>> /\ at = "idle" /\ run = NoRun /\ failures = 0 /\ cuts = 0
    /\ before = disk /\ outcome = "none" /\ cut = FALSE
    /\ pc = [p \in Procs |-> "idle"] /\ job = [p \in Procs |-> NoJob] /\ scorings = 0

-----------------------------------------------------------------------------
(* The installer.                                                          *)

\* A mistake the code could have had: validated with the settings' own threshold alone.
ValidatedByOption(mode, override, review, bundle) ==
    Readable /\ (override # Unset => Ordered(review, override))

\* The options are checked with the model's own threshold, and the review threshold, unless
\* given, is the one of the settings; otherwise, or if the model cannot score, nothing is done.
Validated(mode, override, review, bundle) ==
    /\ Readable /\ Ordered(review, Effective(mode, override, bundle))

\* A mistake the code could have had: an option that is not given is stored as it is.
ReviewForOption(review) == review

ReviewFor(review) == IF review = Unset THEN settings[1].review ELSE review

\* Processes that score meanwhile go on with what they have loaded.
Disturbs == job' = [p \in Procs |-> [job[p] EXCEPT !.disturbed = pc[p] # "idle"]]

Begin(mode, override, review, bundle) ==
    /\ at = "idle" /\ Len(bundles) < MaxRuns
    /\ Readable /\ Validated(mode, override, ReviewFor(review), bundle)
    /\ bundles' = Append(bundles, bundle)
    /\ run' = [NoRun EXCEPT !.mode = mode, !.settings = settings[1], !.override = override,
                            !.review = ReviewFor(review)]
    /\ at' = "backup"
    /\ before' = disk /\ outcome' = "none"
    /\ Disturbs
    /\ UNCHANGED <<disk, pc, scorings, failures, cuts, cut>>

Backup ==
    /\ at = "backup"
    /\ run' = [run EXCEPT !.snapshot = file]
    /\ at' = "artifacts"
    /\ UNCHANGED <<disk, scoring, bundles, failures, cuts, past>>

Put(a, content) == file' = [file EXCEPT ![a] = content]

\* Where the loop over the artifacts goes after one of them.
Advance(again, done) ==
    IF run.next < Len(managed(run.mode))
    THEN at' = again /\ run' = [run EXCEPT !.next = @ + 1]
    ELSE at' = done /\ run' = [run EXCEPT !.next = 1]

\* os.replace of a complete copy.
ReplaceArtifact ==
    /\ at = "artifacts"
    /\ Put(managed(run.mode)[run.next], Len(bundles))
    /\ Advance("artifacts", "settings")
    /\ UNCHANGED <<settings, scoring, bundles, failures, cuts, past>>

updated_config ==
    [enabled |-> TRUE, mode |-> run.mode, threshold |-> run.override, review |-> run.review]

WriteSettings ==
    /\ at = "settings"
    /\ settings' = <<updated_config>>
    /\ at' = "check"
    /\ UNCHANGED <<file, scoring, bundles, run, failures, cuts, past>>

\* What is installed can score, and the manager is active again.
Complete ==
    /\ at = "check"
    /\ at' = "idle" /\ run' = NoRun
    /\ outcome' = "installed" /\ cut' = FALSE
    /\ UNCHANGED <<disk, scoring, bundles, failures, cuts, before>>

\* An exception in any step since the backup.
Fail ==
    /\ at \in {"artifacts", "settings", "check"}
    /\ failures < MaxFailures /\ failures' = failures + 1
    /\ at' = "undo" /\ run' = [run EXCEPT !.next = 1]
    /\ UNCHANGED <<disk, scoring, bundles, cuts, past>>

\* What was there is copied back in place, in part at first; what was not is removed.
UndoArtifact ==
    /\ at = "undo"
    /\ LET a == managed(run.mode)[run.next]
       IN  IF run.snapshot[a] = Absent
           THEN Put(a, Absent) /\ Advance("undo", "restore")
           ELSE Put(a, Torn) /\ at' = "undoing" /\ UNCHANGED run
    /\ UNCHANGED <<settings, scoring, bundles, failures, cuts, past>>

\* A mistake the code could have had: a rollback that ends after the first artifact.
FinishArtifactOnly ==
    /\ at = "undoing"
    /\ LET a == managed(run.mode)[run.next] IN Put(a, run.snapshot[a])
    /\ at' = "restore" /\ run' = [run EXCEPT !.next = 1]
    /\ UNCHANGED <<settings, scoring, bundles, failures, cuts, past>>

FinishArtifact ==
    /\ at = "undoing"
    /\ LET a == managed(run.mode)[run.next] IN Put(a, run.snapshot[a])
    /\ Advance("undo", "restore")
    /\ UNCHANGED <<settings, scoring, bundles, failures, cuts, past>>

RestoreSettings ==
    /\ at = "restore"
    /\ settings' = <<>> /\ at' = "restoring"
    /\ UNCHANGED <<file, scoring, bundles, run, failures, cuts, past>>

FinishSettings ==
    /\ at = "restoring"
    /\ settings' = <<run.settings>> /\ at' = "idle" /\ run' = NoRun
    /\ outcome' = "failed"
    /\ UNCHANGED <<file, scoring, bundles, failures, cuts, before, cut>>

\* The run ends without its rollback, or within it: only an Exception is caught, which an
\* interrupt is not.
CutOff ==
    /\ at # "idle"
    /\ cuts < MaxCuts /\ cuts' = cuts + 1
    /\ at' = "idle" /\ run' = NoRun
    /\ outcome' = "cut" /\ cut' = TRUE
    /\ UNCHANGED <<disk, scoring, bundles, failures, before>>

-----------------------------------------------------------------------------
(* A process that scores.                                                  *)

Fails(p) ==
    /\ pc' = [pc EXCEPT ![p] = "result"]
    /\ job' = [job EXCEPT ![p].result = "error", ![p].disturbed = @ \/ at # "idle"]

\* score_legacy_url loads the scaler and then the model; score_url the bundle alone.
Enter(p, loaded) ==
    /\ pc' = [pc EXCEPT ![p] = IF loaded.mode = "modern" THEN "model" ELSE "scaler"]
    /\ job' = [job EXCEPT ![p] = [NoJob EXCEPT
           !.settings = loaded, !.disturbed = job[p].disturbed \/ at # "idle"]]

LoadSettings(p) ==
    /\ pc[p] = "idle" /\ scorings < MaxScorings
    /\ scorings' = scorings + 1
    /\ IF ~Readable THEN Fails(p)
       ELSE settings[1].enabled
            /\ IF from_mapping(settings[1]) THEN Enter(p, settings[1]) ELSE Fails(p)
    /\ UNCHANGED <<disk, installer>>

Usable(a) == file[a] \notin {Absent, Torn}

LoadScaler(p) ==
    /\ pc[p] = "scaler"
    /\ IF ~Usable("scaler") THEN Fails(p)
       ELSE /\ pc' = [pc EXCEPT ![p] = "model"]
            /\ job' = [job EXCEPT ![p].scaler = file["scaler"]]
    /\ UNCHANGED <<disk, installer, scorings>>

\* The model's threshold is known now: the status, or a refusal of the bands.
Score(p) ==
    LET mode == job[p].settings.mode
        a == managed(mode)[1]
        threshold == Effective(mode, job[p].settings.threshold,
                               IF mode = "modern" THEN bundles[file[a]] ELSE LegacyThreshold)
    IN  /\ pc[p] = "model"
        /\ IF ~Usable(a) \/ ~Ordered(job[p].settings.review, threshold) THEN Fails(p)
           ELSE \E score \in Scores :
               /\ pc' = [pc EXCEPT ![p] = "result"]
               /\ job' = [job EXCEPT ![p].model = file[a],
                     ![p].result = status_for_ml(score, job[p].settings.review, threshold)]
        /\ UNCHANGED <<disk, installer, scorings>>

\* The result is reported: a classification ends...
Report(p) ==
    /\ pc[p] = "result"
    /\ pc' = [pc EXCEPT ![p] = "idle"] /\ job' = [job EXCEPT ![p] = NoJob]
    /\ UNCHANGED <<disk, installer, scorings>>

\* ...and an evaluation scores its next URL with the settings it has.
NextSample(p) ==
    /\ pc[p] = "result" /\ job[p].settings.enabled /\ scorings < MaxScorings
    /\ scorings' = scorings + 1
    /\ Enter(p, job[p].settings)
    /\ UNCHANGED <<disk, installer>>

-----------------------------------------------------------------------------

Install == \E mode \in Modes, override, review \in Scores \cup {Unset}, bundle \in Scores :
               Begin(mode, override, review, bundle)
Undo == UndoArtifact \/ FinishArtifact \/ RestoreSettings \/ FinishSettings
Next ==
    \/ Install \/ Backup \/ ReplaceArtifact \/ WriteSettings \/ Complete
    \/ Fail \/ Undo \/ CutOff
    \/ \E p \in Procs : LoadSettings(p) \/ LoadScaler(p) \/ Score(p) \/ Report(p) \/ NextSample(p)

Spec == Init /\ [][Next]_vars

-----------------------------------------------------------------------------
(* Properties.                                                             *)

\* A run that fails leaves every artifact, of both modes, and the settings as they were when
\* it began, wherever it failed (install-ml-model.py:199-209, 248-256).
FailedModelInstallRestores == outcome = "failed" => disk = before

\* Unless a run was cut off, a score during which no run was under way is no error, and takes
\* the model and the scaler of one installation: what is enabled can be used by itself, with
\* thresholds in order whatever the model brings (install-ml-model.py:175-197, 230-235;
\* legacy_url_ml.py:208; edge_phishing_classifier.py:452-461).
UndisturbedScores ==
    \A p \in Procs : pc[p] = "result" /\ ~job[p].disturbed /\ ~cut =>
        /\ job[p].result # "error"
        /\ job[p].settings.mode = "legacy_svr" => job[p].scaler = job[p].model
=============================================================================
