---------------------------- MODULE ModelScoring ----------------------------
(***************************************************************************)
(* How the URL model's result becomes a status: the settings' two          *)
(* thresholds, the threshold that comes with a model, and the bands they   *)
(* make (edge_phishing_classifier.py, url_ml.py, legacy_url_ml.py).        *)
(*                                                                         *)
(* A score or threshold is a number of steps between 0 and Top, which      *)
(* stand for 0.0 and 1.0.                                                  *)
(***************************************************************************)
EXTENDS Integers

CONSTANTS
    Top,             \* steps between 0.0 and 1.0
    LegacyThreshold, \* the SVR's threshold, 0.5
    DefaultReview    \* the review threshold of settings without one, 0.07

ASSUME ScoringAssumption ==
    /\ Top \in Nat \ {0} /\ {LegacyThreshold, DefaultReview} \subseteq 0..Top
    /\ DefaultReview < LegacyThreshold

Unset == -1   \* a threshold of null
Modes == {"modern", "legacy_svr"}
Scores == 0..Top
Statuses == {"suspicious", "review", "unlikely"}

\* What Settings.from_mapping takes from the file's "ml" object: each value in its range, and
\* the bands in order when the file itself has both.
Settings == [enabled : BOOLEAN, mode : Modes, threshold : Scores \cup {Unset}, review : Scores]

from_mapping(ml) == ml.threshold = Unset \/ ml.review < ml.threshold

\* The threshold that counts: the settings' one, the bundle's or, for the SVR, the usual one.
score_url(override, bundle) == IF override = Unset THEN bundle ELSE override
score_legacy_url(override) == IF override = Unset THEN LegacyThreshold ELSE override

Effective(mode, override, bundle) ==
    IF mode = "modern" THEN score_url(override, bundle) ELSE score_legacy_url(override)

\* The bands are in order; only here are those of a file without a threshold found not to be.
Ordered(review, threshold) == review < threshold

status_for_ml(score, review, threshold) ==
    IF score >= threshold THEN "suspicious" ELSE IF score >= review THEN "review" ELSE "unlikely"
=============================================================================
