----------------------- MODULE MCReputationClassifier -----------------------
(***************************************************************************)
(* An instance of ReputationClassifier: two processes at once, which are   *)
(* alike and so may be exchanged, and alerts about one URL.                *)
(***************************************************************************)
EXTENDS ReputationClassifier, TLC

Symmetry == Permutations(Procs)
=============================================================================
