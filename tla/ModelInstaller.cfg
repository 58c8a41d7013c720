SPECIFICATION Spec
CONSTANTS
    Top = 2
    LegacyThreshold = 1
    DefaultReview = 0
    Procs = {p}
    MaxRuns = 2
    MaxFailures = 1
    MaxCuts = 1
    MaxScorings = 2
INVARIANTS
    TypeOK
    FailedModelInstallRestores
    UndisturbedScores
CHECK_DEADLOCK FALSE
