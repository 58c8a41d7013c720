SPECIFICATION Spec
CONSTANTS
    Procs = {p1}
    Urls = {"u"}
    PositiveTtl = 1
    NegativeTtl = 1
    Cooldown = 1
    Limit = 1
    RetryCount = 1
    MlEnabled = TRUE
    MonthLength = 2
    MatchLife = 2
    MaxTime = 2
    MaxAlerts = 1
    MaxSwitches = 0
    MaxFaults = 0
INVARIANTS
    CallsWithinLimit
CHECK_DEADLOCK FALSE
