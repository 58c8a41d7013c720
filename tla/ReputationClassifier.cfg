SPECIFICATION Spec
CONSTANTS
    Procs = {p1, p2}
    Urls = {"u"}
    PositiveTtl = 1
    NegativeTtl = 1
    Cooldown = 2
    Limit = 2
    RetryCount = 1
    MlEnabled = TRUE
    MonthLength = 2
    MatchLife = 2
    MaxTime = 2
    MaxAlerts = 3
    MaxSwitches = 1
    MaxFaults = 1
SYMMETRY Symmetry
INVARIANTS
    TypeOK
    VerdictsAreGrounded
    OutboundIsReserved
    OpenBreakerStopsCalls
    BreakerIsTemporary
CHECK_DEADLOCK FALSE
