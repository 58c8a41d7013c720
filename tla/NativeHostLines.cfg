SPECIFICATION Spec
CONSTANTS
    Hosts = {1}
    MaxLog = 2
    RotatedLogs = 2
    LockTimeout = 0
    StaleAge = 1
    MaxLines = 2
    MaxCrashes = 1
    MaxFaults = 0
INVARIANTS
    AcceptedLinesAreComplete
CHECK_DEADLOCK FALSE
