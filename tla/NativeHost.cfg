SPECIFICATION FairSpec
CONSTANTS
    Hosts = {1, 2}
    MaxLog = 1
    RotatedLogs = 2
    LockTimeout = 0
    StaleAge = 1
    MaxLines = 5
    MaxCrashes = 1
    MaxFaults = 1
INVARIANTS
    TypeOK
    LockExcludes
    FilesInOrder
PROPERTIES
    RetentionKept
    EveryMessageAnswered
CHECK_DEADLOCK FALSE
