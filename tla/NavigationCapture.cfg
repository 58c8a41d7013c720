SPECIFICATION Spec
CONSTANTS
    NoDoc = NoDoc
    Doc = Doc
    NoDocument = NoDoc
    Navigations <- MCNavigations
    Window = 1
    MaxQueue = 1
    MaxTime = 3
    MaxReports = 3
    MaxRetries = 1
    MaxStops = 1
INVARIANTS
    TypeOK
    SuppressedHasTwin
    CapturedAreApart
    EventsAreAccounted
PROPERTIES
    RedactionIsRepeated
    QueryStructureKept
CHECK_DEADLOCK FALSE
