SPECIFICATION Spec
CONSTANTS
    TextLength = 54
    HalfYear = 180
    MaxRedirects = 4
    SampleSize = 5
    MaxThreads = 3
INVARIANTS
    TypeOK
    RowsComplete
PROPERTIES
    CollectionEnds
    SkewIsKnown
CHECK_DEADLOCK FALSE
