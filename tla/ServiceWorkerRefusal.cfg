SPECIFICATION Spec
CONSTANTS
    MaxEvents = 2
    MaxQueue = 2
    Invalid = {2}
    Oversize = {}
    MaxFaults = 1
    MaxChain = 2
INVARIANTS
    OnlyInvalidEventsRefused
