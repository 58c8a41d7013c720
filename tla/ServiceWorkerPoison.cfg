SPECIFICATION FairSpec
CONSTANTS
    MaxEvents = 2
    MaxQueue = 2
    Invalid = {}
    Oversize = {1}
    MaxFaults = 0
    MaxChain = 2
PROPERTIES
    NothingBlocksTheQueue
