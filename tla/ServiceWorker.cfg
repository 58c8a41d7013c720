SPECIFICATION FairSpec
CONSTANTS
    MaxEvents = 4
    MaxQueue = 2
    Invalid = {2}
    Oversize = {3}
    MaxFaults = 3
    MaxChain = 2
INVARIANTS
    TypeOK
    HeadInFlight
    NoSilentLoss
    OrderPreserved
PROPERTIES
    DeliverySpec
    EventuallySettled
    ChainMoves
