SPECIFICATION FairSpec
CONSTANTS
    Calls = {c1}
    NoCall = NoCall
    Overflow = Overflow
    Capacity = 1
    Buffer = 1
    Budgeted = {c1}
    MaxGeneration = 1
PROPERTIES
    DisconnectCancels
    CancellationArrives
    ReleaseAcknowledged
CHECK_DEADLOCK FALSE
