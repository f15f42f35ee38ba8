SPECIFICATION FairSpec
CONSTANTS
    Buffer = 2
    MaxFrames = 1
    MaxGeneration = 1
INVARIANTS
    CancelledOnce
PROPERTIES
    UnwantedCallCancelled
    StreamEnds
CHECK_DEADLOCK FALSE
