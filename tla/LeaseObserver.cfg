\* One change, one lost session or a close(), a failing request, a receiver of one entry,
\* and one notice of another registration after the other, for ever.
SPECIFICATION FairSpec
CONSTANTS
    Capacity = 1
    MaxChanges = 1
    MaxOthers = 1
    MaxGeneration = 1
    MaxFailures = 1
INVARIANT
    AsleepMeansCurrent
PROPERTIES
    NothingSuperseded
    Converges
    ShutdownStops
CHECK_DEADLOCK FALSE
