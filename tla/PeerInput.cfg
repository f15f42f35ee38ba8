\* Three frames of up to three bytes and two interruptions; payloads of up to seven
\* cells; routes and patterns of up to four segments; five schedules, two to a page;
\* two grants and two calls over two sessions, reads and enqueues tried twice.
SPECIFICATION MCSpec
CONSTANTS
    Prefix = 2
    Sizes = {1, 2, 3}
    MaxSent = 3
    MaxCommands = 2
    Idle = 3
    Timeout = 2
    MaxCell = 3
    MaxCells = 7
    Literals = {"a", "b"}
    MaxSegments = 4
    Depths = {0, 3}
    Schedules = {1, 2, 3, 4, 5}
    Selected = {1, 3, 4, 5}
    PageSize = 2
    MaxTries = 2
    MaxChanges = 2
    Handles = {h1, h2}
    Calls = {c1, c2}
    NoHandle = NoHandle
    MaxAttempts = 2
    MaxGeneration = 1
SYMMETRY Symmetry
INVARIANTS
    CutRightUnlessTorn
    HeartbeatExact
    AcceptedIsWellFormed
    MatchIsExact
    ValidationIsExact
    ListingComplete
    OneCompletion
    OwnGrant
    EnqueuedOnce
CHECK_DEADLOCK FALSE
