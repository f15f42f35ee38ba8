\* Two requests and a send share two ids over two sessions: exhaustion, a full table,
\* further connects by command and lost sessions happen.
SPECIFICATION MCSpec
CONSTANTS
    a = a
    b = b
    s = s
    Calls = {a, b, s}
    Sends = {s}
    MaxId = 2
    MaxQueued = 2
    Advertised <- MCAdvertised
    MaxGeneration = 1
    MaxConnects = 2
    Connect = Connect
    Close = Close
    Free = Free
    Tombstone = Tombstone
    NoCall = NoCall
INVARIANTS
    TypeOK
    SessionFence
    NothingStranded
    InFlightBound
    MisdeliveryNeedsReset
SYMMETRY CallSymmetry
CHECK_DEADLOCK FALSE
