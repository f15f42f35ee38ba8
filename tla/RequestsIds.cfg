\* Two requests in flight in one session never share a correlation id.
SPECIFICATION Spec
CONSTANTS
    a = a
    b = b
    s = s
    Calls = {a, b}
    Sends = {}
    MaxId = 2
    MaxQueued = 2
    Advertised <- MCAdvertised
    MaxGeneration = 1
    MaxConnects = 1
    Connect = Connect
    Close = Close
    Free = Free
    Tombstone = Tombstone
    NoCall = NoCall
INVARIANT
    IdsNotReused
CHECK_DEADLOCK FALSE
