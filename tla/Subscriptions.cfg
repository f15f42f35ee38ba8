\* Two own registrations over three sessions with a receiver that can overflow;
\* three handles at two places and one unsubscribe_all over two sessions.
SPECIFICATION MCSpec
CONSTANTS
    Subs = {s1, s2}
    Nobody = Nobody
    WireIds <- MCWireIds
    Capacity = 1
    MaxGeneration = 2
    MaxNotices = 2
    Sharers = {h1, h2, h3}
    Clears = {t1}
    Places = {k1, k2}
    Main = k1
    BrokerIds = {i1, i2}
    NoId = NoId
    NoTask = NoTask
    NoEntry = NoEntry
    MaxLosses = 1
SYMMETRY Symmetry
INVARIANTS
    OwnWireId
    RegistrationsRestored
    SameSessionRouting
    StillServed
    NothingLeftBehind
CHECK_DEADLOCK FALSE
