\* At most one reconnect attempt per connect_and_run.
SPECIFICATION FairSpec
CONSTANTS
    k1 = k1
    k2 = k2
    Connectors = {k1, k2}
    Close = Close
    NoConnector = NoConnector
    MaxQueued = 2
    ReconnectEnabled = TRUE
    MaximumAttempts = 1
    MaxGeneration = 3
    MaxAttempts = 3
INVARIANTS
    AuthenticatedMeansServing
    ConnectHeld
    AttemptsBounded
PROPERTIES
    CloseWins
    ImplementsSessionLife
CHECK_DEADLOCK FALSE
