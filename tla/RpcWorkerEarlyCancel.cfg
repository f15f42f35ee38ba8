SPECIFICATION Spec
CONSTANTS
    Calls = {c1}
    NoCall = NoCall
    Overflow = Overflow
    Capacity = 1
    Buffer = 1
    Budgeted = {}
    MaxGeneration = 0
INVARIANT CancelledNotDelivered
CHECK_DEADLOCK FALSE
