SPECIFICATION Spec
CONSTANTS
    Calls = {c1, c2}
    NoCall = NoCall
    Overflow = Overflow
    Capacity = 1
    Buffer = 1
    Budgeted = {}
    MaxGeneration = 1
SYMMETRY Symmetry
INVARIANTS
    LostContextsCancelled
    DropLeavesNothing
    AckMeansReleased
CHECK_DEADLOCK FALSE
