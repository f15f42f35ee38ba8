\* Two frames and one command.
SPECIFICATION FramingSpec
CONSTANTS
    Prefix = 2
    Sizes = {1, 2}
    MaxSent = 2
    MaxCommands = 1
INVARIANT
    CutRight
CHECK_DEADLOCK FALSE
