SPECIFICATION Spec
CONSTANTS
    Keys <- MCKeys
    BatchSizes = {1, 2, 3}
    Limits = {0, 1, 3, 4}
    Offsets = {0, 1}
INVARIANTS TypeOK LimitHeld NothingLost CursorReady
PROPERTY ImplementsScan
CHECK_DEADLOCK FALSE
