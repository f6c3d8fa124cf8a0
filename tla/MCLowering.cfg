SPECIFICATION Spec
CONSTANTS
    Function <- Compiled
    PoolLimit = 2
    None = None
INVARIANTS
    OperandsHold
    NothingReleasedTwice
    NothingLeaks
    LiveRegistersAreApart
CHECK_DEADLOCK FALSE
