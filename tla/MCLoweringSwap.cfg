SPECIFICATION Spec
CONSTANTS
    Function <- Swaps
    PoolLimit = 256
    None = None
INVARIANT OperandsHold
CHECK_DEADLOCK FALSE
