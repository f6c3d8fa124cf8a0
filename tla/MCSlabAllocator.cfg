CONSTANTS
    small = small
    big = big
    LARGE = LARGE
    NIL = NIL
    None = None
    Class <- MCClass
    SlotCount <- MCSlotCount
    MaxSlabs = 2
    MaxLarge = 1
    MaxGen = 4
SPECIFICATION Spec
INVARIANTS
    FreeListIsExactlyTheFreeSlots
    GenerationsIdentifyObjects
    CensusBalances
    WeakRefsTellTheTruth
PROPERTIES
    RemappedSlabsAreFrozen
    ImplementsWeakHeap
CHECK_DEADLOCK FALSE
