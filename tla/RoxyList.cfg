SPECIFICATION Spec
CONSTANTS
    Val = {v1, v2}
    Junk = Junk
    None = None
    InitialCapacity = 2
    ByPointer = FALSE
    PopsEmpty = FALSE
    Reserve = {0, 1, 3}
    MaxCapacity = 4
    MaxBorrows = 2
INVARIANTS
    ElementsInPlace
    BorrowedElementsStay
PROPERTY
    ImplementsContract
