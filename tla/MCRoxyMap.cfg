SPECIFICATION Spec
CONSTANTS
    ka = ka
    kb = kb
    kc = kc
    kd = kd
    ke = ke
    kn = kn
    sa = sa
    sb = sb
    None = None
    Key = {ka, kb, ke, kn}
    Val = {v1, v2}
    Class = {ka, kb, ke, kn}
    Content <- FloatContent
    Unequal = {kn}
    Hash <- FloatHash
    InitialCapacity = 2
    DistanceValues = 256
    Counted = FALSE
    ByReference = FALSE
    ByPointer = FALSE
    MaxCapacity = 4
    MaxBorrows = 2
INVARIANTS
    RobinHoodOrder
    RoomForAProbeToEnd
    BorrowedValuesStay
PROPERTY
    ImplementsContract
