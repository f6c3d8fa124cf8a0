SPECIFICATION Spec
CONSTANTS
    ka = ka
    kb = kb
    kc = kc
    kd = kd
    ke = ke
    kn = kn
    sa = sa
    sb = sb
    None = None
    Key = {sa, sb, kb}
    Val = {v1, v2}
    Class = {ka, kb}
    Content <- StringContent
    Unequal = {}
    Hash <- StringHash
    InitialCapacity = 2
    DistanceValues = 256
    Counted = TRUE
    ByReference = TRUE
    ByPointer = FALSE
    MaxCapacity = 4
    MaxBorrows = 1
INVARIANTS
    HoldingsAreCounted
SYMMETRY LikeObjects
