\* Two requests at a time, a storage fault and a restart.
CONSTANTS
    s1 = s1
    s2 = s2
    u1 = u1
    Packs = {s1, s2, u1}
    SignedPacks = {s1, s2}
    VersionOf <- VersionOfPack
    None = None
    Requests = {r1, r2}
    MaxRequests = 3
    MaxFaults = 1
    MaxStops = 1
SPECIFICATION Spec
SYMMETRY RequestSymmetry
INVARIANTS
    TypeOK
    UnsignedServesNoActions
    ServesOnlyReviewed
PROPERTIES
    UndisturbedActivationIsWhole
CHECK_DEADLOCK FALSE
