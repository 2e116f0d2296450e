\* Three calls, one admin change and one disturbance, for one slot.
CONSTANTS
    Calls = {c1, c2, c3}
    Edits = {e1}
    NoClient = NoClient
    MaxConcurrency = 1
    AUTH_FAILURE_LIMIT = 1
    MaxEvents = 1
SPECIFICATION Spec
SYMMETRY CallSymmetry
INVARIANTS
    TypeOK
    CancelIsFinal
    TrustIsCurrent
    OnlyTheCachedClientIsOpen
    WrongPasswordIsBounded
    NothingIsStuck
CHECK_DEADLOCK FALSE
