\* Three calls for two slots, and two events of any sort.
CONSTANTS
    Calls = {c1, c2, c3}
    NoCall = NoCall
    Kinds = {"ops", "vcenter", "ops_token", "ops_exchange", "static"}
    MaxConcurrency = 2
    Max429Retries = 1
    MaxReauth = 1
    MaxEvents = 2
SPECIFICATION Spec
SYMMETRY CallSymmetry
INVARIANTS
    TypeOK
    ExhaustionNeedsTwoSessions
    SlotsAndLockAccounted
    TransportOutlivesItsRequests
PROPERTIES
    OneSignInPerSpentSession
CHECK_DEADLOCK FALSE
