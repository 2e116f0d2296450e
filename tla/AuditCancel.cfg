\* Cancellations that leave two threads behind beside a third call, and a storage
\* fault or a crash.
CONSTANTS
    Calls = {c1, c2, c3}
    e1 = e1
    Endpoints = {e1}
    EndpointOf <- OneEndpoint
    HandlerOutcomes = {"ok"}
    AvailableBytes <- RoomForTwo
    HealthCheck = HealthCheck
    NoCall = NoCall
    MaxFaults = 1
    MaxCancels = 2
    MaxCrashes = 1
SPECIFICATION Spec
SYMMETRY CallSymmetry
CONSTRAINT OneDisturbance
INVARIANTS
    LeaseAccounting
    LeasesCoverOwedRows
    ReadyMeansReconciled
    OnlyCancelledAttemptsLeak
PROPERTIES
    TrailUntilCrowded
CHECK_DEADLOCK FALSE
