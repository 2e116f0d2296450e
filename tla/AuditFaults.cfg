\* Storage faults and a crash, no cancellation: one endpoint.
CONSTANTS
    Calls = {c1, c2, c3}
    e1 = e1
    Endpoints = {e1}
    EndpointOf <- OneEndpoint
    HandlerOutcomes = {"ok"}
    AvailableBytes <- RoomForTwo
    HealthCheck = HealthCheck
    NoCall = NoCall
    MaxFaults = 1
    MaxCancels = 0
    MaxCrashes = 1
SPECIFICATION FairSpec
INVARIANTS
    TypeOK
    AdmissionAccountsForAll
PROPERTIES
    AttemptsConcluded
    CallsEnd
CHECK_DEADLOCK FALSE
