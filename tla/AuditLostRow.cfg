\* Two cancelled appends leave threads at work beside the append of a third call.
CONSTANTS
    Calls = {c1, c2, c3}
    e1 = e1
    Endpoints = {e1}
    EndpointOf <- OneEndpoint
    HandlerOutcomes = {"ok"}
    AvailableBytes <- RoomForTwo
    HealthCheck = HealthCheck
    NoCall = NoCall
    MaxFaults = 0
    MaxCancels = 2
    MaxCrashes = 0
SPECIFICATION Spec
INVARIANTS
    AttemptBeforeHandler
CHECK_DEADLOCK FALSE
