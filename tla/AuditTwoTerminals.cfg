\* One storage fault has the ledger reopened while a call is still to record its outcome.
CONSTANTS
    Calls = {c1, c2}
    e1 = e1
    Endpoints = {e1}
    EndpointOf <- OneEndpoint
    HandlerOutcomes = {"ok"}
    AvailableBytes <- RoomForTwo
    HealthCheck = HealthCheck
    NoCall = NoCall
    MaxFaults = 1
    MaxCancels = 0
    MaxCrashes = 0
SPECIFICATION Spec
INVARIANTS
    OneTerminalRecord
CHECK_DEADLOCK FALSE
