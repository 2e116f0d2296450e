\* Two calls for one slot, and two events of any sort.
CONSTANTS
    Calls = {c1, c2}
    NoCall = NoCall
    Kinds = {"ops", "sddc_token", "ops_exchange", "vcenter_session"}
    MaxConcurrency = 1
    Max429Retries = 1
    MaxReauth = 1
    MaxEvents = 2
SPECIFICATION Spec
PROPERTIES
    RequestsEnd
    RetirementEnds
CHECK_DEADLOCK FALSE
