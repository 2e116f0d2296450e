\* Two requests that register, edit, recheck and delete two targets of two products, where
\* an edit may keep the CA that another edit replaces; or one admin page after another over
\* targets, two keys, the mode and the appliance CA.
CONSTANTS
    Requests = {r1, r2}
    Targets = {t1, t2}
    Keys = {k1, k2}
    Backends = {ops, nsx}
    Fqdns = {f1, f2}
    Secrets = {s1}
    Bundles = {ca1}
    ApplianceBundles = {ca2, ca3}
    None = None
    Kept = Kept
    Fresh = Fresh
    Gone = Gone
    MaxGeneration = 2
    MaxKeyChanges = 1
    MaxEvents = 1
SPECIFICATION Spec
SYMMETRY RegistrySymmetry
CONSTRAINT EditsOrKeys
INVARIANTS
    TypeOK
    StoredWasVerified
    RetiredEndpointsNeedRestart
    ActiveKeysFitTheRegistry
PROPERTIES
    OnlyAuditedProbesSave
    ConfirmedIsWhatIsRemoved
CHECK_DEADLOCK FALSE
