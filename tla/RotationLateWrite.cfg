\* A creation encrypts before a rotation and commits after it.
CONSTANTS
    TargetCount = 2
    Writers = {w1}
    BatchSize = 2
    MaxKeys = 2
    MaxFaults = 0
    MaxCrashes = 0
SPECIFICATION Spec
INVARIANTS
    ReferencedKeysAreHeld
CHECK_DEADLOCK FALSE
