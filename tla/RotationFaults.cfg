\* Two targets in batches of one row, two rotations, two requests, a fault and
\* a crash.
CONSTANTS
    TargetCount = 2
    Writers = {w1, w2}
    BatchSize = 1
    MaxKeys = 3
    MaxFaults = 1
    MaxCrashes = 1
SPECIFICATION Spec
SYMMETRY WriterSymmetry
INVARIANTS
    TypeOK
    WrittenRowsKeepTheirKeys
    RunningRotationHasItsKey
    CompletionMovedEveryRow
    QuarantineIsFinal
CHECK_DEADLOCK FALSE
