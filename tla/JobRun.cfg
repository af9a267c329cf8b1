SPECIFICATION Spec
CONSTANTS
    Workers = {w1, w2}
    Rpm = 2
    Minute = 4
    CallsPerJob = 3
    MaxRuns = 3
    MaxTime = 7
SYMMETRY WorkerSymmetry
INVARIANTS
    TypeOK
    Spacing
    TickSoon
    DirsOwned
    HasItsDir
CHECK_DEADLOCK FALSE
