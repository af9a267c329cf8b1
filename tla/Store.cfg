SPECIFICATION Spec
CONSTANTS
    MaxJobs = 2
    Users = {u1}
    RepoURLs = {r1, r2}
    DocTypes = {readme, quickstart, diagram}
    SweepLimit = 1
    NoMsg = NoMsg
    readme = readme
    quickstart = quickstart
    diagram = diagram
    Place <- DocPlaces
INVARIANTS
    TypeOK
    AllOrNothing
    RowIsKept
    CacheFromCommitted
    WaitsUpward
PROPERTIES
    AtomicSpec
    NobodyWaitsForEver
CHECK_DEADLOCK FALSE
