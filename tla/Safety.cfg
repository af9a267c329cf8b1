SPECIFICATION Spec
CONSTANTS
    MaxJobs = 2
    Users = {u1, u2}
    RepoURLs = {r1}
    Cloneable = {r1}
    Prefixed = {r1}
    DocTypes = {readme, diagram}
    SweepLimit = 1
    NoMsg = NoMsg
    Workers = {w1, w2}
    Clients = {c1}
    HasApiKey = TRUE
    Faults = {"db", "stage", "slow", "signal", "crash"}
SYMMETRY WorkerSymmetry
INVARIANTS
    TypeOK
    OneHolder
    HolderInStage
    
    MessagesFaithful
    
PROPERTIES
    LifecycleSpec
    OnlyOwnerDeletes
    ExitDrains
