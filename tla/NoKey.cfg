SPECIFICATION SupervisedSpec
CONSTANTS
    MaxJobs = 2
    Users = {u1}
    RepoURLs = {r1, r2}
    Cloneable = {r1}
    Prefixed = {r1, r2}
    DocTypes = {readme}
    SweepLimit = 1
    NoMsg = NoMsg
    Workers = {w1, w2}
    Clients = {c1}
    HasApiKey = FALSE
    Faults = {"db", "stage"}
PROPERTIES
    NoCrashLoop
CHECK_DEADLOCK FALSE
