SPECIFICATION FairSpec
CONSTANTS
    MaxJobs = 1
    Users = {u1}
    RepoURLs = {r1}
    Cloneable = {r1}
    Prefixed = {r1}
    DocTypes = {readme}
    SweepLimit = 1
    NoMsg = NoMsg
    Workers = {w1, w2}
    Clients = {c1}
    HasApiKey = TRUE
    Faults = {"db"}
PROPERTIES
    StoreIsRetried
CHECK_DEADLOCK FALSE
