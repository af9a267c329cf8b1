SPECIFICATION FairSpec
CONSTANTS
    MaxJobs = 2
    Users = {u1}
    RepoURLs = {r1}
    Cloneable = {r1}
    Prefixed = {r1}
    DocTypes = {readme}
    SweepLimit = 1
    NoMsg = NoMsg
    Workers = {w1, w2}
    Clients = {c1}
    HasApiKey = TRUE
    Faults = {"stage", "signal", "crash"}
INVARIANTS
    NoSendAfterClose
PROPERTIES
    QueuedIsServed
    ShutdownEnds
