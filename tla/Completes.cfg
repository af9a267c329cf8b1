SPECIFICATION FairSpec
CONSTANTS
    MaxJobs = 3
    Users = {u1}
    RepoURLs = {r1}
    Cloneable = {r1}
    Prefixed = {r1}
    DocTypes = {readme}
    SweepLimit = 1
    NoMsg = NoMsg
    Workers = {w1}
    Clients = {c1}
    HasApiKey = TRUE
    Faults = {}
PROPERTIES
    SubmittedCompletes
CHECK_DEADLOCK FALSE
