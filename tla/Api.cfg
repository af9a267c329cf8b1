SPECIFICATION Spec
CONSTANTS
    Emails = {e1, e2}
    Owners = {e1, e2}
    Passwords = {p1, p2}
    NoUser = NoUser
    ExpiryHours = 1
    MaxHour = 1
    MaxGrants = 2
    MaxJobs = 3
    Times = {1, 2, 3}
    NotANumber = NotANumber
    Params = {NotANumber, 0, 1, 2, 9}
    DefaultPerPage = 2
    MaxPerPage = 3
SYMMETRY ApiSymmetry
INVARIANTS
    TypeOK
    FirstWins
    OnlyOwnJobs
    NoneSkipped
    NoneTwice
