------------------------------ MODULE Accounts ------------------------------
(***************************************************************************)
(* Register and Login, the users table, and the tokens that JWTAuth        *)
(* accepts.  Nothing deletes a user or changes an email, so that an email  *)
(* stands for the row and for the id in a token; a password stands for its *)
(* hash.  Time passes in hours.                                            *)
(***************************************************************************)
EXTENDS Integers, Sequences

CONSTANTS
    Emails,       \* the emails that are used
    Passwords,    \* the passwords that are used
    NoUser,       \* no row has this email
    ExpiryHours,  \* cfg.JWTExpiryHours: any integer, it has no lower limit
    MaxHour,      \* bound: the hours that pass
    MaxGrants     \* bound: the answers 201 that are counted for an email

ASSUME NoUserAssumption == NoUser \notin Passwords
ASSUME HoursAssumption == ExpiryHours \in Int /\ MaxHour \in Nat /\ MaxGrants \in Nat

VARIABLES
    users,        \* users[e]: the password of the row with email e, or NoUser
    granted,      \* history: granted[e]: the passwords of the 201 answers for e
    hour,         \* time.Now()
    token,        \* the token that the client has, NoToken before the first
    login         \* history: the email and password the client got it for

accountVars == <<users, granted, hour, token, login>>

NoToken == [sub |-> NoUser, exp |-> 0]
NoLogin == [email |-> NoUser, password |-> NoUser]

AccountsTypeOK ==
    /\ users \in [Emails -> Passwords \cup {NoUser}]
    /\ granted \in [Emails -> Seq(Passwords)]
    /\ \A e \in Emails : Len(granted[e]) <= MaxGrants
    /\ hour \in 0..MaxHour
    /\ token \in [sub : Emails, exp : Int] \cup {NoToken}
    /\ login \in [email : Emails, password : Passwords] \cup {NoLogin}

AccountsInit ==
    /\ users = [e \in Emails |-> NoUser]
    /\ granted = [e \in Emails |-> << >>]
    /\ hour = 0
    /\ token = NoToken
    /\ login = NoLogin

-----------------------------------------------------------------------------
\* Mutant of CreateUser: ON CONFLICT (email) DO UPDATE SET password_hash.
UpsertUser(e, p) == users' = [users EXCEPT ![e] = p]

\* INSERT INTO users: email is UNIQUE.
CreateUser(e, p) ==
    /\ users[e] = NoUser
    /\ users' = [users EXCEPT ![e] = p]

\* Register: 201, or 500 if the reply of the database is lost.  With 400 and
\* 409 nothing changes.
Register(e, p) ==
    /\ Len(granted[e]) < MaxGrants
    /\ CreateUser(e, p)
    /\ granted' \in {granted, [granted EXCEPT ![e] = Append(@, p)]}
    /\ UNCHANGED <<hour, token, login>>

\* Login: GetUserByEmail finds the row and the password fits.  The handler does
\* not look at the row again, nor does it change.  With 401 nothing changes.
Login(e, p) ==
    /\ users[e] = p
    /\ token' = [sub |-> e, exp |-> hour + ExpiryHours]
    /\ login' = [email |-> e, password |-> p]
    /\ UNCHANGED <<users, granted, hour>>

Tick ==
    /\ hour < MaxHour
    /\ hour' = hour + 1
    /\ UNCHANGED <<users, granted, token, login>>

\* JWTAuth lets a request through: it has a token with the right signature and
\* a subject, that has not expired.  GetUserID takes the subject for the user.
Authorized(user) ==
    /\ token # NoToken
    /\ hour < token.exp
    /\ user = token.sub

=============================================================================
