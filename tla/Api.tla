-------------------------------- MODULE Api ---------------------------------
(***************************************************************************)
(* The HTTP API as a client sees it: accounts and tokens, and the jobs     *)
(* that a token gives access to.  One client reads; others register,       *)
(* submit and delete at any time.                                          *)
(***************************************************************************)
EXTENDS Accounts, ListJobs

ASSUME OwnersAssumption == Owners \subseteq Emails

vars == <<accountVars, listVars>>

TypeOK == AccountsTypeOK /\ ListTypeOK

Init == AccountsInit /\ ListInit

\* Anybody registers; the client logs in when it has no request on its way.
Auth ==
    /\ \/ \E e \in Emails, p \in Passwords : Register(e, p)
       \/ /\ req.pc = "idle"
          /\ shown = {}
          /\ \E e \in Emails, p \in Passwords : Login(e, p)
       \/ Tick
    /\ UNCHANGED listVars

\* Statements of other requests: a job is inserted for a user that has an
\* account (jobs.user_id REFERENCES users), or deleted.
Others ==
    /\ \/ \E user \in Owners, at \in Times : users[user] # NoUser /\ InsertJob(user, at)
       \/ \E row \in jobs : RemoveJob(row)
    /\ UNCHANGED accountVars

\* The routes behind JWTAuth.  A token that expires in the middle of a walk
\* ends it: the next request is answered with 401.
Routes ==
    /\ \/ /\ \/ \E user \in Owners, page, perPage \in Params :
                  Authorized(user) /\ Ask(user, page, perPage)
             \/ \E user \in Owners, id \in 1..MaxJobs :
                  Authorized(user) /\ GetJobById(user, id)
             \/ NextPage /\ Authorized(req.user)
       \/ Count \/ List \/ Leave
    /\ UNCHANGED accountVars

Next == Auth \/ Others \/ Routes

Spec == Init /\ [][Next]_vars

-----------------------------------------------------------------------------
\* Whoever is told 201 has the account: the row holds the password of that
\* answer for good, nobody else was or will be told the same, however many
\* register the email at once (authHandler.go:75-89).
FirstWins ==
    \A e \in Emails :
        /\ Len(granted[e]) <= 1
        /\ \A i \in DOMAIN granted[e] : granted[e][i] = users[e]

\* Through login, token, middleware and query: what a client is shown are jobs
\* of the user whose password it has given, which still is that user's
\* (authHandler.go:138-147, auth.go:38-58, jobs.sql: WHERE user_id).
OnlyOwnJobs ==
    \A row \in shown :
        /\ row.user = login.email
        /\ users[login.email] = login.password

=============================================================================
