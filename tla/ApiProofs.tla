----------------------------- MODULE ApiProofs ------------------------------
(***************************************************************************)
(* Theorems about Api, for any users, jobs, query parameters and expiry.   *)
(***************************************************************************)
EXTENDS Api, FiniteSetTheorems, SequenceTheorems, TLAPS

\* A request on its way is one of the user that the client has logged in as.
Request == [pc : {"count", "list", "answered"}, user : Owners,
            page : Nat \ {0}, perPage : Nat \ {0}, count : Nat]

AccountsInv ==
    /\ users \in [Emails -> Passwords \cup {NoUser}]
    /\ granted \in [Emails -> Seq(Passwords)]
    /\ \A e \in Emails : users[e] = NoUser => granted[e] = << >>
    /\ FirstWins

LoginInv ==
    token # NoToken =>
        /\ login.email \in Emails
        /\ login.password \in Passwords
        /\ token.sub = login.email
        /\ users[login.email] = login.password

\* The page that is listed begins before the end of what was counted.
PageInRange ==
    req.pc = "list" => /\ req.count > 0
                       /\ Offset(req.page, req.perPage) \in Nat
                       /\ Offset(req.page, req.perPage) < req.count

RequestInv ==
    /\ IsFiniteSet(jobs)
    /\ req = NoReq \/ (req \in Request /\ token # NoToken /\ req.user = login.email)
    /\ \A row \in shown : token # NoToken /\ row.user = login.email

ApiInv ==
    /\ AccountsInv
    /\ LoginInv
    /\ RequestInv
    /\ PageInRange

-----------------------------------------------------------------------------
(***************************************************************************)
(* Page arithmetic                                                         *)
(***************************************************************************)
LEMMA MaxPageBounds ==
  ASSUME NEW count \in Nat \ {0}, NEW perPage \in Nat \ {0}
  PROVE  /\ MaxPage(count, perPage) \in Nat \ {0}
         /\ perPage * MaxPage(count, perPage) <= count + perPage - 1
<1>1. count + perPage - 1 \in Nat
  OBVIOUS
<1> QED
  BY <1>1 DEF MaxPage

\* No page up to the last one begins behind the rows.
LEMMA OffsetBounds ==
  ASSUME NEW count \in Nat \ {0}, NEW perPage \in Nat \ {0}, NEW page \in Nat \ {0},
         page <= MaxPage(count, perPage)
  PROVE  Offset(page, perPage) \in Nat /\ Offset(page, perPage) < count
<1> DEFINE last == MaxPage(count, perPage)
<1>1. last \in Nat \ {0} /\ perPage * last <= count + perPage - 1
  BY MaxPageBounds
<1> HIDE DEF last
<1>2. (page - 1) * perPage \in Nat
  OBVIOUS
<1>3. (page - 1) * perPage <= (last - 1) * perPage
  <2>1. page <= last
    BY DEF last
  <2> QED
    BY <1>1, <2>1
<1>4. (last - 1) * perPage = perPage * last - perPage
  BY <1>1
<1>5. perPage * last \in Nat
  BY <1>1
<1> QED
  BY <1>1, <1>2, <1>3, <1>4, <1>5 DEF Offset

LEMMA ParamsPositive ==
  ASSUME NEW page \in Params, NEW perPage \in Params
  PROVE  PageParam(page) \in Nat \ {0} /\ PerPageParam(perPage) \in Nat \ {0}
BY PageAssumption DEF PageParam, PerPageParam

\* What is on a page are rows that were listed.
LEMMA SliceIsPart ==
  ASSUME NEW n \in Nat, NEW R, NEW order \in [1..n -> R],
         NEW limit \in Nat, NEW offset \in Nat,
         NEW i \in DOMAIN Slice(order, limit, offset)
  PROVE  Slice(order, limit, offset)[i] \in R
<1> DEFINE last == IF offset + limit > Len(order) THEN Len(order) ELSE offset + limit
<1>1. order \in Seq(R) /\ Len(order) = n
  BY SeqDef
<1>2. last \in Nat /\ last <= n
  BY <1>1
<1> HIDE DEF last
<1>3. Slice(order, limit, offset) = SubSeq(order, offset + 1, last)
  BY DEF Slice, last
<1>4. SubSeq(order, offset + 1, last) = [k \in 1..(last - offset) |-> order[offset + k]]
  BY <1>1, <1>2
<1>5. i \in 1..(last - offset)
  BY <1>3, <1>4
<1>6. offset + i \in 1..n
  BY <1>2, <1>5
<1> QED
  BY <1>1, <1>3, <1>4, <1>5, <1>6

-----------------------------------------------------------------------------
(***************************************************************************)
(* Steps                                                                   *)
(***************************************************************************)
LEMMA InitApiInv == Init => ApiInv
<1> SUFFICES ASSUME Init PROVE ApiInv
  OBVIOUS
<1>1. AccountsInv
  BY EmptySeq, LenProperties DEF Init, AccountsInit, AccountsInv, FirstWins
<1>2. LoginInv
  BY DEF Init, AccountsInit, LoginInv
<1>3. RequestInv
  BY FS_EmptySet DEF Init, ListInit, RequestInv
<1>4. PageInRange
  BY DEF Init, ListInit, NoReq, PageInRange
<1> QED
  BY <1>1, <1>2, <1>3, <1>4 DEF ApiInv

\* A registration adds a row where there was none: it is the first of its
\* email, and no row that somebody logs in with changes.
LEMMA RegisterStep ==
  ASSUME ApiInv, NEW e \in Emails, NEW p \in Passwords, Register(e, p), UNCHANGED listVars
  PROVE  ApiInv'
<1>1. /\ users \in [Emails -> Passwords \cup {NoUser}]
      /\ granted \in [Emails -> Seq(Passwords)]
      /\ \A f \in Emails : users[f] = NoUser => granted[f] = << >>
      /\ FirstWins
  BY DEF ApiInv, AccountsInv
<1>2. /\ users[e] = NoUser
      /\ users' = [users EXCEPT ![e] = p]
      /\ granted' = granted \/ granted' = [granted EXCEPT ![e] = Append(@, p)]
      /\ UNCHANGED <<hour, token, login>>
  BY DEF Register, CreateUser
<1>3. granted[e] = << >>
  BY <1>1, <1>2
<1>4. Append(<< >>, p) = <<p>> /\ Len(<<p>>) = 1 /\ Len(<< >>) = 0 /\ <<p>> \in Seq(Passwords)
      /\ DOMAIN <<p>> = {1} /\ <<p>>[1] = p
  OBVIOUS
<1>5. granted'[e] \in {<< >>, <<p>>} /\ granted' \in [Emails -> Seq(Passwords)]
  BY <1>1, <1>2, <1>3, <1>4
<1>6. \A f \in Emails : f # e => users'[f] = users[f] /\ granted'[f] = granted[f]
  BY <1>1, <1>2
<1>7. users'[e] = p /\ users' \in [Emails -> Passwords \cup {NoUser}]
  BY <1>1, <1>2
<1>8. AccountsInv'
  <2>1. ASSUME NEW f \in Emails, users'[f] = NoUser PROVE granted'[f] = << >>
    BY <1>1, <1>6, <1>7, <2>1, NoUserAssumption
  <2>2. ASSUME NEW f \in Emails
        PROVE  Len(granted'[f]) <= 1 /\ \A i \in DOMAIN granted'[f] : granted'[f][i] = users'[f]
    <3>1. CASE f # e
      BY <1>1, <1>6, <3>1 DEF FirstWins
    <3>2. CASE f = e /\ granted'[e] = << >>
      BY <1>4, <3>2
    <3>3. CASE f = e /\ granted'[e] = <<p>>
      BY <1>4, <1>7, <3>3
    <3> QED
      BY <1>5, <3>1, <3>2, <3>3
  <2> QED
    BY <1>5, <1>7, <2>1, <2>2 DEF AccountsInv, FirstWins
<1>9. LoginInv'
  <2> SUFFICES ASSUME token # NoToken
               PROVE  /\ login.email \in Emails /\ login.password \in Passwords
                      /\ token.sub = login.email /\ users'[login.email] = login.password
    BY <1>2 DEF LoginInv
  <2>1. /\ login.email \in Emails /\ login.password \in Passwords
        /\ token.sub = login.email /\ users[login.email] = login.password
    BY DEF ApiInv, LoginInv
  <2>2. login.email # e
    BY <1>2, <2>1, NoUserAssumption
  <2> QED
    BY <1>6, <2>1, <2>2
<1>10. RequestInv' /\ PageInRange'
  BY <1>2 DEF ApiInv, RequestInv, PageInRange, listVars
<1> QED
  BY <1>8, <1>9, <1>10 DEF ApiInv

LEMMA AuthStep ==
  ASSUME ApiInv, Auth
  PROVE  ApiInv'
<1>1. ASSUME NEW e \in Emails, NEW p \in Passwords, Register(e, p), UNCHANGED listVars
      PROVE  ApiInv'
  BY <1>1, RegisterStep
<1>2. ASSUME NEW e \in Emails, NEW p \in Passwords, Login(e, p), req.pc = "idle",
             shown = {}, UNCHANGED listVars
      PROVE  ApiInv'
  <2>1. AccountsInv'
    BY <1>2 DEF Login, ApiInv, AccountsInv, FirstWins
  <2>2. LoginInv'
    BY <1>2 DEF Login, LoginInv
  <2>3. req = NoReq
    BY <1>2 DEF ApiInv, RequestInv, Request
  <2>4. RequestInv'
    BY <1>2, <2>3 DEF Login, ApiInv, RequestInv, listVars
  <2>5. PageInRange'
    BY <1>2 DEF Login, ApiInv, PageInRange, listVars
  <2> QED
    BY <2>1, <2>2, <2>4, <2>5 DEF ApiInv
<1>3. CASE Tick /\ UNCHANGED listVars
  BY <1>3 DEF Tick, listVars, ApiInv, AccountsInv, FirstWins, LoginInv, RequestInv, PageInRange
<1> QED
  BY <1>1, <1>2, <1>3 DEF Auth

LEMMA OthersStep ==
  ASSUME ApiInv, Others
  PROVE  ApiInv'
<1>1. AccountsInv' /\ LoginInv'
  BY DEF Others, accountVars, ApiInv, AccountsInv, FirstWins, LoginInv
<1>2. IsFiniteSet(jobs') /\ UNCHANGED <<req, shown>>
  <2>1. IsFiniteSet(jobs)
    BY DEF ApiInv, RequestInv
  <2>2. ASSUME NEW user \in Owners, NEW at \in Times, InsertJob(user, at)
        PROVE  IsFiniteSet(jobs') /\ UNCHANGED <<req, shown>>
    <3>1. PICK row : jobs' = jobs \cup {row} /\ UNCHANGED <<req, shown>>
      BY <2>2 DEF InsertJob
    <3> QED
      BY <2>1, <3>1, FS_AddElement
  <2>3. ASSUME NEW row \in jobs, RemoveJob(row)
        PROVE  IsFiniteSet(jobs') /\ UNCHANGED <<req, shown>>
    BY <2>1, <2>3, FS_RemoveElement DEF RemoveJob
  <2> QED
    BY <2>2, <2>3 DEF Others
<1>3. RequestInv' /\ PageInRange'
  BY <1>2 DEF Others, accountVars, ApiInv, RequestInv, PageInRange
<1> QED
  BY <1>1, <1>3 DEF ApiInv

LEMMA AskStep ==
  ASSUME ApiInv, NEW user \in Owners, NEW page \in Params, NEW perPage \in Params,
         Authorized(user), Ask(user, page, perPage), UNCHANGED accountVars
  PROVE  ApiInv'
<1> DEFINE p == PageParam(page)
           pp == PerPageParam(perPage)
<1>1. p \in Nat \ {0} /\ pp \in Nat \ {0}
  BY ParamsPositive
<1>2. token # NoToken /\ user = login.email
  BY DEF Authorized, ApiInv, LoginInv
<1>3. /\ req' = [pc |-> "count", user |-> user, page |-> p, perPage |-> pp, count |-> 0]
      /\ shown' = {} /\ jobs' = jobs /\ UNCHANGED accountVars
  BY DEF Ask
<1> HIDE DEF p, pp
<1>4. RequestInv'
  BY <1>1, <1>2, <1>3 DEF ApiInv, RequestInv, Request, accountVars
<1>5. AccountsInv' /\ LoginInv'
  BY <1>3 DEF accountVars, ApiInv, AccountsInv, FirstWins, LoginInv
<1>6. PageInRange'
  BY <1>3 DEF PageInRange
<1> QED
  BY <1>4, <1>5, <1>6 DEF ApiInv

LEMMA JobsAreCounted ==
  ASSUME IsFiniteSet(jobs), NEW user
  PROVE  /\ Cardinality(JobsOf(user)) \in Nat
         /\ IsFiniteSet(JobsByUser(user))
         /\ Cardinality(JobsByUser(user)) \in Nat
<1>1. IsFiniteSet(JobsByUser(user))
  BY FS_Subset DEF JobsByUser
<1>2. IsFiniteSet(JobsOf(user))
  <2> DEFINE f == [row \in JobsByUser(user) |-> row.id]
  <2>1. f \in Surjection(JobsByUser(user), JobsOf(user))
    BY DEF Surjection, JobsOf
  <2> QED
    BY <1>1, <2>1, FS_Surjection
<1> QED
  BY <1>1, <1>2, FS_CardinalityType

LEMMA CountStep ==
  ASSUME ApiInv, Count, UNCHANGED accountVars
  PROVE  ApiInv'
<1> DEFINE count == Cardinality(JobsOf(req.user))
           maxPage == MaxPage(count, req.perPage)
           page == IF req.page > maxPage THEN maxPage ELSE req.page
<1>1. /\ req.pc = "count" /\ shown' = {} /\ jobs' = jobs
      /\ req' = IF count = 0
                THEN [req EXCEPT !.pc = "answered"]
                ELSE [req EXCEPT !.pc = "list", !.count = count, !.page = page]
  BY DEF Count
<1>2. req \in Request /\ token # NoToken /\ req.user = login.email /\ IsFiniteSet(jobs)
  BY <1>1 DEF ApiInv, RequestInv, NoReq
<1>3. count \in Nat
  BY <1>2, JobsAreCounted
<1>4. req.perPage \in Nat \ {0} /\ req.page \in Nat \ {0}
  BY <1>2 DEF Request
<1>5. ASSUME count # 0
      PROVE  page \in Nat \ {0} /\ page <= maxPage
  <2>1. maxPage \in Nat \ {0}
    BY <1>3, <1>4, <1>5, MaxPageBounds
  <2> HIDE DEF maxPage
  <2> QED
    BY <1>4, <2>1
<1>6. ASSUME count # 0
      PROVE  Offset(page, req.perPage) \in Nat /\ Offset(page, req.perPage) < count
  BY <1>3, <1>4, <1>5, <1>6, OffsetBounds
<1> HIDE DEF count, maxPage, page
<1>7. RequestInv' /\ PageInRange'
  <2>1. CASE count = 0
    BY <1>1, <1>2, <2>1 DEF RequestInv, PageInRange, Request, accountVars
  <2>2. CASE count # 0
    <3>1. req' = [req EXCEPT !.pc = "list", !.count = count, !.page = page]
      BY <1>1, <2>2
    <3>2. /\ req' \in Request /\ req'.user = req.user /\ req'.count = count
          /\ req'.page = page /\ req'.perPage = req.perPage
      BY <1>2, <1>3, <1>5, <2>2, <3>1 DEF Request
    <3>3. PageInRange'
      BY <1>3, <1>6, <2>2, <3>2 DEF PageInRange, Offset
    <3> QED
      BY <1>1, <1>2, <3>2, <3>3 DEF RequestInv, accountVars
  <2> QED
    BY <2>1, <2>2
<1>8. AccountsInv' /\ LoginInv'
  BY DEF accountVars, ApiInv, AccountsInv, FirstWins, LoginInv
<1> QED
  BY <1>7, <1>8 DEF ApiInv

LEMMA ListStep ==
  ASSUME ApiInv, List, UNCHANGED accountVars
  PROVE  ApiInv'
<1> DEFINE rows == JobsByUser(req.user)
           n == Cardinality(rows)
           offset == Offset(req.page, req.perPage)
<1>1. req.pc = "list" /\ req' = [req EXCEPT !.pc = "answered"] /\ jobs' = jobs
  BY DEF List
<1>2. req \in Request /\ token # NoToken /\ req.user = login.email /\ IsFiniteSet(jobs)
  BY <1>1 DEF ApiInv, RequestInv, NoReq
<1>3. n \in Nat
  BY <1>2, JobsAreCounted
<1>4. req.perPage \in Nat /\ offset \in Nat
  BY <1>1, <1>2 DEF ApiInv, PageInRange, Request
<1>5. PICK order \in [1..n -> rows] :
        shown' = {Slice(order, req.perPage, offset)[i] :
                    i \in DOMAIN Slice(order, req.perPage, offset)}
  BY DEF List, Ordered
<1> HIDE DEF offset, n, rows
<1>6. \A row \in shown' : row \in rows
  BY <1>3, <1>4, <1>5, SliceIsPart
<1>7. \A row \in shown' : row.user = login.email
  BY <1>2, <1>6 DEF rows, JobsByUser
<1>8. RequestInv' /\ PageInRange'
  BY <1>1, <1>2, <1>7 DEF RequestInv, PageInRange, Request, accountVars
<1>9. AccountsInv' /\ LoginInv'
  BY DEF accountVars, ApiInv, AccountsInv, FirstWins, LoginInv
<1> QED
  BY <1>8, <1>9 DEF ApiInv

LEMMA RoutesStep ==
  ASSUME ApiInv, Routes
  PROVE  ApiInv'
<1>0. UNCHANGED accountVars
  BY DEF Routes
<1>1. AccountsInv' /\ LoginInv'
  BY <1>0 DEF accountVars, ApiInv, AccountsInv, FirstWins, LoginInv
<1>2. ASSUME NEW user \in Owners, NEW page \in Params, NEW perPage \in Params,
             Authorized(user), Ask(user, page, perPage)
      PROVE  ApiInv'
  BY <1>0, <1>2, AskStep
<1>3. ASSUME NEW user \in Owners, NEW id \in 1..MaxJobs,
             Authorized(user), GetJobById(user, id)
      PROVE  ApiInv'
  <2>1. token # NoToken /\ user = login.email
    BY <1>3 DEF Authorized, ApiInv, LoginInv
  <2>2. RequestInv' /\ PageInRange'
    BY <1>0, <1>3, <2>1 DEF GetJobById, ApiInv, RequestInv, PageInRange, accountVars
  <2> QED
    BY <1>1, <2>2 DEF ApiInv
<1>4. CASE NextPage
  <2>1. req' = [req EXCEPT !.pc = "count", !.page = @ + 1, !.count = 0]
    BY <1>4 DEF NextPage
  <2>2. req \in Request /\ token # NoToken /\ req.user = login.email
    BY <1>4 DEF NextPage, ApiInv, RequestInv, NoReq
  <2>3. req' \in Request /\ req'.user = req.user /\ req'.pc = "count"
    <3>1. req.page + 1 \in Nat \ {0}
      BY <2>2 DEF Request
    <3>2. req' = [req EXCEPT !.pc = "count", !.page = req.page + 1, !.count = 0]
      BY <2>1, <2>2 DEF Request
    <3> QED
      BY <2>2, <3>1, <3>2 DEF Request
  <2>4. RequestInv' /\ PageInRange'
    BY <1>0, <1>4, <2>2, <2>3 DEF NextPage, ApiInv, RequestInv, PageInRange, accountVars
  <2> QED
    BY <1>1, <2>4 DEF ApiInv
<1>5. CASE Count
  BY <1>0, <1>5, CountStep
<1>6. CASE List
  BY <1>0, <1>6, ListStep
<1>7. CASE Leave
  <2>1. RequestInv' /\ PageInRange'
    BY <1>0, <1>7 DEF Leave, NoReq, ApiInv, RequestInv, PageInRange, accountVars
  <2> QED
    BY <1>1, <2>1 DEF ApiInv
<1> QED
  BY <1>2, <1>3, <1>4, <1>5, <1>6, <1>7 DEF Routes

-----------------------------------------------------------------------------
(***************************************************************************)
(* The walk from page to page                                              *)
(***************************************************************************)
\* The last page reaches to the last job.
LEMMA PageHoldsAll ==
  ASSUME NEW count \in Nat, NEW perPage \in Nat \ {0}, NEW page \in Nat \ {0},
         page >= MaxPage(count, perPage)
  PROVE  count <= page * perPage
<1> DEFINE last == MaxPage(count, perPage)
<1>1. count + perPage - 1 \in Nat /\ last = (count + perPage - 1) \div perPage
  BY DEF MaxPage
<1>2. last \in Nat /\ count + perPage - 1 < perPage * (last + 1)
  BY <1>1
<1>3. page >= last
  OBVIOUS
<1> HIDE DEF last
<1>4. page * perPage >= last * perPage
  BY <1>2, <1>3
<1> QED
  BY <1>2, <1>4

\* Without jobs there is no page.
LEMMA NoPages ==
  ASSUME NEW perPage \in Nat \ {0}
  PROVE  MaxPage(0, perPage) = 0
<1> DEFINE q == (perPage - 1) \div perPage
<1>1. q \in Nat /\ perPage * q <= perPage - 1
  OBVIOUS
<1>2. q = 0
  <2> HIDE DEF q
  <2> SUFFICES ASSUME q >= 1 PROVE FALSE
    BY <1>1
  <2>1. perPage * q >= perPage
    BY <1>1
  <2> QED
    BY <1>1, <2>1
<1> QED
  BY <1>2 DEF MaxPage

\* A page ends where the next begins.
LEMMA NextOffset ==
  ASSUME NEW perPage \in Nat \ {0}, NEW page \in Nat \ {0}
  PROVE  /\ Offset(page, perPage) \in Nat
         /\ page * perPage \in Nat
         /\ Offset(page, perPage) + perPage = page * perPage
BY DEF Offset

\* The rows that LIMIT and OFFSET leave.
LEMMA SliceIs ==
  ASSUME NEW n \in Nat, NEW R, NEW order \in [1..n -> R],
         NEW limit \in Nat, NEW offset \in Nat
  PROVE  LET data == Slice(order, limit, offset)
         IN /\ data \in Seq(R)
            /\ \A i \in DOMAIN data : /\ i \in Nat \ {0} /\ i <= limit
                                      /\ offset + i \in 1..n /\ data[i] = order[offset + i]
            /\ \A k \in 1..n : offset < k /\ k <= offset + limit => k - offset \in DOMAIN data
<1> DEFINE last == IF offset + limit > Len(order) THEN Len(order) ELSE offset + limit
<1>1. order \in Seq(R) /\ Len(order) = n
  BY SeqDef
<1>2. last \in Nat /\ last <= n /\ last <= offset + limit /\ (last = n \/ last = offset + limit)
  BY <1>1
<1> HIDE DEF last
<1>3. Slice(order, limit, offset) = SubSeq(order, offset + 1, last)
  BY DEF Slice, last
<1>4. SubSeq(order, offset + 1, last) = [k \in 1..(last - offset) |-> order[offset + k]]
  BY <1>1, <1>2
<1>5. \A k \in 1..(last - offset) : offset + k \in 1..n /\ k <= limit
  BY <1>2
<1>6. SubSeq(order, offset + 1, last) \in Seq(R)
  BY <1>1, <1>2, <1>4, <1>5, SeqDef
<1> QED
  BY <1>2, <1>3, <1>4, <1>5, <1>6

\* An order of rows has each of them, and as many rows before one as are newer.
LEMMA OrderRanks ==
  ASSUME NEW rows, IsFiniteSet(rows), \A r \in rows : r.at \in Int,
         NEW order \in Ordered(rows)
  PROVE  /\ order \in [1..Cardinality(rows) -> rows]
         /\ \A row \in rows : \E k \in 1..Cardinality(rows) : order[k] = row
         /\ \A i, k \in 1..Cardinality(rows) : order[i] = order[k] => i = k
         /\ \A k \in 1..Cardinality(rows) :
              LET newer == {r \in rows : r.at > order[k].at}
              IN /\ Cardinality(newer) \in Nat /\ Cardinality(newer) <= k - 1
                 /\ ~Tied(rows) => Cardinality(newer) = k - 1
<1> DEFINE n == Cardinality(rows)
<1>1. n \in Nat
  BY FS_CardinalityType
<1>2. /\ order \in [1..n -> rows]
      /\ \A i, k \in 1..n : i < k => order[i] # order[k] /\ order[i].at >= order[k].at
  BY DEF Ordered
<1> HIDE DEF n
<1>3. \A i, k \in 1..n : order[i] = order[k] => i = k
  <2> SUFFICES ASSUME NEW i \in 1..n, NEW k \in 1..n, order[i] = order[k], i # k PROVE FALSE
    OBVIOUS
  <2>1. i < k \/ k < i
    BY <1>1
  <2> QED
    BY <1>2, <2>1
<1>4. order \in Injection(1..n, rows)
  BY <1>2, <1>3 DEF Injection, IsInjective
<1>5. order \in Surjection(1..n, rows)
  <2>1. IsFiniteSet(1..n) /\ Cardinality(1..n) = n
    BY <1>1, FS_Interval
  <2> QED
    BY <1>4, <2>1, FS_Injection DEF n
<1>6. \A row \in rows : \E k \in 1..n : order[k] = row
  BY <1>5 DEF Surjection
<1>7. ASSUME NEW k \in 1..n
      PROVE  LET newer == {r \in rows : r.at > order[k].at}
             IN /\ Cardinality(newer) \in Nat /\ Cardinality(newer) <= k - 1
                /\ ~Tied(rows) => Cardinality(newer) = k - 1
  <2> DEFINE newer == {r \in rows : r.at > order[k].at}
             front == {order[i] : i \in 1..(k - 1)}
             f == [i \in 1..(k - 1) |-> order[i]]
  <2>1. k - 1 \in Nat /\ 1..(k - 1) \subseteq 1..n
    BY <1>1
  <2>2. f \in Bijection(1..(k - 1), front)
    BY <1>3, <2>1 DEF Bijection, Injection, IsInjective, Surjection
  <2>3. Cardinality(front) = k - 1
    BY <2>1, <2>2, FS_CountingElements DEF ExistsBijection
  <2>4. IsFiniteSet(front)
    BY <2>1, <2>2, FS_NatBijection DEF ExistsBijection
  <2>5. newer \subseteq front
    <3> SUFFICES ASSUME NEW r \in rows, r.at > order[k].at PROVE r \in front
      OBVIOUS
    <3>1. PICK i \in 1..n : order[i] = r
      BY <1>6
    <3>2. order[k] \in rows /\ order[k].at \in Int /\ r.at \in Int
      BY <1>2
    <3>3. i < k
      <4> SUFFICES ASSUME i = k \/ k < i PROVE FALSE
        BY <1>1
      <4>1. order[k].at >= r.at
        BY <1>2, <3>1, <3>2
      <4> QED
        BY <3>2, <4>1
    <3> QED
      BY <1>1, <3>1, <3>3
  <2>6. ~Tied(rows) => front \subseteq newer
    <3> SUFFICES ASSUME ~Tied(rows), NEW i \in 1..(k - 1) PROVE order[i] \in newer
      OBVIOUS
    <3>1. i \in 1..n /\ i < k
      BY <1>1
    <3>2. order[i] \in rows /\ order[k] \in rows /\ order[i].at \in Int /\ order[k].at \in Int
      BY <1>2, <3>1
    <3>3. order[i].at >= order[k].at /\ order[i] # order[k]
      BY <1>2, <3>1
    <3>4. order[i].at # order[k].at
      BY <3>2, <3>3 DEF Tied
    <3> QED
      BY <3>2, <3>3, <3>4
  <2>7. IsFiniteSet(newer) /\ Cardinality(newer) <= k - 1
    BY <2>3, <2>4, <2>5, FS_Subset
  <2> QED
    BY <2>3, <2>5, <2>6, <2>7, FS_CardinalityType
<1> QED
  BY <1>2, <1>3, <1>6, <1>7 DEF n

\* The jobs there are, and those that the walk began with, have ids in use.
IdInv ==
    /\ IsFiniteSet(jobs)
    /\ \A row \in jobs : row.id <= made
    /\ \A r, s \in jobs : r.id = s.id => r = s
    /\ req # NoReq => \A id \in walk.from : id <= made

\* The user's jobs that are in front of a row.
Newer(row) == {r \in JobsByUser(req.user) : r.at > row.at}

\* How many rows the client has been through: the pages it got, all of them of
\* the size it asks for.
Passed == IF req.pc = "answered" THEN req.page * req.perPage
                                 ELSE Offset(walk.asked, req.perPage)

\* The client has got the page that it has asked for, if it has an answer.
OnTrack == req.pc = "answered" => req.page = walk.asked

Seen == {walk.seen[i] : i \in DOMAIN walk.seen}

\* The first answer is yet to come; its page may be an earlier one.
FirstInv ==
    req # NoReq =>
        /\ req.pc = "count" => req.page = walk.asked /\ req.count = 0
        /\ req.pc = "list" => req.page <= walk.asked
        /\ "gap" \in walk.disturbed => "insert" \in walk.disturbed
        /\ walk.first => /\ walk.seen = << >>
                         /\ walk.from = {} \/ walk.asked = 1
                         /\ req.pc = "answered" => req.count = 0

\* A job that was seen is, deletes or not, among the rows that were passed.
TwiceInv ==
    req # NoReq /\ walk.disturbed \subseteq {"delete"} =>
        /\ \A i, k \in DOMAIN walk.seen : walk.seen[i] = walk.seen[k] => i = k
        /\ OnTrack => \A row \in JobsByUser(req.user) :
                        row.id \in Seen => Cardinality(Newer(row)) < Passed

\* A job that was there at the start has been seen or is, inserts or not,
\* behind the rows that were passed.
SkippedInv ==
    req # NoReq /\ walk.disturbed \subseteq {"insert", "gap"} =>
        /\ walk.from \subseteq JobsOf(req.user)
        /\ OnTrack => \A row \in JobsByUser(req.user) :
                        row.id \in walk.from =>
                            row.id \in Seen \/ Cardinality(Newer(row)) >= Passed

\* The count is that of the rows to list, and the last page by that count has
\* the last of the rows, unless one was inserted in between.
CountInv ==
    req # NoReq /\ walk.disturbed \subseteq {"insert"} =>
        /\ req.pc = "list" => req.count = Cardinality(JobsByUser(req.user))
        /\ WalkEnds /\ req.page = walk.asked => walk.from \subseteq Seen

WalkInv ==
    /\ TypeOK
    /\ IdInv
    /\ FirstInv
    /\ TwiceInv
    /\ SkippedInv
    /\ CountInv

Requests == [pc : {"count", "list", "answered"}, user : Owners,
             page : Nat \ {0}, perPage : 1..MaxPerPage, count : 0..MaxJobs]

Walks == [asked : Nat \ {0}, first : BOOLEAN, from : SUBSET (1..MaxJobs),
          seen : Seq(1..MaxJobs), disturbed : SUBSET Disturbances]

\* TypeOK in parts.
LEMMA TypeFacts ==
  ASSUME TypeOK
  PROVE  /\ AccountsTypeOK
         /\ jobs \subseteq Row /\ made \in 0..MaxJobs /\ shown \subseteq Row
         /\ \/ req = NoReq /\ walk = NoWalk
            \/ req \in Requests /\ walk \in Walks /\ req # NoReq
BY DEF TypeOK, ListTypeOK, Requests, Walks, NoReq

\* The jobs of a user: how many, and that their ids tell them apart.
LEMMA JobsFacts ==
  ASSUME IdInv, jobs \subseteq Row, NEW user
  PROVE  /\ IsFiniteSet(JobsByUser(user))
         /\ Cardinality(JobsByUser(user)) \in Nat
         /\ Cardinality(JobsOf(user)) = Cardinality(JobsByUser(user))
         /\ \A row \in JobsByUser(user) : row \in jobs /\ row.at \in Int /\ row.user = user
<1> DEFINE f == [row \in JobsByUser(user) |-> row.id]
<1>1. IsFiniteSet(JobsByUser(user)) /\ Cardinality(JobsByUser(user)) \in Nat
  BY JobsAreCounted DEF IdInv
<1>2. f \in Bijection(JobsByUser(user), JobsOf(user))
  BY DEF Bijection, Injection, IsInjective, Surjection, JobsOf, JobsByUser, IdInv
<1>3. Cardinality(JobsOf(user)) = Cardinality(JobsByUser(user))
  BY <1>1, <1>2, FS_Bijection DEF ExistsBijection
<1> QED
  BY <1>1, <1>3, PageAssumption DEF JobsByUser, Row

\* Ids in use are few: no count is above the bound on jobs.
LEMMA CountBounded ==
  ASSUME TypeOK, IdInv, NEW user
  PROVE  Cardinality(JobsOf(user)) \in 0..MaxJobs
<1>1. JobsOf(user) \subseteq 1..MaxJobs
  BY TypeFacts DEF JobsOf, JobsByUser, Row
<1>2. IsFiniteSet(1..MaxJobs) /\ Cardinality(1..MaxJobs) <= MaxJobs
  BY PageAssumption, FS_Interval
<1> QED
  BY <1>1, <1>2, FS_Subset, FS_CardinalityType, PageAssumption

\* Rows that are added or removed move the others back or forward.
LEMMA NewerGrows ==
  ASSUME NEW more, IsFiniteSet(more), NEW at, NEW less, less \subseteq more
  PROVE  /\ Cardinality({r \in less : r.at > at}) \in Nat
         /\ Cardinality({r \in less : r.at > at}) <= Cardinality({r \in more : r.at > at})
         /\ Cardinality({r \in more : r.at > at}) \in Nat
<1> DEFINE A == {r \in less : r.at > at}
           B == {r \in more : r.at > at}
<1>1. IsFiniteSet(B) /\ A \subseteq B
  BY FS_Subset
<1>2. IsFiniteSet(A) /\ Cardinality(A) <= Cardinality(B)
  BY <1>1, FS_Subset
<1> QED
  BY <1>1, <1>2, FS_CardinalityType

\* A step of the accounts leaves the walk alone.
LEMMA QuietStep ==
  ASSUME WalkInv, UNCHANGED <<jobs, made, req, walk>>, AccountsTypeOK', (shown \subseteq Row)'
  PROVE  WalkInv'
<1>1. TypeOK'
  BY DEF WalkInv, TypeOK, ListTypeOK
<1>2. IdInv' /\ FirstInv'
  BY DEF WalkInv, IdInv, FirstInv
<1>3. TwiceInv' /\ SkippedInv'
  BY DEF WalkInv, TwiceInv, SkippedInv, Newer, Passed, OnTrack, Seen, JobsByUser, JobsOf
<1>4. CountInv'
  BY DEF WalkInv, CountInv, WalkEnds, Seen, JobsByUser
<1> QED
  BY <1>1, <1>2, <1>3, <1>4 DEF WalkInv

\* Statements of others leave the request alone; the walk learns of them.
LEMMA DisturbType ==
  ASSUME TypeOK, NEW user \in Owners, NEW how \in SUBSET Disturbances, Disturb(user, how)
  PROVE  /\ req = NoReq => walk' = NoWalk
         /\ req # NoReq => /\ walk' \in Walks
                           /\ walk'.seen = walk.seen /\ walk'.from = walk.from
                           /\ walk'.asked = walk.asked /\ walk'.first = walk.first
                           /\ walk'.disturbed = IF req.user = user THEN walk.disturbed \cup how
                                                                   ELSE walk.disturbed
<1>1. CASE req = NoReq /\ walk = NoWalk
  BY <1>1 DEF Disturb, NoReq
<1>2. CASE req \in Requests /\ walk \in Walks /\ req # NoReq
  <2>1. req.pc # "idle"
    BY <1>2 DEF Requests
  <2>2. walk' = IF req.user = user THEN [walk EXCEPT !.disturbed = walk.disturbed \cup how]
                                   ELSE walk
    BY <1>2, <2>1 DEF Disturb, Walks
  <2> QED
    BY <1>2, <2>2 DEF Walks
<1> QED
  BY <1>1, <1>2, TypeFacts

\* A job that is created during the walk.
LEMMA InsertStep ==
  ASSUME WalkInv, NEW user \in Owners, NEW at \in Times, InsertJob(user, at),
         UNCHANGED accountVars
  PROVE  WalkInv'
<1> DEFINE row == [id |-> made + 1, user |-> user, at |-> at]
           how == {"insert"} \cup IF req.pc = "list" THEN {"gap"} ELSE {}
<1>1. /\ made < MaxJobs /\ made' = made + 1 /\ jobs' = jobs \cup {row}
      /\ Disturb(user, how) /\ req' = req /\ shown' = shown
  BY DEF InsertJob
<1>2. how \in SUBSET Disturbances /\ "insert" \in how
  BY DEF Disturbances
<1> HIDE DEF how
<1>3. /\ TypeOK /\ jobs \subseteq Row /\ made \in 0..MaxJobs /\ shown \subseteq Row
      /\ req = NoReq \/ (req \in Requests /\ walk \in Walks)
  BY TypeFacts DEF WalkInv
<1>4. /\ req = NoReq => walk' = NoWalk
      /\ req # NoReq => /\ walk' \in Walks
                        /\ walk'.seen = walk.seen /\ walk'.from = walk.from
                        /\ walk'.asked = walk.asked /\ walk'.first = walk.first
                        /\ walk'.disturbed = IF req.user = user THEN walk.disturbed \cup how
                                                                ELSE walk.disturbed
  BY <1>1, <1>2, <1>3, DisturbType
<1>5. row \in Row /\ row.id = made + 1 /\ row.user = user /\ row.at = at /\ row.at \in Int
  BY <1>1, <1>3, PageAssumption DEF Row
<1>6. TypeOK'
  <2>1. AccountsTypeOK'
    BY <1>3 DEF TypeOK, AccountsTypeOK, accountVars
  <2>2. made' \in 0..MaxJobs
    BY <1>1, <1>3, PageAssumption
  <2> QED
    BY <1>1, <1>3, <1>4, <1>5, <2>1, <2>2 DEF TypeOK, ListTypeOK, Requests, Walks
<1>7. IdInv'
  <2>0. \A x : IsFiniteSet(jobs \cup {x})
    BY FS_AddElement DEF WalkInv, IdInv
  <2>1. IsFiniteSet(jobs') /\ made \in Nat
    <3>1. jobs' = jobs \cup {row} /\ made \in Nat
      BY <1>1, <1>3
    <3> QED
      BY <2>0, <3>1, Zenon
  <2>2. \A r \in jobs : r.id \in Nat /\ r.id <= made
    BY <1>3 DEF WalkInv, IdInv, Row
  <2>3. req' # NoReq => \A id \in walk'.from : id <= made'
    BY <1>1, <1>3, <1>4, <2>1 DEF WalkInv, IdInv, Walks
  <2>4. \A r, s \in jobs' : r.id = s.id => r = s
    BY <1>1, <1>5, <2>1, <2>2 DEF WalkInv, IdInv
  <2> QED
    BY <1>1, <1>5, <2>1, <2>2, <2>3, <2>4 DEF IdInv
<1> HIDE DEF row
<1> SUFFICES ASSUME req # NoReq
             PROVE  FirstInv' /\ TwiceInv' /\ SkippedInv' /\ CountInv'
  BY <1>1, <1>6, <1>7 DEF WalkInv, FirstInv, TwiceInv, SkippedInv, CountInv
<1>8. FirstInv'
  BY <1>1, <1>2, <1>4 DEF WalkInv, FirstInv
<1>9. Passed' = Passed /\ OnTrack' = OnTrack /\ Seen' = Seen /\ WalkEnds' = WalkEnds
  BY <1>1, <1>4 DEF Passed, OnTrack, Seen, WalkEnds
<1>10. JobsByUser(req.user)' = JobsByUser(req.user) \cup (IF req.user = user THEN {row} ELSE {})
  BY <1>1, <1>5 DEF JobsByUser
<1>11. CASE req.user # user
  <2>1. JobsByUser(req.user)' = JobsByUser(req.user) /\ walk'.disturbed = walk.disturbed
    BY <1>4, <1>10, <1>11
  <2>2. \A r : Newer(r)' = Newer(r)
    BY <2>1 DEF Newer
  <2>3. JobsOf(req.user)' = JobsOf(req.user)
    BY <2>1 DEF JobsOf
  <2>4. TwiceInv'
    BY <1>1, <1>4, <1>9, <2>1, <2>2 DEF WalkInv, TwiceInv
  <2>5. SkippedInv'
    BY <1>1, <1>4, <1>9, <2>1, <2>2, <2>3 DEF WalkInv, SkippedInv
  <2>6. CountInv'
    BY <1>1, <1>4, <1>9, <2>1 DEF WalkInv, CountInv
  <2> QED
    BY <1>8, <2>4, <2>5, <2>6
<1>12. CASE req.user = user
  <2>1. TwiceInv'
    BY <1>1, <1>2, <1>4, <1>12 DEF TwiceInv
  <2>2. SkippedInv'
    <3> SUFFICES ASSUME walk'.disturbed \subseteq {"insert", "gap"}
                 PROVE  /\ walk'.from \subseteq JobsOf(req.user)'
                        /\ OnTrack' => \A r \in JobsByUser(req.user)' :
                             r.id \in walk'.from =>
                               r.id \in Seen' \/ Cardinality(Newer(r)') >= Passed'
      BY <1>1 DEF SkippedInv
    <3>1. /\ walk.from \subseteq JobsOf(req.user)
          /\ OnTrack => \A r \in JobsByUser(req.user) :
                          r.id \in walk.from =>
                            r.id \in Seen \/ Cardinality(Newer(r)) >= Passed
      BY <1>4, <1>12 DEF WalkInv, SkippedInv
    <3>2. JobsByUser(req.user) \subseteq JobsByUser(req.user)'
      BY <1>10
    <3>3. walk'.from \subseteq JobsOf(req.user)'
      BY <1>4, <3>1, <3>2 DEF JobsOf
    <3>4. ASSUME OnTrack, NEW r \in JobsByUser(req.user)', r.id \in walk.from, r.id \notin Seen
          PROVE  Cardinality(Newer(r)') >= Passed
      <4>1. r # row
        BY <1>3, <1>5, <3>4 DEF WalkInv, IdInv, Walks
      <4>2. r \in JobsByUser(req.user) /\ r.at \in Int
        BY <1>3, <1>10, <4>1, JobsFacts DEF WalkInv
      <4>3. Cardinality(Newer(r)) >= Passed
        BY <3>1, <3>4, <4>2
      <4>4. IsFiniteSet(JobsByUser(req.user)')
        <5>1. JobsByUser(req.user)' \subseteq jobs'
          BY DEF JobsByUser
        <5> QED
          BY <1>7, <5>1, FS_Subset DEF IdInv
      <4>5. /\ Cardinality({q \in JobsByUser(req.user) : q.at > r.at}) \in Nat
            /\ Cardinality({q \in JobsByUser(req.user) : q.at > r.at}) <=
                 Cardinality({q \in JobsByUser(req.user)' : q.at > r.at})
            /\ Cardinality({q \in JobsByUser(req.user)' : q.at > r.at}) \in Nat
        BY <3>2, <4>4, NewerGrows
      <4>6. Newer(r) = {q \in JobsByUser(req.user) : q.at > r.at}
        BY DEF Newer
      <4>7. Newer(r)' = {q \in JobsByUser(req.user)' : q.at > r.at}
        BY DEF Newer
      <4>8. Passed \in Int
        BY <1>3 DEF Passed, Offset, Requests, Walks
      <4> QED
        BY <4>3, <4>5, <4>6, <4>7, <4>8
    <3> QED
      BY <1>4, <1>9, <3>3, <3>4
  <2>3. CountInv'
    <3> SUFFICES ASSUME walk'.disturbed \subseteq {"insert"}
                 PROVE  /\ req.pc # "list"
                        /\ WalkEnds' /\ req.page = walk'.asked => walk'.from \subseteq Seen'
      BY <1>1 DEF CountInv
    <3>1. req.pc # "list"
      BY <1>4, <1>12 DEF how
    <3>2. walk.disturbed \subseteq {"insert"}
      BY <1>4, <1>12
    <3> QED
      BY <1>4, <1>9, <3>1, <3>2 DEF WalkInv, CountInv
  <2> QED
    BY <1>8, <2>1, <2>2, <2>3
<1> QED
  BY <1>11, <1>12

\* A job that is deleted during the walk.
LEMMA RemoveStep ==
  ASSUME WalkInv, NEW row \in jobs, RemoveJob(row), UNCHANGED accountVars
  PROVE  WalkInv'
<1>1. /\ jobs' = jobs \ {row} /\ Disturb(row.user, {"delete"})
      /\ made' = made /\ req' = req /\ shown' = shown
  BY DEF RemoveJob
<1>2. /\ TypeOK /\ jobs \subseteq Row /\ made \in 0..MaxJobs /\ shown \subseteq Row
      /\ req = NoReq \/ (req \in Requests /\ walk \in Walks)
  BY TypeFacts DEF WalkInv
<1>3. /\ req = NoReq => walk' = NoWalk
      /\ req # NoReq => /\ walk' \in Walks
                        /\ walk'.seen = walk.seen /\ walk'.from = walk.from
                        /\ walk'.asked = walk.asked /\ walk'.first = walk.first
                        /\ walk'.disturbed = IF req.user = row.user
                                             THEN walk.disturbed \cup {"delete"}
                                             ELSE walk.disturbed
  <2>1. row.user \in Owners /\ {"delete"} \in SUBSET Disturbances
    BY <1>2 DEF Row, Disturbances
  <2> QED
    BY <1>1, <1>2, <2>1, DisturbType
<1>4. TypeOK'
  <2>1. AccountsTypeOK'
    BY <1>2 DEF TypeOK, AccountsTypeOK, accountVars
  <2> QED
    BY <1>1, <1>2, <1>3, <2>1 DEF TypeOK, ListTypeOK, Requests, Walks
<1>5. IdInv'
  <2>1. IsFiniteSet(jobs')
    BY <1>1, FS_RemoveElement DEF WalkInv, IdInv
  <2> QED
    BY <1>1, <1>3, <2>1 DEF WalkInv, IdInv
<1> SUFFICES ASSUME req # NoReq
             PROVE  FirstInv' /\ TwiceInv' /\ SkippedInv' /\ CountInv'
  BY <1>1, <1>4, <1>5 DEF WalkInv, FirstInv, TwiceInv, SkippedInv, CountInv
<1>6. FirstInv'
  BY <1>1, <1>3 DEF WalkInv, FirstInv
<1>7. Passed' = Passed /\ OnTrack' = OnTrack /\ Seen' = Seen /\ WalkEnds' = WalkEnds
  BY <1>1, <1>3 DEF Passed, OnTrack, Seen, WalkEnds
<1>8. JobsByUser(req.user)' \subseteq JobsByUser(req.user)
  BY <1>1 DEF JobsByUser
<1>9. TwiceInv'
  <2> SUFFICES ASSUME walk'.disturbed \subseteq {"delete"}
               PROVE  /\ \A i, k \in DOMAIN walk'.seen : walk'.seen[i] = walk'.seen[k] => i = k
                      /\ OnTrack' => \A r \in JobsByUser(req.user)' :
                           r.id \in Seen' => Cardinality(Newer(r)') < Passed'
    BY <1>1 DEF TwiceInv
  <2>1. walk.disturbed \subseteq {"delete"}
    BY <1>3
  <2>2. \A i, k \in DOMAIN walk'.seen : walk'.seen[i] = walk'.seen[k] => i = k
    BY <1>3, <2>1 DEF WalkInv, TwiceInv
  <2>3. ASSUME OnTrack, NEW r \in JobsByUser(req.user)', r.id \in Seen
        PROVE  Cardinality(Newer(r)') < Passed
    <3>1. r \in JobsByUser(req.user) /\ Cardinality(Newer(r)) < Passed
      BY <1>8, <2>1, <2>3 DEF WalkInv, TwiceInv
    <3>2. IsFiniteSet(JobsByUser(req.user))
      BY <1>2, JobsFacts DEF WalkInv
    <3>3. /\ Cardinality({q \in JobsByUser(req.user)' : q.at > r.at}) \in Nat
          /\ Cardinality({q \in JobsByUser(req.user)' : q.at > r.at}) <=
               Cardinality({q \in JobsByUser(req.user) : q.at > r.at})
          /\ Cardinality({q \in JobsByUser(req.user) : q.at > r.at}) \in Nat
      BY <1>8, <3>2, NewerGrows
    <3>4. Newer(r) = {q \in JobsByUser(req.user) : q.at > r.at}
      BY DEF Newer
    <3>5. Newer(r)' = {q \in JobsByUser(req.user)' : q.at > r.at}
      BY DEF Newer
    <3>6. Passed \in Int
      BY <1>2 DEF Passed, Offset, Requests, Walks
    <3> QED
      BY <3>1, <3>3, <3>4, <3>5, <3>6
  <2> QED
    BY <1>7, <2>2, <2>3
<1>10. CASE req.user = row.user
  <2>1. SkippedInv' /\ CountInv'
    BY <1>1, <1>3, <1>10 DEF SkippedInv, CountInv
  <2> QED
    BY <1>6, <1>9, <2>1
<1>11. CASE req.user # row.user
  <2>1. JobsByUser(req.user)' = JobsByUser(req.user) /\ walk'.disturbed = walk.disturbed
    BY <1>1, <1>3, <1>11 DEF JobsByUser
  <2>2. \A r : Newer(r)' = Newer(r)
    BY <2>1 DEF Newer
  <2>3. JobsOf(req.user)' = JobsOf(req.user)
    BY <2>1 DEF JobsOf
  <2>4. SkippedInv'
    BY <1>1, <1>3, <1>7, <2>1, <2>2, <2>3 DEF WalkInv, SkippedInv
  <2>5. CountInv'
    BY <1>1, <1>3, <1>7, <2>1 DEF WalkInv, CountInv
  <2> QED
    BY <1>6, <1>9, <2>4, <2>5
<1> QED
  BY <1>10, <1>11

\* A walk begins.
LEMMA AskWalk ==
  ASSUME WalkInv, NEW user \in Owners, NEW page \in Params, NEW perPage \in Params,
         Ask(user, page, perPage), UNCHANGED accountVars
  PROVE  WalkInv'
<1> DEFINE p == PageParam(page)
           pp == PerPageParam(perPage)
<1>1. p \in Nat \ {0} /\ pp \in 1..MaxPerPage
  BY PageAssumption DEF PageParam, PerPageParam
<1>2. /\ req' = [pc |-> "count", user |-> user, page |-> p, perPage |-> pp, count |-> 0]
      /\ walk' = [asked |-> p, first |-> TRUE, from |-> IF p = 1 THEN JobsOf(user) ELSE {},
                  seen |-> << >>, disturbed |-> {}]
      /\ shown' = {} /\ jobs' = jobs /\ made' = made
  BY DEF Ask
<1> HIDE DEF p, pp
<1>3. TypeOK /\ jobs \subseteq Row /\ made \in 0..MaxJobs
  BY TypeFacts DEF WalkInv
<1>4. JobsOf(user) \subseteq 1..MaxJobs /\ \A id \in JobsOf(user) : id <= made
  BY <1>3 DEF WalkInv, IdInv, JobsOf, JobsByUser, Row
<1>5. req' # NoReq /\ req' \in Requests /\ walk' \in Walks
  BY <1>1, <1>2, <1>4, PageAssumption DEF NoReq, Requests, Walks, Disturbances
<1>6. TypeOK'
  <2>1. AccountsTypeOK'
    BY <1>3 DEF TypeOK, AccountsTypeOK, accountVars
  <2> QED
    BY <1>2, <1>3, <1>5, <2>1 DEF TypeOK, ListTypeOK, Requests, Walks
<1>7. IdInv'
  BY <1>2, <1>4 DEF WalkInv, IdInv
<1>8. FirstInv'
  BY <1>2 DEF FirstInv
<1>9. Seen' = {} /\ \A i, k \in DOMAIN walk'.seen : FALSE
  BY <1>2 DEF Seen
<1>10. TwiceInv'
  BY <1>9 DEF TwiceInv
<1>11. SkippedInv'
  <2>1. walk'.from \subseteq JobsOf(req.user)'
    BY <1>2 DEF JobsOf, JobsByUser
  <2>2. ASSUME NEW r \in JobsByUser(req.user)', r.id \in walk'.from
        PROVE  Cardinality(Newer(r)') >= Passed'
    <3>1. Passed' = 0
      BY <1>1, <1>2, <2>2 DEF Passed, Offset
    <3>2. IsFiniteSet(Newer(r)')
      BY <1>7, FS_Subset DEF Newer, JobsByUser, IdInv
    <3> QED
      BY <3>1, <3>2, FS_CardinalityType
  <2> QED
    BY <2>1, <2>2 DEF SkippedInv
<1>12. CountInv'
  BY <1>2 DEF CountInv, WalkEnds
<1> QED
  BY <1>6, <1>7, <1>8, <1>10, <1>11, <1>12 DEF WalkInv

\* The handler counts and cuts the page down to the last one.
LEMMA CountWalk ==
  ASSUME WalkInv, Count, UNCHANGED accountVars
  PROVE  WalkInv'
<1> DEFINE count == Cardinality(JobsOf(req.user))
           last == MaxPage(count, req.perPage)
           page == IF req.page > last THEN last ELSE req.page
<1>1. /\ req.pc = "count" /\ shown' = {} /\ jobs' = jobs /\ made' = made /\ walk' = walk
      /\ req' = IF count = 0
                THEN [req EXCEPT !.pc = "answered"]
                ELSE [req EXCEPT !.pc = "list", !.count = count, !.page = page]
  BY DEF Count
<1>2. /\ TypeOK /\ jobs \subseteq Row
      /\ req # NoReq /\ req \in Requests /\ walk \in Walks
  BY <1>1, TypeFacts DEF WalkInv, NoReq
<1>3. count \in 0..MaxJobs /\ count = Cardinality(JobsByUser(req.user))
      /\ IsFiniteSet(JobsByUser(req.user))
  BY <1>2, CountBounded, JobsFacts DEF WalkInv
<1>4. /\ req.page \in Nat \ {0} /\ req.perPage \in Nat \ {0} /\ walk.asked \in Nat \ {0}
      /\ req.page = walk.asked
  BY <1>1, <1>2, PageAssumption DEF Requests, Walks, WalkInv, FirstInv
<1>5. count # 0 => page \in Nat \ {0} /\ page <= req.page
  <2> SUFFICES ASSUME count # 0 PROVE page \in Nat \ {0} /\ page <= req.page
    OBVIOUS
  <2>1. count \in Nat \ {0}
    BY <1>3, PageAssumption
  <2> HIDE DEF count
  <2>2. last \in Nat \ {0}
    BY <1>4, <2>1, MaxPageBounds
  <2> HIDE DEF last
  <2> QED
    BY <1>4, <2>2
<1> HIDE DEF count, last, page
<1>6. /\ req' # NoReq /\ req' \in Requests /\ req'.user = req.user /\ req'.perPage = req.perPage
      /\ count = 0 => req'.pc = "answered" /\ req'.page = req.page /\ req'.count = req.count
      /\ count # 0 => req'.pc = "list" /\ req'.page = page /\ req'.count = count
  <2>1. CASE count = 0
    <3>1. req' = [req EXCEPT !.pc = "answered"]
      BY <1>1, <2>1
    <3> QED
      BY <1>2, <2>1, <3>1 DEF Requests, NoReq
  <2>2. CASE count # 0
    <3>1. req' = [req EXCEPT !.pc = "list", !.count = count, !.page = page]
      BY <1>1, <2>2
    <3> QED
      BY <1>2, <1>3, <1>5, <2>2, <3>1 DEF Requests, NoReq
  <2> QED
    BY <2>1, <2>2
<1>7. TypeOK'
  <2>1. AccountsTypeOK'
    BY <1>2 DEF TypeOK, AccountsTypeOK, accountVars
  <2> QED
    BY <1>1, <1>2, <1>6, <2>1 DEF TypeOK, ListTypeOK, Requests, Walks
<1>8. IdInv'
  BY <1>1, <1>2 DEF WalkInv, IdInv
<1>9. /\ JobsByUser(req.user)' = JobsByUser(req.user) /\ JobsOf(req.user)' = JobsOf(req.user)
      /\ Seen' = Seen /\ \A r : Newer(r)' = Newer(r)
  BY <1>1, <1>6 DEF JobsByUser, JobsOf, Seen, Newer
<1>10. OnTrack /\ Passed = Offset(walk.asked, req.perPage)
  BY <1>1 DEF OnTrack, Passed
<1>11. CASE count = 0
  <2>1. JobsByUser(req.user) = {} /\ JobsOf(req.user) = {}
    BY <1>3, <1>11, FS_EmptySet DEF JobsOf
  <2>2. req'.count = 0
    BY <1>1, <1>2, <1>6, <1>11 DEF WalkInv, FirstInv
  <2>3. FirstInv'
    BY <1>1, <1>2, <1>4, <1>6, <1>11, <2>2 DEF WalkInv, FirstInv
  <2>4. TwiceInv'
    BY <1>1, <1>2, <1>9, <2>1 DEF WalkInv, TwiceInv
  <2>5. SkippedInv'
    BY <1>1, <1>2, <1>9, <2>1 DEF WalkInv, SkippedInv
  <2>6. CountInv'
    <3>1. walk.disturbed \subseteq {"insert"} => walk.from = {}
      BY <1>2, <2>1 DEF WalkInv, SkippedInv
    <3> QED
      BY <1>1, <1>6, <1>11, <3>1 DEF CountInv
  <2> QED
    BY <1>7, <1>8, <2>3, <2>4, <2>5, <2>6 DEF WalkInv
<1>12. CASE count # 0
  <2>1. Passed' = Passed
    BY <1>1, <1>6, <1>12 DEF Passed
  <2>2. FirstInv'
    BY <1>1, <1>2, <1>4, <1>5, <1>6, <1>12 DEF WalkInv, FirstInv
  <2>3. TwiceInv'
    BY <1>1, <1>2, <1>9, <1>10, <2>1 DEF WalkInv, TwiceInv
  <2>4. SkippedInv'
    BY <1>1, <1>2, <1>6, <1>9, <1>10, <2>1 DEF WalkInv, SkippedInv
  <2>5. CountInv'
    BY <1>1, <1>3, <1>6, <1>9, <1>12 DEF WalkInv, CountInv, WalkEnds
  <2> QED
    BY <1>7, <1>8, <2>2, <2>3, <2>4, <2>5 DEF WalkInv
<1> QED
  BY <1>11, <1>12

\* The answer of ListJobsByUser: where in the list of the user's jobs each row
\* of the page is, and what the client knows then.
LEMMA ListWalk ==
  ASSUME WalkInv, PageInRange, List, UNCHANGED accountVars
  PROVE  WalkInv'
<1> DEFINE rows == JobsByUser(req.user)
           n == Cardinality(rows)
           pp == req.perPage
           off == Offset(req.page, pp)
           tied == Tied(rows)
<1>1. /\ req.pc = "list" /\ req' = [req EXCEPT !.pc = "answered"]
      /\ jobs' = jobs /\ made' = made
  BY DEF List
<1>2. /\ TypeOK /\ jobs \subseteq Row /\ made \in 0..MaxJobs
      /\ req # NoReq /\ req \in Requests /\ walk \in Walks
  BY <1>1, TypeFacts DEF WalkInv, NoReq
<1>3. /\ IsFiniteSet(rows) /\ n \in Nat
      /\ \A row \in rows : row \in jobs /\ row.at \in Int
  BY <1>2, JobsFacts DEF WalkInv
<1>4. /\ req.page \in Nat \ {0} /\ pp \in Nat \ {0} /\ walk.asked \in Nat \ {0}
      /\ req.page <= walk.asked /\ req.count \in Nat
  BY <1>1, <1>2, PageAssumption DEF Requests, Walks, WalkInv, FirstInv
<1>5. /\ off \in Nat /\ req.page * pp \in Nat /\ off + pp = req.page * pp
      /\ Offset(walk.asked, pp) \in Nat
  BY <1>4, NextOffset
<1>6. PICK order \in Ordered(rows) :
        LET data == Slice(order, pp, off)
            ids == [i \in DOMAIN data |-> data[i].id]
            taken == walk.first \/ req.page = walk.asked
        IN /\ shown' = {data[i] : i \in DOMAIN data}
           /\ walk' = [walk EXCEPT
                !.first = FALSE,
                !.seen = IF taken THEN @ \o ids ELSE @,
                !.disturbed = IF tied THEN @ \cup {"tie"} ELSE @]
  BY DEF List
<1> DEFINE data == Slice(order, pp, off)
           ids == [i \in DOMAIN data |-> data[i].id]
           taken == walk.first \/ req.page = walk.asked
           newer(row) == {r \in rows : r.at > row.at}
<1>7. /\ order \in [1..n -> rows]
      /\ \A row \in rows : \E k \in 1..n : order[k] = row
      /\ \A i, k \in 1..n : order[i] = order[k] => i = k
      /\ \A k \in 1..n :
           /\ Cardinality(newer(order[k])) \in Nat /\ Cardinality(newer(order[k])) <= k - 1
           /\ ~tied => Cardinality(newer(order[k])) = k - 1
  BY <1>3, OrderRanks
<1>8. \A row : Newer(row) = newer(row) /\ Newer(row)' = newer(row)
  BY <1>1, <1>2 DEF Newer, JobsByUser, Requests
<1> HIDE DEF n, newer, tied, off, pp
<1>9. /\ data \in Seq(rows)
      /\ \A i \in DOMAIN data : /\ i \in Nat \ {0} /\ i <= pp
                                /\ off + i \in 1..n /\ data[i] = order[off + i]
      /\ \A k \in 1..n : off < k /\ k <= off + pp => k - off \in DOMAIN data
  BY <1>3, <1>4, <1>5, <1>7, SliceIs
<1> HIDE DEF data, rows
<1>10. ids \in Seq(1..MaxJobs) /\ DOMAIN ids = DOMAIN data
       /\ \A i \in DOMAIN data : ids[i] = data[i].id /\ data[i] \in rows /\ data[i] \in Row
  <2>1. \A i \in DOMAIN data : data[i] \in rows
    BY <1>9, ElementOfSeq
  <2>2. \A i \in DOMAIN data : data[i] \in Row /\ data[i].id \in 1..MaxJobs
    BY <1>2, <1>3, <2>1 DEF Row
  <2>3. Len(data) \in Nat /\ DOMAIN data = 1..Len(data)
    BY <1>9
  <2> QED
    BY <2>1, <2>2, <2>3, SeqDef
<1> HIDE DEF ids
<1>11. walk' = [walk EXCEPT
                !.first = FALSE,
                !.seen = IF taken THEN walk.seen \o ids ELSE walk.seen,
                !.disturbed = IF tied THEN walk.disturbed \cup {"tie"} ELSE walk.disturbed]
       /\ shown' = {data[i] : i \in DOMAIN data}
  BY <1>2, <1>6 DEF data, ids, Walks
<1>12. /\ walk' \in Walks /\ walk'.asked = walk.asked /\ walk'.from = walk.from
       /\ walk'.first = FALSE
       /\ walk'.disturbed = IF tied THEN walk.disturbed \cup {"tie"} ELSE walk.disturbed
       /\ walk'.seen = IF taken THEN walk.seen \o ids ELSE walk.seen
       /\ walk.seen \in Seq(1..MaxJobs)
  <2>1. walk.seen \o ids \in Seq(1..MaxJobs)
    BY <1>2, <1>10 DEF Walks
  <2> QED
    BY <1>2, <1>11, <2>1 DEF Walks, Disturbances
<1>13. /\ req' # NoReq /\ req' \in Requests /\ req'.pc = "answered" /\ req'.user = req.user
       /\ req'.page = req.page /\ req'.perPage = pp /\ req'.count = req.count
  BY <1>1, <1>2 DEF Requests, NoReq, pp
<1>14. TypeOK'
  <2>1. AccountsTypeOK'
    BY <1>2 DEF TypeOK, AccountsTypeOK, accountVars
  <2>2. shown' \subseteq Row
    BY <1>10, <1>11
  <2> QED
    BY <1>1, <1>2, <1>12, <1>13, <2>1, <2>2 DEF TypeOK, ListTypeOK, Requests, Walks
<1>15. IdInv' /\ FirstInv'
  BY <1>1, <1>2, <1>12, <1>13 DEF WalkInv, IdInv, FirstInv
<1>16. /\ JobsByUser(req.user)' = rows /\ JobsOf(req.user)' = JobsOf(req.user)
       /\ Passed' = req.page * pp /\ (OnTrack' <=> req.page = walk.asked)
       /\ Passed = Offset(walk.asked, pp) /\ OnTrack
  BY <1>1, <1>2, <1>12, <1>13 DEF JobsByUser, JobsOf, Passed, OnTrack, rows, pp, Requests
<1>17. Seen' = IF taken THEN Seen \cup {ids[i] : i \in DOMAIN data} ELSE Seen
  <2>1. CASE ~taken
    BY <1>12, <2>1 DEF Seen
  <2>2. CASE taken
    <3>1. Seen' = {(walk.seen \o ids)[i] : i \in DOMAIN (walk.seen \o ids)}
      BY <1>12, <2>2 DEF Seen
    <3>2. /\ \A i \in DOMAIN (walk.seen \o ids) :
                \/ i \in DOMAIN walk.seen /\ (walk.seen \o ids)[i] = walk.seen[i]
                \/ i - Len(walk.seen) \in DOMAIN ids
                     /\ (walk.seen \o ids)[i] = ids[i - Len(walk.seen)]
          /\ \A i \in DOMAIN walk.seen : i \in DOMAIN (walk.seen \o ids)
                                           /\ (walk.seen \o ids)[i] = walk.seen[i]
          /\ \A i \in DOMAIN ids : i + Len(walk.seen) \in DOMAIN (walk.seen \o ids)
                                     /\ (walk.seen \o ids)[i + Len(walk.seen)] = ids[i]
      BY <1>10, <1>12
    <3> DEFINE both == walk.seen \o ids
    <3> HIDE DEF both
    <3>3. ASSUME NEW i \in DOMAIN both PROVE both[i] \in Seen \cup {ids[k] : k \in DOMAIN data}
      BY <1>10, <3>2, <3>3 DEF both, Seen
    <3>4. ASSUME NEW i \in DOMAIN walk.seen PROVE walk.seen[i] \in Seen'
      BY <3>1, <3>2 DEF both
    <3>5. ASSUME NEW i \in DOMAIN data PROVE ids[i] \in Seen'
      BY <1>10, <3>1, <3>2 DEF both
    <3>6. Seen' = {both[i] : i \in DOMAIN both} /\ Seen = {walk.seen[i] : i \in DOMAIN walk.seen}
      BY <3>1 DEF both, Seen
    <3> QED
      BY <2>2, <3>3, <3>4, <3>5, <3>6
  <2> QED
    BY <2>1, <2>2
<1> HIDE DEF taken

<1>18. \A i \in DOMAIN data : \E k \in 1..n :
          /\ off < k /\ k <= off + pp /\ k = off + i
          /\ data[i] = order[k] /\ ids[i] = order[k].id
  <2> SUFFICES ASSUME NEW i \in DOMAIN data
               PROVE  /\ off + i \in 1..n /\ off < off + i /\ off + i <= off + pp
                      /\ data[i] = order[off + i] /\ ids[i] = order[off + i].id
    OBVIOUS
  <2>1. /\ i \in Nat \ {0} /\ i <= pp /\ off + i \in 1..n /\ data[i] = order[off + i]
        /\ ids[i] = data[i].id
    BY <1>9, <1>10
  <2> QED
    BY <1>4, <1>5, <2>1
<1>19. \A r, s \in rows : r.id = s.id => r = s
  BY <1>3, <1>2 DEF WalkInv, IdInv
<1>20. TwiceInv'
  <2> SUFFICES ASSUME walk'.disturbed \subseteq {"delete"}
               PROVE  /\ \A i, k \in DOMAIN walk'.seen : walk'.seen[i] = walk'.seen[k] => i = k
                      /\ req.page = walk.asked => \A r \in rows :
                           r.id \in Seen' => Cardinality(newer(r)) < req.page * pp
    BY <1>8, <1>13, <1>16 DEF TwiceInv
  <2>1. ~tied /\ walk.disturbed \subseteq {"delete"}
    <3>1. "tie" \notin walk'.disturbed /\ walk.disturbed \subseteq walk'.disturbed
      BY <1>12
    <3> QED
      BY <1>12, <3>1
  <2>2. /\ \A i, k \in DOMAIN walk.seen : walk.seen[i] = walk.seen[k] => i = k
        /\ \A r \in rows : r.id \in Seen => Cardinality(newer(r)) < Offset(walk.asked, pp)
    BY <1>2, <1>8, <1>16, <2>1 DEF WalkInv, TwiceInv, rows
  <2>3. walk.first => walk.seen = << >> /\ Seen = {}
    BY <1>2 DEF WalkInv, FirstInv, Seen
  <2>4. \A i \in DOMAIN data : taken => ids[i] \notin Seen
    <3> SUFFICES ASSUME NEW i \in DOMAIN data, taken, ids[i] \in Seen PROVE FALSE
      OBVIOUS
    <3>1. req.page = walk.asked
      BY <2>3 DEF taken
    <3>2. PICK k \in 1..n : off < k /\ data[i] = order[k] /\ ids[i] = order[k].id
      BY <1>18
    <3>3. order[k] \in rows /\ Cardinality(newer(order[k])) = k - 1
      BY <1>7, <2>1, <3>2
    <3>4. Cardinality(newer(order[k])) < off
      BY <2>2, <3>1, <3>2, <3>3 DEF off
    <3> QED
      BY <1>3, <1>5, <3>2, <3>3, <3>4
  <2>5. \A i, k \in DOMAIN data : ids[i] = ids[k] => i = k
    <3> SUFFICES ASSUME NEW i \in DOMAIN data, NEW k \in DOMAIN data, ids[i] = ids[k] PROVE i = k
      OBVIOUS
    <3>1. data[i] = data[k]
      BY <1>10, <1>19
    <3>2. /\ off + i \in 1..n /\ off + k \in 1..n /\ order[off + i] = order[off + k]
          /\ i \in Nat /\ k \in Nat
      BY <1>9, <3>1
    <3>3. off + i = off + k
      BY <1>7, <3>2
    <3> QED
      BY <1>5, <3>2, <3>3
  <2>6. \A i, k \in DOMAIN walk'.seen : walk'.seen[i] = walk'.seen[k] => i = k
    <3>1. CASE ~taken
      BY <1>12, <2>2, <3>1
    <3>2. CASE taken
      <4>1. walk'.seen = walk.seen \o ids
        BY <1>12, <3>2
      <4>2. \A i \in DOMAIN walk.seen, k \in DOMAIN ids : walk.seen[i] # ids[k]
        BY <1>10, <2>4, <3>2 DEF Seen
      <4> QED
        BY <1>10, <1>12, <2>2, <2>5, <4>1, <4>2
    <3> QED
      BY <3>1, <3>2
  <2>7. ASSUME req.page = walk.asked, NEW r \in rows, r.id \in Seen'
        PROVE  Cardinality(newer(r)) < req.page * pp
    <3>1. CASE r.id \in Seen
      <4>1. Cardinality(newer(r)) < off
        BY <2>2, <2>7, <3>1 DEF off
      <4>2. PICK k \in 1..n : order[k] = r
        BY <1>7
      <4>3. Cardinality(newer(r)) \in Nat
        BY <1>7, <4>2
      <4> QED
        BY <1>4, <1>5, <4>1, <4>3
    <3>2. CASE r.id \notin Seen
      <4>1. PICK i \in DOMAIN data : r.id = ids[i]
        BY <1>17, <2>7, <3>2
      <4>2. PICK k \in 1..n : k <= off + pp /\ data[i] = order[k] /\ ids[i] = order[k].id
        BY <1>18
      <4>3. r = order[k]
        BY <1>7, <1>19, <4>1, <4>2
      <4>4. Cardinality(newer(r)) \in Nat /\ Cardinality(newer(r)) <= k - 1
        BY <1>7, <4>3
      <4> QED
        BY <1>3, <1>5, <4>2, <4>4
    <3> QED
      BY <3>1, <3>2
  <2> QED
    BY <2>6, <2>7
<1>21. ASSUME walk'.disturbed \subseteq {"insert", "gap"}, req.page = walk.asked,
              NEW r \in rows, r.id \in walk.from
       PROVE  r.id \in Seen' \/ Cardinality(newer(r)) >= req.page * pp
  <2>1. ~tied /\ walk.disturbed \subseteq {"insert", "gap"}
    <3>1. "tie" \notin walk'.disturbed /\ walk.disturbed \subseteq walk'.disturbed
      BY <1>12, <1>21
    <3> QED
      BY <1>12, <1>21, <3>1
  <2>2. r.id \in Seen \/ Cardinality(newer(r)) >= off
    BY <1>2, <1>8, <1>16, <1>21, <2>1 DEF WalkInv, SkippedInv, rows, off
  <2>3. PICK k \in 1..n : order[k] = r /\ Cardinality(newer(r)) = k - 1
    BY <1>7, <2>1
  <2>4. taken
    BY <1>21 DEF taken
  <2>5. CASE off < k /\ k <= off + pp
    <3>1. k - off \in DOMAIN data
      BY <1>9, <2>3, <2>5
    <3>2. data[k - off] = order[off + (k - off)] /\ off + (k - off) = k
      BY <1>3, <1>5, <1>9, <3>1
    <3>3. ids[k - off] = r.id
      BY <1>10, <2>3, <3>1, <3>2
    <3> QED
      BY <1>17, <2>4, <3>1, <3>3
  <2>6. CASE k <= off
    <3>1. r.id \in Seen
      BY <1>3, <1>5, <2>2, <2>3, <2>6
    <3> QED
      BY <1>17, <3>1
  <2>7. CASE k > off + pp
    BY <1>3, <1>4, <1>5, <2>3, <2>7
  <2> QED
    BY <1>3, <1>4, <1>5, <2>5, <2>6, <2>7
<1>22. SkippedInv'
  <2>1. walk'.disturbed \subseteq {"insert", "gap"} => walk'.from \subseteq JobsOf(req.user)'
    BY <1>2, <1>12, <1>16 DEF WalkInv, SkippedInv
  <2> QED
    BY <1>8, <1>12, <1>13, <1>16, <1>21, <2>1 DEF SkippedInv
<1>23. CountInv'
  <2> SUFFICES ASSUME walk'.disturbed \subseteq {"insert"}, WalkEnds', req.page = walk.asked,
                      NEW id \in walk.from
               PROVE  id \in Seen'
    BY <1>12, <1>13 DEF CountInv
  <2>1. walk.disturbed \subseteq {"insert"}
    BY <1>12
  <2>2. req.count = n /\ walk.from \subseteq JobsOf(req.user)
    BY <1>1, <1>2, <2>1 DEF WalkInv, CountInv, SkippedInv, n, rows
  <2>3. req.page >= MaxPage(req.count, pp)
    BY <1>12, <1>13 DEF WalkEnds
  <2>4. n <= req.page * pp
    BY <1>4, <2>2, <2>3, PageHoldsAll
  <2>5. PICK r \in rows : r.id = id
    BY <2>2 DEF JobsOf, rows
  <2>6. PICK k \in 1..n : order[k] = r
    BY <1>7
  <2>7. Cardinality(newer(r)) \in Nat /\ Cardinality(newer(r)) <= k - 1
    BY <1>7, <2>6
  <2>8. r.id \in Seen' \/ Cardinality(newer(r)) >= req.page * pp
    BY <1>21, <2>5
  <2> QED
    BY <1>3, <1>5, <2>4, <2>5, <2>6, <2>7, <2>8
<1> QED
  BY <1>14, <1>15, <1>20, <1>22, <1>23 DEF WalkInv

\* The user asks for the page behind the one that came.
LEMMA NextWalk ==
  ASSUME WalkInv, NextPage, UNCHANGED accountVars
  PROVE  WalkInv'
<1>1. /\ req.pc = "answered" /\ ~WalkEnds
      /\ req' = [req EXCEPT !.pc = "count", !.page = @ + 1, !.count = 0]
      /\ walk' = [walk EXCEPT !.asked = req.page + 1, !.disturbed = @ \ {"gap"}]
      /\ jobs' = jobs /\ made' = made /\ shown' = shown
  BY DEF NextPage
<1>2. /\ TypeOK /\ jobs \subseteq Row /\ made \in 0..MaxJobs /\ shown \subseteq Row
      /\ req # NoReq /\ req \in Requests /\ walk \in Walks
  BY <1>1, TypeFacts DEF WalkInv, NoReq
<1>3. /\ req.page = walk.asked /\ req.page < MaxPage(req.count, req.perPage)
      /\ req.page \in Nat \ {0} /\ req.perPage \in Nat \ {0} /\ req.count \in Nat
  <2>1. /\ req.page \in Nat \ {0} /\ req.perPage \in Nat \ {0} /\ req.count \in Nat
    BY <1>2, PageAssumption DEF Requests
  <2>2. MaxPage(req.count, req.perPage) \in Nat
    BY <2>1 DEF MaxPage
  <2> QED
    BY <1>1, <2>1, <2>2 DEF WalkEnds
<1>4. req.count # 0 /\ ~walk.first
  BY <1>1, <1>2, <1>3, NoPages DEF WalkInv, FirstInv
<1>5. /\ req' \in Requests /\ req' # NoReq /\ req'.pc = "count" /\ req'.page = req.page + 1
      /\ req'.user = req.user /\ req'.perPage = req.perPage /\ req'.count = 0
  <2>1. req' = [req EXCEPT !.pc = "count", !.page = req.page + 1, !.count = 0]
    BY <1>1, <1>2 DEF Requests
  <2>2. req.page + 1 \in Nat \ {0} /\ 0 \in 0..MaxJobs
    BY <1>3, PageAssumption
  <2> QED
    BY <1>2, <2>1, <2>2 DEF Requests, NoReq
<1>6. /\ walk' \in Walks /\ walk'.asked = req.page + 1 /\ walk'.first = walk.first
      /\ walk'.from = walk.from /\ walk'.seen = walk.seen
      /\ walk'.disturbed = walk.disturbed \ {"gap"}
  <2>1. walk' = [walk EXCEPT !.asked = req.page + 1, !.disturbed = walk.disturbed \ {"gap"}]
    BY <1>1, <1>2 DEF Walks
  <2>2. req.page + 1 \in Nat \ {0}
    BY <1>3
  <2> QED
    BY <1>2, <2>1, <2>2 DEF Walks
<1>7. TypeOK'
  <2>1. AccountsTypeOK'
    BY <1>2 DEF TypeOK, AccountsTypeOK, accountVars
  <2> QED
    BY <1>1, <1>2, <1>5, <1>6, <2>1 DEF TypeOK, ListTypeOK, Requests, Walks
<1>8. IdInv' /\ FirstInv'
  BY <1>1, <1>2, <1>4, <1>5, <1>6 DEF WalkInv, IdInv, FirstInv
<1>9. /\ JobsByUser(req.user)' = JobsByUser(req.user) /\ JobsOf(req.user)' = JobsOf(req.user)
      /\ Seen' = Seen /\ (\A r : Newer(r)' = Newer(r)) /\ OnTrack
  BY <1>1, <1>3, <1>5, <1>6 DEF JobsByUser, JobsOf, Seen, Newer, OnTrack
<1>10. Passed' = Passed
  <2>1. Passed = req.page * req.perPage
    BY <1>1 DEF Passed
  <2>2. Passed' = ((req.page + 1) - 1) * req.perPage
    BY <1>5, <1>6 DEF Passed, Offset
  <2>3. (req.page + 1) - 1 = req.page
    BY <1>3
  <2> QED
    BY <2>1, <2>2, <2>3
<1>11. TwiceInv'
  <2>1. walk'.disturbed \subseteq {"delete"} => walk.disturbed \subseteq {"delete"}
    BY <1>2, <1>6 DEF WalkInv, FirstInv
  <2> QED
    BY <1>2, <1>5, <1>6, <1>9, <1>10, <2>1 DEF WalkInv, TwiceInv
<1>12. SkippedInv'
  <2>1. walk'.disturbed \subseteq {"insert", "gap"} => walk.disturbed \subseteq {"insert", "gap"}
    BY <1>6
  <2> QED
    BY <1>2, <1>5, <1>6, <1>9, <1>10, <2>1 DEF WalkInv, SkippedInv
<1>13. CountInv'
  BY <1>5 DEF CountInv, WalkEnds
<1> QED
  BY <1>7, <1>8, <1>11, <1>12, <1>13 DEF WalkInv

\* Each step keeps the invariant.
LEMMA WalkStep ==
  ASSUME WalkInv, PageInRange, Next
  PROVE  WalkInv'
<1>1. /\ TypeOK /\ AccountsTypeOK /\ shown \subseteq Row /\ jobs \subseteq Row
  BY TypeFacts DEF WalkInv
<1>2. CASE Auth
  <2>1. AccountsTypeOK'
    <3>1. ASSUME NEW e \in Emails, NEW p \in Passwords, Register(e, p) PROVE AccountsTypeOK'
      <4>1. /\ users' = [users EXCEPT ![e] = p]
            /\ granted' = granted \/ granted' = [granted EXCEPT ![e] = Append(@, p)]
            /\ Len(granted[e]) < MaxGrants /\ UNCHANGED <<hour, token, login>>
        BY <3>1 DEF Register, CreateUser
      <4>2. granted[e] \in Seq(Passwords) /\ Append(granted[e], p) \in Seq(Passwords)
            /\ Len(Append(granted[e], p)) = Len(granted[e]) + 1 /\ Len(granted[e]) \in Nat
        BY <1>1, <3>1 DEF AccountsTypeOK
      <4>3. granted' \in [Emails -> Seq(Passwords)]
        BY <1>1, <4>1, <4>2 DEF AccountsTypeOK
      <4>4. \A f \in Emails : Len(granted'[f]) <= MaxGrants
        BY <1>1, <4>1, <4>2, HoursAssumption DEF AccountsTypeOK
      <4> QED
        BY <1>1, <4>1, <4>3, <4>4 DEF AccountsTypeOK
    <3>2. ASSUME NEW e \in Emails, NEW p \in Passwords, Login(e, p) PROVE AccountsTypeOK'
      BY <1>1, <3>2, HoursAssumption DEF AccountsTypeOK, Login
    <3>3. CASE Tick
      BY <1>1, <3>3, HoursAssumption DEF AccountsTypeOK, Tick
    <3> QED
      BY <1>2, <3>1, <3>2, <3>3 DEF Auth
  <2> QED
    BY <1>1, <1>2, <2>1, QuietStep DEF Auth, listVars
<1>3. CASE Others
  <2>1. UNCHANGED accountVars
    BY <1>3 DEF Others
  <2>2. ASSUME NEW user \in Owners, NEW at \in Times, InsertJob(user, at) PROVE WalkInv'
    BY <2>1, <2>2, InsertStep
  <2>3. ASSUME NEW row \in jobs, RemoveJob(row) PROVE WalkInv'
    BY <2>1, <2>3, RemoveStep
  <2> QED
    BY <1>3, <2>2, <2>3 DEF Others
<1>4. CASE Routes
  <2>1. UNCHANGED accountVars
    BY <1>4 DEF Routes
  <2>2. AccountsTypeOK'
    BY <1>1, <2>1 DEF AccountsTypeOK, accountVars
  <2>3. ASSUME NEW user \in Owners, NEW page \in Params, NEW perPage \in Params,
               Ask(user, page, perPage)
        PROVE  WalkInv'
    BY <2>1, <2>3, AskWalk
  <2>4. ASSUME NEW user \in Owners, NEW id \in 1..MaxJobs, GetJobById(user, id)
        PROVE  WalkInv'
    BY <1>1, <2>2, <2>4, QuietStep DEF GetJobById
  <2>5. CASE Leave
    <3>1. req' = NoReq /\ walk' = NoWalk /\ shown' = {} /\ jobs' = jobs /\ made' = made
      BY <2>5 DEF Leave
    <3>2. TypeOK'
      BY <1>1, <2>2, <3>1 DEF TypeOK, ListTypeOK
    <3> QED
      BY <3>1, <3>2 DEF WalkInv, IdInv, FirstInv, TwiceInv, SkippedInv, CountInv
  <2> QED
    BY <1>4, <2>1, <2>3, <2>4, <2>5, CountWalk, ListWalk, NextWalk DEF Routes
<1> QED
  BY <1>2, <1>3, <1>4 DEF Next

\* Nobody walks in the beginning.
LEMMA InitWalkInv == Init => WalkInv
<1> SUFFICES ASSUME Init PROVE WalkInv
  OBVIOUS
<1>1. TypeOK
  BY HoursAssumption, PageAssumption
     DEF Init, AccountsInit, ListInit, TypeOK, AccountsTypeOK, ListTypeOK
<1>2. IdInv
  BY FS_EmptySet DEF Init, ListInit, IdInv
<1> QED
  BY <1>1, <1>2 DEF Init, ListInit, WalkInv, FirstInv, TwiceInv, SkippedInv, CountInv

-----------------------------------------------------------------------------
(***************************************************************************)
(* Theorems                                                                *)
(***************************************************************************)
\* The inductive invariant: accounts, the token, the request and its page
\* agree, whatever others register, insert and delete meanwhile.
THEOREM ApiInductive == Spec => []ApiInv
<1>1. Init => ApiInv
  BY InitApiInv
<1>2. ApiInv /\ [Next]_vars => ApiInv'
  <2> SUFFICES ASSUME ApiInv, [Next]_vars PROVE ApiInv'
    OBVIOUS
  <2>1. CASE Next
    BY <2>1, AuthStep, OthersStep, RoutesStep DEF Next
  <2>2. CASE UNCHANGED vars
    BY <2>2 DEF vars, accountVars, listVars, ApiInv, AccountsInv, FirstWins, LoginInv,
                RequestInv, PageInRange
  <2> QED
    BY <2>1, <2>2
<1> QED
  BY <1>1, <1>2, PTL DEF Spec

\* Of any number of registrations of an email one is answered with 201, and
\* the row keeps its password (authHandler.go:75-89).
THEOREM FirstRegistrationWins == Spec => []FirstWins
<1>1. ApiInv => FirstWins
  BY DEF ApiInv, AccountsInv
<1> QED
  BY <1>1, ApiInductive, PTL

\* No answer shows a job of another user than the one whose password the
\* client has given (authHandler.go:138-147, auth.go:38-58, jobs.sql).
THEOREM ShownAreOwn == Spec => []OnlyOwnJobs
<1>1. ApiInv => OnlyOwnJobs
  BY DEF ApiInv, LoginInv, RequestInv, OnlyOwnJobs
<1> QED
  BY <1>1, ApiInductive, PTL

\* Whatever page and page size a client asks for, the page that is listed
\* begins within the rows that were counted (jobsHandler.go:170-180).
THEOREM PagesInRange == Spec => []PageInRange
<1>1. ApiInv => PageInRange
  BY DEF ApiInv
<1> QED
  BY <1>1, ApiInductive, PTL

\* The inductive invariant of a walk: where the rows that it has passed are in
\* the list, while others insert and delete.
THEOREM WalkInductive == Spec => []WalkInv
<1>1. Init => WalkInv
  BY InitWalkInv
<1>2. WalkInv /\ PageInRange /\ [Next]_vars => WalkInv'
  <2> SUFFICES ASSUME WalkInv, PageInRange, [Next]_vars PROVE WalkInv'
    OBVIOUS
  <2>1. CASE Next
    BY <2>1, WalkStep
  <2>2. CASE UNCHANGED vars
    <3>1. AccountsTypeOK' /\ shown' \subseteq Row
      BY <2>2, TypeFacts DEF WalkInv, AccountsTypeOK, vars, accountVars, listVars
    <3> QED
      BY <2>2, <3>1, QuietStep DEF vars, listVars
  <2> QED
    BY <2>1, <2>2
<1> QED
  BY <1>1, <1>2, PagesInRange, PTL DEF Spec

\* The accounts, the jobs and the request that is served have their types in
\* every interleaving of the handlers (jobsHandler.go, authHandler.go).
THEOREM ApiTypeOK == Spec => []TypeOK
<1>1. WalkInv => TypeOK
  BY DEF WalkInv
<1> QED
  BY <1>1, WalkInductive, PTL

\* A walk to the last page gets every job that was there when it began, however
\* many are inserted meanwhile, unless one slips between a count and its list
\* or two have the same created_at (jobsHandler.go:157-182).
THEOREM WalkSkipsNone == Spec => []NoneSkipped
<1>1. WalkInv => NoneSkipped
  <2> SUFFICES ASSUME WalkInv, WalkEnds, req.page = walk.asked, walk.disturbed \subseteq {"insert"},
                      NEW id \in walk.from
               PROVE  \E i \in DOMAIN walk.seen : walk.seen[i] = id
    BY DEF NoneSkipped
  <2>1. req # NoReq
    BY DEF WalkEnds, NoReq
  <2> QED
    BY <2>1 DEF WalkInv, CountInv, Seen
<1> QED
  BY <1>1, WalkInductive, PTL

\* A walk gets no job twice, whatever is deleted meanwhile
\* (jobsHandler.go:172-177, 201-204).
THEOREM WalkRepeatsNone == Spec => []NoneTwice
<1>1. WalkInv => NoneTwice
  BY DEF WalkInv, TwiceInv, NoneTwice, NoReq
<1> QED
  BY <1>1, WalkInductive, PTL

=============================================================================
