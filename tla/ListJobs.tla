------------------------------ MODULE ListJobs ------------------------------
(***************************************************************************)
(* ListJobs: a page of the jobs of a user, by a statement that counts and  *)
(* one that lists, while jobs come and go; and a client that walks from    *)
(* page to page, as the meta of an answer invites it to.                   *)
(*                                                                         *)
(* created_at is the time at which an INSERT begins: rows may become       *)
(* visible in another order, and two may have the same.                    *)
(***************************************************************************)
EXTENDS Integers, Sequences, FiniteSets

CONSTANTS
    Owners,          \* the users that have jobs
    MaxJobs,         \* bound: the jobs that are ever inserted
    Times,           \* values of created_at
    Params,          \* values of page and per_page in a query string
    NotANumber,      \* stands for those that strconv.Atoi refuses
    DefaultPerPage,  \* 20
    MaxPerPage       \* 100

ASSUME PageAssumption ==
    /\ Times \subseteq Int
    /\ Params \subseteq Int \cup {NotANumber}
    /\ DefaultPerPage \in Nat \ {0} /\ MaxPerPage \in Nat \ {0}
    /\ DefaultPerPage <= MaxPerPage
    /\ MaxJobs \in Nat

VARIABLES
    jobs,         \* the rows, each with id, user and created_at
    made,         \* how many ids have been used
    req,          \* the request: pc "idle", "count", "list" or "answered", its
                  \* user, page and perPage, and count once it has it
    walk,         \* the client: the page it asked for, and as history the jobs
                  \* there were when it began (from), the ids it has got (seen)
                  \* and what has disturbed it
    shown         \* the rows in the last answer

listVars == <<jobs, made, req, walk, shown>>

Row == [id : 1..MaxJobs, user : Owners, at : Times]

Disturbances == {
    "insert",     \* a job was inserted
    "delete",     \* a job was deleted
    "gap",        \* a job was inserted between count and list of this request
    "tie" }       \* two of the rows that were listed have the same created_at

NoReq == [pc |-> "idle"]
NoWalk == [seen |-> << >>, disturbed |-> {}]

ListTypeOK ==
    /\ jobs \subseteq Row
    /\ made \in 0..MaxJobs
    /\ \/ req = NoReq /\ walk = NoWalk
       \/ /\ req \in [pc : {"count", "list", "answered"}, user : Owners,
                      page : Nat \ {0}, perPage : 1..MaxPerPage, count : 0..MaxJobs]
          /\ walk \in [asked : Nat \ {0}, first : BOOLEAN, from : SUBSET (1..MaxJobs),
                       seen : Seq(1..MaxJobs), disturbed : SUBSET Disturbances]
    /\ shown \subseteq Row

ListInit ==
    /\ jobs = {}
    /\ made = 0
    /\ req = NoReq
    /\ walk = NoWalk
    /\ shown = {}

-----------------------------------------------------------------------------
Disturb(user, how) ==
    walk' = IF req.pc # "idle" /\ req.user = user
            THEN [walk EXCEPT !.disturbed = @ \cup how] ELSE walk

InsertJob(user, at) ==
    /\ made < MaxJobs
    /\ made' = made + 1
    /\ jobs' = jobs \cup {[id |-> made', user |-> user, at |-> at]}
    /\ Disturb(user, {"insert"} \cup IF req.pc = "list" THEN {"gap"} ELSE {})
    /\ UNCHANGED <<req, shown>>

RemoveJob(row) ==
    /\ row \in jobs
    /\ jobs' = jobs \ {row}
    /\ Disturb(row.user, {"delete"})
    /\ UNCHANGED <<made, req, shown>>

-----------------------------------------------------------------------------
PageParam(p) == IF p = NotANumber \/ p < 1 THEN 1 ELSE p

\* Mutant of PerPageParam: per_page is not capped.
PerPageUncapped(p) == IF p = NotANumber \/ p < 1 THEN DefaultPerPage ELSE p

PerPageParam(p) ==
    CASE p = NotANumber \/ p < 1 -> DefaultPerPage
      [] p # NotANumber /\ p > MaxPerPage -> MaxPerPage
      [] OTHER -> p

\* Mutant of MaxPage: the division drops the last page if it is not full.
MaxPageRoundedDown(count, perPage) == IF count < perPage THEN 1 ELSE count \div perPage

MaxPage(count, perPage) == (count + perPage - 1) \div perPage

\* Mutant of Offset: pages are taken for rows.
OffsetInPages(page, perPage) == page - 1

Offset(page, perPage) == (page - 1) * perPage

\* Mutant of JobsByUser: WHERE user_id = $1 is missing.
JobsByAnyone(user) == jobs

JobsByUser(user) == {row \in jobs : row.user = user}

\* CountJobsByUser's rows.
JobsOf(user) == {row.id : row \in JobsByUser(user)}

\* ORDER BY created_at DESC: rows with the same created_at come in any order.
Ordered(rows) ==
    {s \in [1..Cardinality(rows) -> rows] :
        \A i, k \in DOMAIN s : i < k => s[i] # s[k] /\ s[i].at >= s[k].at}

Tied(rows) == \E r, s \in rows : r # s /\ r.at = s.at

\* LIMIT and OFFSET
Slice(order, limit, offset) ==
    SubSeq(order, offset + 1,
           IF offset + limit > Len(order) THEN Len(order) ELSE offset + limit)

\* The handler up to its first statement, and the walk that begins with it.
Ask(user, page, perPage) ==
    /\ req.pc = "idle"
    /\ req' = [pc |-> "count", user |-> user, page |-> PageParam(page),
               perPage |-> PerPageParam(perPage), count |-> 0]
    /\ walk' = [asked |-> PageParam(page), first |-> TRUE,
                from |-> IF PageParam(page) = 1 THEN JobsOf(user) ELSE {},
                seen |-> << >>, disturbed |-> {}]
    /\ shown' = {}
    /\ UNCHANGED <<jobs, made>>

\* CountJobsByUser.  A user without jobs gets an empty page with the number
\* that was asked for; else a page behind the last one becomes the last.
Count ==
    /\ req.pc = "count"
    /\ LET count == Cardinality(JobsOf(req.user))
           maxPage == MaxPage(count, req.perPage)
       IN req' = IF count = 0
                 THEN [req EXCEPT !.pc = "answered"]
                 ELSE [req EXCEPT !.pc = "list", !.count = count,
                                  !.page = IF @ > maxPage THEN maxPage ELSE @]
    /\ shown' = {}
    /\ UNCHANGED <<jobs, made, walk>>

\* ListJobsByUser and the answer.  The client takes the rows of the page that
\* it has asked for; of its first request, those of the page it is given.
List ==
    /\ req.pc = "list"
    /\ req' = [req EXCEPT !.pc = "answered"]
    /\ \E order \in Ordered(JobsByUser(req.user)) :
        LET data == Slice(order, req.perPage, Offset(req.page, req.perPage))
            ids == [i \in DOMAIN data |-> data[i].id]
            taken == walk.first \/ req.page = walk.asked
        IN /\ shown' = {data[i] : i \in DOMAIN data}
           /\ walk' = [walk EXCEPT
                !.first = FALSE,
                !.seen = IF taken THEN @ \o ids ELSE @,
                !.disturbed = IF Tied(JobsByUser(req.user)) THEN @ \cup {"tie"} ELSE @]
    /\ UNCHANGED <<jobs, made>>

\* The last page, as the meta of this answer has it; or not the page asked for.
WalkEnds ==
    /\ req.pc = "answered"
    /\ req.page # walk.asked \/ req.page >= MaxPage(req.count, req.perPage)

\* The client asks for the next page.
NextPage ==
    /\ req.pc = "answered"
    /\ ~WalkEnds
    /\ req' = [req EXCEPT !.pc = "count", !.page = @ + 1, !.count = 0]
    /\ walk' = [walk EXCEPT !.asked = req.page + 1, !.disturbed = @ \ {"gap"}]
    /\ UNCHANGED <<jobs, made, shown>>

\* The client is done with its answers; or the walk is given up, as a statement
\* that fails makes it with 500.
Leave ==
    /\ req.pc # "idle" \/ shown # {}
    /\ req' = NoReq
    /\ walk' = NoWalk
    /\ shown' = {}
    /\ UNCHANGED <<jobs, made>>

\* GetJobById: the row, or 404.
GetJobById(user, id) ==
    /\ req.pc = "idle"
    /\ shown' = {row \in jobs : row.id = id /\ row.user = user}
    /\ UNCHANGED <<jobs, made, req, walk>>

-----------------------------------------------------------------------------
\* A client that walks through the pages gets every job that was there when it
\* began, although jobs are added in front of and between those it has yet to
\* see: an insert only moves rows to later pages.  What can make it miss one is
\* a delete, an insert between the two statements of the last request, whose
\* count is then one too low for its rows, and rows with the same created_at
\* (jobsHandler.go:157-182).
NoneSkipped ==
    WalkEnds /\ req.page = walk.asked /\ walk.disturbed \subseteq {"insert"} =>
        \A id \in walk.from : \E i \in DOMAIN walk.seen : walk.seen[i] = id

\* And it gets none twice, although jobs are deleted under it, and also when
\* the page it asks for is gone, the answer is another page and says so in its
\* meta (jobsHandler.go:172-177, 201-204).
NoneTwice ==
    req.pc = "answered" /\ walk.disturbed \subseteq {"delete"} =>
        \A i, k \in DOMAIN walk.seen : walk.seen[i] = walk.seen[k] => i = k

=============================================================================
