---------------------------- MODULE JobsHandler -----------------------------
(***************************************************************************)
(* The HTTP handlers that change jobs: SubmitJob and RemoveJobById.        *)
(* ListJobs and GetJobById only read.  A client is one connection, on      *)
(* which net/http runs one handler goroutine at a time.                    *)
(***************************************************************************)
EXTENDS Runtime

CONSTANTS
    Clients,      \* the connections of the HTTP server
    Prefixed      \* the repository URLs that start with githubPrefix

ASSUME PrefixedAssumption == Prefixed \subseteq RepoURLs

VARIABLES
    hpc,          \* hpc[c]: "idle", or the next step of its handler
    hmsg          \* hmsg[c]: the job of the request; user is the caller

handlerVars == <<hpc, hmsg>>

HandlerTypeOK ==
    /\ hpc \in [Clients -> {"idle", "enqueue", "delete"}]
    /\ hmsg \in [Clients -> Message \cup {NoMsg}]

HandlerInit ==
    /\ hpc = [c \in Clients |-> "idle"]
    /\ hmsg = [c \in Clients |-> NoMsg]

Handle(c, pc, m) ==
    /\ hpc' = [hpc EXCEPT ![c] = pc]
    /\ hmsg' = [hmsg EXCEPT ![c] = m]

\* The response is written, or the handler panics and net/http recovers.
Respond(c) == Handle(c, "idle", NoMsg)

-----------------------------------------------------------------------------
\* The checks of SubmitJob on repo_url.
AcceptsURL(r) == r \in Prefixed

\* SubmitJob up to CreateJob.  A request that is refused changes nothing; one
\* whose INSERT takes effect without a reply ends in a 500.
SubmitJob(c, u, r) ==
    /\ hpc[c] = "idle"
    /\ AcceptsURL(r)
    /\ CreateJob(u, r)
    /\ \/ Handle(c, "enqueue", row'[created'])
       \/ DbFault /\ UNCHANGED handlerVars
    /\ UNCHANGED runtimeVars

\* The select of SubmitJob.  On a closed channel it panics.
Enqueue(c) ==
    /\ hpc[c] = "enqueue"
    /\ TrySend(hmsg[c]) \/ (chClosed /\ UNCHANGED jobCh)
    /\ Respond(c)
    /\ UNCHANGED <<chClosed, ctxDone, proc, tableVars>>

\* The status check of RemoveJobById.
Deletable(s) == ~IsActive(s)

\* RemoveJobById up to the IsActive check.  404, 409 and 500 change nothing.
RemoveJobById(c, j, u) ==
    /\ hpc[c] = "idle"
    /\ Owned(j, u)
    /\ Deletable(status[j])
    /\ Handle(c, "delete", [row[j] EXCEPT !.user = u])
    /\ UNCHANGED <<runtimeVars, tableVars>>

\* DeleteJob, which is not conditional on the status that was checked.  The
\* DELETE may also fail, or match no row any more.
Delete(c) ==
    /\ hpc[c] = "delete"
    /\ LET j == hmsg[c].job
           u == hmsg[c].user
       IN  \/ DeleteJob(j, u)
           \/ (DbFault \/ ~Owned(j, u)) /\ UNCHANGED tableVars
    /\ Respond(c)
    /\ UNCHANGED runtimeVars

\* A request that arrives, and a step of a handler that runs.
NewRequest(c) ==
    \/ \E u \in Users, r \in RepoURLs : SubmitJob(c, u, r)
    \/ \E u \in Users, j \in JobIds : RemoveJobById(c, j, u)

HandlerStep(c) == Enqueue(c) \/ Delete(c)

=============================================================================
