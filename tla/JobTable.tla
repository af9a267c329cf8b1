------------------------------ MODULE JobTable ------------------------------
(***************************************************************************)
(* The PostgreSQL tables that the job pipeline lives on, and the sqlc      *)
(* queries of internal/database/jobs.sql.go over them.                     *)
(*                                                                         *)
(* A job id is its place in the order of creation: gen_random_uuid() never *)
(* repeats an id and created_at grows, so the k-th row inserted is job k   *)
(* and "ORDER BY created_at" is the order of the ids.  A query is one      *)
(* statement, hence one atomic step.                                       *)
(***************************************************************************)
EXTENDS Integers, FiniteSets

CONSTANTS
    MaxJobs,      \* bound: how many rows are ever inserted into jobs
    Users,        \* users.id
    RepoURLs,     \* the repository URLs that clients submit
    DocTypes,     \* gemini.DocType: readme, quickstart, diagram
    SweepLimit,   \* the LIMIT of GetPendingJob (50 in the code)
    NoMsg         \* "no row" and "no message"

JobIds == 1..MaxJobs

\* pipeline.JobMessage, which is also the part of a jobs row no query updates.
Message == [job : JobIds, user : Users, repo : RepoURLs]

ASSUME MaxJobsAssumption == MaxJobs \in Nat
ASSUME DocTypesAssumption == IsFiniteSet(DocTypes)
ASSUME SweepLimitAssumption == SweepLimit \in Nat \ {0}
ASSUME NoMsgAssumption == NoMsg \notin Message

VARIABLES
    created,      \* number of rows inserted so far
    row,          \* row[j]: the columns id, user_id, repo_url of job j
    status,       \* status[j]: its status column, "absent" when no row exists
    documents,    \* documents[j]: the doc_types of the documents rows of job j
    callsUsed     \* callsUsed[j]: its gemini_calls_used column

tableVars == <<created, row, status, documents, callsUsed>>

\* JobStatus.  Nothing in the program ever writes "failed".
Status == {"queued", "cloning", "parsing", "generating", "completed", "failed"}

IsActive(s) == s \in {"cloning", "parsing", "generating"}

TableTypeOK ==
    /\ created \in 0..MaxJobs
    /\ row \in [JobIds -> Message \cup {NoMsg}]
    /\ status \in [JobIds -> Status \cup {"absent"}]
    /\ documents \in [JobIds -> SUBSET DocTypes]
    /\ callsUsed \in [JobIds -> Nat]

TableInit ==
    /\ created = 0
    /\ row = [j \in JobIds |-> NoMsg]
    /\ status = [j \in JobIds |-> "absent"]
    /\ documents = [j \in JobIds |-> {}]
    /\ callsUsed = [j \in JobIds |-> 0]

-----------------------------------------------------------------------------
(***************************************************************************)
(* Queries.  An UPDATE or DELETE that matches a row is an action; the      *)
(* predicate with which it matches is what the caller's affectedRows test  *)
(* (rows = 0) reads.                                                       *)
(***************************************************************************)

\* Mutant of Owned: the WHERE clauses forget user_id.
OwnedByAnyone(j, u) == status[j] # "absent"

\* WHERE id = j AND user_id = u
Owned(j, u) == status[j] # "absent" /\ row[j].user = u

\* INSERT INTO jobs: the new row gets the defaults of the schema.
CreateJob(u, r) ==
    /\ created < MaxJobs
    /\ created' = created + 1
    /\ row' = [row EXCEPT ![created'] = [job |-> created', user |-> u, repo |-> r]]
    /\ status' = [status EXCEPT ![created'] = "queued"]
    /\ UNCHANGED <<documents, callsUsed>>

\* Mutant of Claimable: the claim is not conditional on the status.
ClaimableInAnyStatus(m) == Owned(m.job, m.user)

\* UpdateJob: UPDATE ... WHERE id AND user_id AND status = 'queued'
Claimable(m) == Owned(m.job, m.user) /\ status[m.job] = "queued"

UpdateJob(m, s) ==
    /\ Claimable(m)
    /\ status' = [status EXCEPT ![m.job] = s]
    /\ UNCHANGED <<created, row, documents, callsUsed>>

\* SetJobStatus: UPDATE ... WHERE id AND user_id, whatever the status is
SetJobStatus(m, s) ==
    /\ Owned(m.job, m.user)
    /\ status' = [status EXCEPT ![m.job] = s]
    /\ UNCHANGED <<created, row, documents, callsUsed>>

\* Mutant of StoreTx: the job is not flipped inside the transaction.
StoreDocumentsOnly(m, docs) ==
    /\ Owned(m.job, m.user)
    /\ documents' = [documents EXCEPT ![m.job] = @ \cup docs]
    /\ UNCHANGED <<created, row, status, callsUsed>>

\* StoreResults, committed: the documents of the run are upserted and the job
\* is flipped to completed, in one transaction.  Without the row the foreign
\* key of documents (or the rows = 0 test) rolls everything back.
StoreTx(m, docs) ==
    /\ Owned(m.job, m.user)
    /\ documents' = [documents EXCEPT ![m.job] = @ \cup docs]
    /\ status' = [status EXCEPT ![m.job] = "completed"]
    /\ callsUsed' = [callsUsed EXCEPT ![m.job] = Cardinality(docs)]
    /\ UNCHANGED <<created, row>>

\* Mutant of DeleteJob: documents has no ON DELETE CASCADE.
DeleteWithoutCascade(j, u) ==
    /\ Owned(j, u)
    /\ status' = [status EXCEPT ![j] = "absent"]
    /\ UNCHANGED <<created, row, documents, callsUsed>>

\* DELETE FROM jobs; documents.job_id is ON DELETE CASCADE.
DeleteJob(j, u) ==
    /\ Owned(j, u)
    /\ status' = [status EXCEPT ![j] = "absent"]
    /\ documents' = [documents EXCEPT ![j] = {}]
    /\ callsUsed' = [callsUsed EXCEPT ![j] = 0]
    /\ UNCHANGED <<created, row>>

\* Mutant of Oldest: the limit is one too small.
OldestOffByOne(S) == {j \in S : Cardinality({k \in S : k < j}) + 1 < SweepLimit}

\* The SweepLimit oldest of the jobs in S.
Oldest(S) == {j \in S : Cardinality({k \in S : k < j}) < SweepLimit}

\* Mutant of GetPendingJob: the newest pending row is never returned.
PendingButNewest ==
    LET queued == {j \in JobIds : status[j] = "queued"}
    IN  {row[j] : j \in {i \in Oldest(queued) : \E k \in queued : i < k}}

\* GetPendingJob: the rows the sweep turns into messages.
GetPendingJob == {row[j] : j \in Oldest({i \in JobIds : status[i] = "queued"})}

=============================================================================
