---------------------------- MODULE StoreResults ----------------------------
(***************************************************************************)
(* StoreResults statement by statement, for the jobs of several workers at *)
(* once, against DELETEs of the same jobs: what a transaction has written  *)
(* and not committed, the row locks that PostgreSQL gives it, and the      *)
(* foreign key of documents.                                               *)
(*                                                                         *)
(* A job is stored by the one worker that holds it, so a transaction has   *)
(* the name of its job.  All jobs of a repository have the same commit:    *)
(* with another commit they would not meet in doc_cache.                   *)
(***************************************************************************)
EXTENDS JobTable

CONSTANT
    Place         \* Place[d]: where document type d stands in docTypes

ASSUME PlaceAssumption ==
    /\ Place \in [DocTypes -> Nat]
    /\ \A d, e \in DocTypes : Place[d] = Place[e] => d = e

VARIABLES
    cache,        \* doc_cache as in AtomicStore
    txPc,         \* txPc[j]: the next statement of the transaction of job j
    txDocs,       \* txDocs[j]: the documents it was called with
    docsDone,     \* docsDone[j]: the ones it has upserted into documents
    cacheDone,    \* cacheDone[j]: the ones it has upserted into doc_cache
    deletion      \* deletion[j]: the DELETE of job j, which may have to wait

txVars == <<txPc, txDocs, docsDone, cacheDone>>

vars == <<tableVars, cache, txVars, deletion>>

Atomic == INSTANCE AtomicStore

Statements == {"document", "cache", "complete", "commit"}

Ended == {"committed", "rolledback"}

TypeOK ==
    /\ TableTypeOK
    /\ cache \in [RepoURLs -> [DocTypes -> JobIds \cup {0}]]
    /\ txPc \in [JobIds -> Statements \cup Ended \cup {"idle", "rollback"}]
    /\ txDocs \in [JobIds -> SUBSET DocTypes]
    /\ docsDone \in [JobIds -> SUBSET DocTypes]
    /\ cacheDone \in [JobIds -> SUBSET DocTypes]
    /\ deletion \in [JobIds -> {"none", "waiting", "done"}]

Init ==
    /\ Atomic!AtomicInit
    /\ txPc = [j \in JobIds |-> "idle"]
    /\ txDocs = [j \in JobIds |-> {}]
    /\ docsDone = [j \in JobIds |-> {}]
    /\ cacheDone = [j \in JobIds |-> {}]
    /\ deletion = [j \in JobIds |-> "none"]

-----------------------------------------------------------------------------
(***************************************************************************)
(* Locks.  They are held from the statement to the end of the transaction. *)
(***************************************************************************)

\* Mutant of KeyShared: documents has no foreign key.
NeverShared(j) == FALSE

\* The foreign key check of the first document takes a key share lock on the
\* row of the job: an UPDATE may pass it, a DELETE may not.
KeyShared(j) == docsDone[j] # {}

\* The upsert of a doc_cache row locks it, and the place of one that is new.
CacheRowFree(j, d) ==
    \A k \in JobIds \ {j} : row[k].repo = row[j].repo => d \notin cacheDone[k]

\* Mutant of IsNext: every job has an order of its own.
IsNextInOwnOrder(j, d) ==
    /\ d \in txDocs[j] \ cacheDone[j]
    /\ \A e \in txDocs[j] \ cacheDone[j] :
        IF j = 1 THEN Place[d] <= Place[e] ELSE Place[d] >= Place[e]

\* for _, doc := range in.Docs: in the order of docTypes, without the failed.
IsNext(j, d) ==
    /\ d \in txDocs[j] \ cacheDone[j]
    /\ \A e \in txDocs[j] \ cacheDone[j] : Place[d] <= Place[e]

-----------------------------------------------------------------------------
(***************************************************************************)
(* The transaction                                                         *)
(***************************************************************************)
Begin(j) ==
    /\ txPc[j] = "idle"
    /\ \E docs \in SUBSET DocTypes : docs # {} /\ txDocs' = [txDocs EXCEPT ![j] = docs]
    /\ txPc' = [txPc EXCEPT ![j] = "document"]
    /\ UNCHANGED <<tableVars, cache, docsDone, cacheDone, deletion>>

\* Mutant of UpsertDocument: written with queries instead of qtx.
UpsertDocumentOutside(j) ==
    /\ txPc[j] = "document"
    /\ \E d \in DocTypes :
        /\ IsNext(j, d)
        /\ documents' = [documents EXCEPT ![j] = @ \cup {d}]
        /\ docsDone' = [docsDone EXCEPT ![j] = @ \cup {d}]
    /\ txPc' = [txPc EXCEPT ![j] = "cache"]
    /\ UNCHANGED <<created, row, status, callsUsed, cache, txDocs, cacheDone, deletion>>

\* Without the row of the job the foreign key makes the statement fail.
UpsertDocument(j) ==
    /\ txPc[j] = "document"
    /\ IF status[j] = "absent"
       THEN /\ txPc' = [txPc EXCEPT ![j] = "rollback"]
            /\ UNCHANGED docsDone
       ELSE /\ txPc' = [txPc EXCEPT ![j] = "cache"]
            /\ \E d \in DocTypes :
                /\ IsNext(j, d)
                /\ docsDone' = [docsDone EXCEPT ![j] = @ \cup {d}]
    /\ UNCHANGED <<tableVars, cache, txDocs, cacheDone, deletion>>

\* Mutant of UpsertDocCache: written with queries instead of qtx.
UpsertDocCacheOutside(j) ==
    /\ txPc[j] = "cache"
    /\ \E d \in DocTypes :
        /\ IsNext(j, d)
        /\ cache' = [cache EXCEPT ![row[j].repo][d] = j]
        /\ cacheDone' = [cacheDone EXCEPT ![j] = @ \cup {d}]
    /\ txPc' = [txPc EXCEPT ![j] = IF cacheDone'[j] = txDocs[j] THEN "complete" ELSE "document"]
    /\ UNCHANGED <<tableVars, txDocs, docsDone, deletion>>

UpsertDocCache(j) ==
    /\ txPc[j] = "cache"
    /\ \E d \in DocTypes :
        /\ IsNext(j, d)
        /\ CacheRowFree(j, d)
        /\ cacheDone' = [cacheDone EXCEPT ![j] = @ \cup {d}]
    /\ txPc' = [txPc EXCEPT ![j] = IF cacheDone'[j] = txDocs[j] THEN "complete" ELSE "document"]
    /\ UNCHANGED <<tableVars, cache, txDocs, docsDone, deletion>>

\* CompleteJob and the rows = 0 test.
CompleteJob(j) ==
    /\ txPc[j] = "complete"
    /\ txPc' = [txPc EXCEPT ![j] = IF Owned(j, row[j].user) THEN "commit" ELSE "rollback"]
    /\ UNCHANGED <<tableVars, cache, txDocs, docsDone, cacheDone, deletion>>

End(j, how) ==
    /\ txPc' = [txPc EXCEPT ![j] = how]
    /\ docsDone' = [docsDone EXCEPT ![j] = {}]
    /\ cacheDone' = [cacheDone EXCEPT ![j] = {}]
    /\ UNCHANGED <<txDocs, deletion>>

\* Mutant of Commit: gemini_calls_used counts the calls that failed, too.
CommitAttempts(j) ==
    /\ txPc[j] = "commit"
    /\ documents' = [documents EXCEPT ![j] = @ \cup docsDone[j]]
    /\ cache' = Atomic!Cached(j, cacheDone[j])
    /\ status' = [status EXCEPT ![j] = "completed"]
    /\ callsUsed' = [callsUsed EXCEPT ![j] = Cardinality(DocTypes)]
    /\ End(j, "committed")
    /\ UNCHANGED <<created, row>>

\* What the statements have written becomes visible.
Commit(j) ==
    /\ txPc[j] = "commit"
    /\ documents' = [documents EXCEPT ![j] = @ \cup docsDone[j]]
    /\ cache' = Atomic!Cached(j, cacheDone[j])
    /\ status' = [status EXCEPT ![j] = "completed"]
    /\ callsUsed' = [callsUsed EXCEPT ![j] = Cardinality(txDocs[j])]
    /\ End(j, "committed")
    /\ UNCHANGED <<created, row>>

\* A statement fails, ctx is cancelled, or the process dies: nothing of the
\* transaction will be committed, but its locks stay until it is rolled back.
Fail(j) ==
    /\ txPc[j] \in Statements
    /\ txPc' = [txPc EXCEPT ![j] = "rollback"]
    /\ UNCHANGED <<tableVars, cache, txDocs, docsDone, cacheDone, deletion>>

\* Mutant of Rollback: no deferred Rollback; the connection keeps the locks.
NoRollback(j) ==
    /\ txPc[j] = "rollback"
    /\ txPc' = [txPc EXCEPT ![j] = "rolledback"]
    /\ UNCHANGED <<tableVars, cache, txDocs, docsDone, cacheDone, deletion>>

\* The deferred Rollback; after a crash the server does the same.
Rollback(j) ==
    /\ txPc[j] = "rollback"
    /\ End(j, "rolledback")
    /\ UNCHANGED <<tableVars, cache>>

-----------------------------------------------------------------------------
(***************************************************************************)
(* The DELETE of RemoveJobById, whose check of the status came before the  *)
(* job was claimed.                                                        *)
(***************************************************************************)
AskDelete(j) ==
    /\ deletion[j] = "none"
    /\ deletion' = [deletion EXCEPT ![j] = "waiting"]
    /\ UNCHANGED <<tableVars, cache, txVars>>

\* The cascade takes a snapshot after the wait: it sees what was committed.
Delete(j) ==
    /\ deletion[j] = "waiting"
    /\ ~KeyShared(j)
    /\ DeleteJob(j, row[j].user)
    /\ deletion' = [deletion EXCEPT ![j] = "done"]
    /\ UNCHANGED <<cache, txVars>>

Progress(j) ==
    \/ UpsertDocument(j) \/ UpsertDocCache(j) \/ CompleteJob(j) \/ Commit(j)
    \/ Rollback(j)

Next ==
    \E j \in JobIds : Begin(j) \/ Progress(j) \/ Fail(j) \/ AskDelete(j) \/ Delete(j)

\* Statements that need not wait are executed, and a crash frees the locks.
\* Nothing has to fail: waiting must end without that.
Spec ==
    /\ Init /\ [][Next]_vars
    /\ \A j \in JobIds : WF_vars(Progress(j)) /\ WF_vars(Delete(j))

-----------------------------------------------------------------------------
\* A client sees the documents, the status and gemini_calls_used of a job
\* together or not at all, and nothing of a deleted job, at every statement of
\* every transaction (store.go:33-37).
AllOrNothing ==
    \A j \in JobIds :
        /\ documents[j] # {} <=> status[j] = "completed"
        /\ callsUsed[j] = Cardinality(documents[j])

\* From the first document to the end of its transaction the row of the job
\* stays, so that CompleteJob finds it: only a store that has not begun to
\* write can lose its job (store.go:87-89, and the order of its statements).
RowIsKept ==
    \A j \in JobIds :
        docsDone[j] # {} => status[j] = "generating" /\ deletion[j] # "done"

\* A document in the cache was written by a store that committed: the failed
\* ones leave nothing there for others to find (store.go:47-48).
CacheFromCommitted ==
    \A r \in RepoURLs, d \in DocTypes :
        LET j == cache[r][d]
        IN  j # 0 => txPc[j] = "committed" /\ row[j].repo = r /\ d \in txDocs[j]

\* j waits for the cache row of document d, which k has.
WaitsFor(j, k, d) ==
    /\ txPc[j] = "cache"
    /\ IsNext(j, d)
    /\ k # j
    /\ row[k].repo = row[j].repo
    /\ d \in cacheDone[k]

\* A store waits only for stores that are further in docTypes than itself:
\* there is no cycle of waiting stores that PostgreSQL had to break by failing
\* one of them (worker.go:118, store.go:51).
WaitsUpward ==
    \A j, k \in JobIds, d, e \in DocTypes :
        WaitsFor(j, k, d) /\ e \in txDocs[k] \ cacheDone[k] => Place[d] < Place[e]

\* How far a transaction is: it writes a document, then its cache row, in the
\* order of docTypes, and completes the job when it has written all.
Extent(j) ==
    /\ cacheDone[j] \subseteq docsDone[j]
    /\ docsDone[j] \subseteq txDocs[j]
    /\ txPc[j] \in Ended \cup {"idle"} => docsDone[j] = {}
    /\ txPc[j] = "document" => docsDone[j] = cacheDone[j]
    /\ txPc[j] = "cache" => \A d \in DocTypes : IsNext(j, d) => docsDone[j] = cacheDone[j] \cup {d}
    /\ txPc[j] \in {"complete", "commit"} => cacheDone[j] = txDocs[j]
    /\ txPc[j] # "idle" => txDocs[j] # {}
    /\ \A c \in cacheDone[j], d \in txDocs[j] \ cacheDone[j] : Place[c] < Place[d]

\* The status of a job follows from its transaction and its DELETE.
StatusIs(j) ==
    IF deletion[j] = "done" THEN "absent"
    ELSE IF txPc[j] = "committed" THEN "completed" ELSE "generating"

\* The inductive invariant.
StoreInv ==
    /\ TypeOK
    /\ \A j \in JobIds : /\ Extent(j)
                          /\ status[j] = StatusIs(j)
                          /\ row[j] \in Message /\ row[j].job = j
    /\ AllOrNothing
    /\ RowIsKept
    /\ CacheFromCommitted

\* To whoever reads committed data, the statements are the one StoreTx of the
\* pipeline model and the DELETE one DeleteJob.
AtomicSpec == Atomic!AtomicSpec

\* Every store comes to its end and every DELETE is executed, however they
\* meet, and although failed transactions have held locks.
NobodyWaitsForEver ==
    \A j \in JobIds :
        /\ txPc[j] # "idle" ~> txPc[j] \in Ended
        /\ deletion[j] = "waiting" ~> deletion[j] = "done"

=============================================================================
