---------------------------- MODULE AtomicStore -----------------------------
(***************************************************************************)
(* What StoreResults and DELETE promise together: a job in "generating"    *)
(* gets all of its results in one step, or none ever, and a deleted job    *)
(* leaves nothing.  The step is the StoreTx that the pipeline model takes. *)
(***************************************************************************)
EXTENDS JobTable

VARIABLE
    cache         \* cache[r][d]: the job whose document d is cached for
                  \* repository r, 0 when there is none

atomicVars == <<tableVars, cache>>

\* The rows of jobs that are being stored: all inserted, none completed.
AtomicInit ==
    /\ created = MaxJobs
    /\ row \in {f \in [JobIds -> Message] : \A j \in JobIds : f[j].job = j}
    /\ status = [j \in JobIds |-> "generating"]
    /\ documents = [j \in JobIds |-> {}]
    /\ callsUsed = [j \in JobIds |-> 0]
    /\ cache = [r \in RepoURLs |-> [d \in DocTypes |-> 0]]

\* Mutant of Cached: the cache rows get the user instead of the content.
CachedUser(j, docs) ==
    [cache EXCEPT ![row[j].repo] = [d \in DocTypes |-> IF d \in docs THEN row[j].user ELSE @[d]]]

\* The rows of doc_cache after job j has written the ones of docs.
Cached(j, docs) ==
    [cache EXCEPT ![row[j].repo] = [d \in DocTypes |-> IF d \in docs THEN j ELSE @[d]]]

StoreOnce(j, docs) ==
    /\ status[j] = "generating"
    /\ StoreTx(row[j], docs)
    /\ cache' = Cached(j, docs)

DeleteOnce(j) == DeleteJob(j, row[j].user) /\ UNCHANGED cache

AtomicNext ==
    \E j \in JobIds : \/ \E docs \in SUBSET DocTypes : docs # {} /\ StoreOnce(j, docs)
                      \/ DeleteOnce(j)

AtomicSpec == AtomicInit /\ [][AtomicNext]_atomicVars

=============================================================================
