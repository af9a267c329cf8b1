----------------------------- MODULE ParseFiles -----------------------------
(***************************************************************************)
(* ParseFiles: a feeder goroutine hands the paths to reader goroutines     *)
(* over one unbuffered channel, the readers hand the files to the caller   *)
(* over another, and a closer goroutine closes that one when all readers   *)
(* have returned.  Paths are numbered in the order of the slice.           *)
(***************************************************************************)
EXTENDS Naturals, Sequences

CONSTANTS
    NumPaths,     \* len(paths), at most MAX_FILES_PER_REPO
    Readable,     \* the paths that os.ReadFile can read
    Readers       \* the reader goroutines, cfg.PipelineWorkers of them

Paths == 1..NumPaths

ASSUME NumPathsAssumption == NumPaths \in Nat
ASSUME ReadableAssumption == Readable \subseteq Paths
ASSUME ReadersAssumption == Readers # {}

VARIABLES
    cancelled,    \* ctx is cancelled
    fed,          \* how many paths the feeder has handed over
    feeder,       \* "feeding"; "closed": pathCh is closed; "stopped" by ctx
    rpc,          \* rpc[r]: "receive", "read", "deliver" or "returned"
    rpath,        \* rpath[r]: the path that reader r has, 0 when it has none
    resultsClosed, \* resultCh is closed
    results,      \* the paths of the files the caller has collected
    caller        \* "collecting" or "returned"

vars == <<cancelled, fed, feeder, rpc, rpath, resultsClosed, results, caller>>

TypeOK ==
    /\ cancelled \in BOOLEAN
    /\ fed \in 0..NumPaths
    /\ feeder \in {"feeding", "closed", "stopped"}
    /\ rpc \in [Readers -> {"receive", "read", "deliver", "returned"}]
    /\ rpath \in [Readers -> Paths \cup {0}]
    /\ resultsClosed \in BOOLEAN
    /\ results \in Seq(Paths)
    /\ caller \in {"collecting", "returned"}

Init ==
    /\ cancelled \in BOOLEAN
    /\ fed = 0
    /\ feeder = "feeding"
    /\ rpc = [r \in Readers |-> "receive"]
    /\ rpath = [r \in Readers |-> 0]
    /\ resultsClosed = FALSE
    /\ results = << >>
    /\ caller = "collecting"

-----------------------------------------------------------------------------
Cancel ==
    /\ ~cancelled
    /\ cancelled' = TRUE
    /\ UNCHANGED <<fed, feeder, rpc, rpath, resultsClosed, results, caller>>

\* Mutant of MorePaths: the loop runs once too often.
MorePathsOffByOne == fed <= NumPaths

\* for _, path := range paths
MorePaths == fed < NumPaths

\* case pathCh <- path: meets a reader at its receive.
Feed(r) ==
    /\ feeder = "feeding"
    /\ MorePaths
    /\ rpc[r] = "receive"
    /\ fed' = fed + 1
    /\ rpc' = [rpc EXCEPT ![r] = "read"]
    /\ rpath' = [rpath EXCEPT ![r] = fed']
    /\ UNCHANGED <<cancelled, feeder, resultsClosed, results, caller>>

\* case <-ctx.Done(): the feeder returns, and pathCh stays open.
FeederCancelled ==
    /\ feeder = "feeding"
    /\ MorePaths
    /\ cancelled
    /\ feeder' = "stopped"
    /\ UNCHANGED <<cancelled, fed, rpc, rpath, resultsClosed, results, caller>>

\* Mutant of ClosePaths: the feeder returns without close(pathCh).
ForgetToClose ==
    /\ feeder = "feeding"
    /\ ~MorePaths
    /\ feeder' = "stopped"
    /\ UNCHANGED <<cancelled, fed, rpc, rpath, resultsClosed, results, caller>>

\* close(pathCh) after the loop over the paths.
ClosePaths ==
    /\ feeder = "feeding"
    /\ ~MorePaths
    /\ feeder' = "closed"
    /\ UNCHANGED <<cancelled, fed, rpc, rpath, resultsClosed, results, caller>>

\* Mutant of Goto: a reader keeps the path of the file it has delivered.
GotoWithPath(r, pc) ==
    /\ rpc' = [rpc EXCEPT ![r] = pc]
    /\ UNCHANGED rpath

\* A reader moves on: it keeps its path only on the way to its delivery.
Goto(r, pc) ==
    /\ rpc' = [rpc EXCEPT ![r] = pc]
    /\ rpath' = [rpath EXCEPT ![r] = IF pc = "deliver" THEN @ ELSE 0]

\* os.ReadFile: a file that cannot be read is skipped.
Read(r) ==
    /\ rpc[r] = "read"
    /\ Goto(r, IF rpath[r] \in Readable THEN "deliver" ELSE "receive")
    /\ UNCHANGED <<cancelled, fed, feeder, resultsClosed, results, caller>>

\* case resultCh <- pf
Deliver(r) ==
    /\ rpc[r] = "deliver"
    /\ ~resultsClosed
    /\ results' = Append(results, rpath[r])
    /\ Goto(r, "receive")
    /\ UNCHANGED <<cancelled, fed, feeder, resultsClosed, caller>>

\* case <-ctx.Done(): the reader returns without delivering its file.
ReaderCancelled(r) ==
    /\ rpc[r] = "deliver"
    /\ cancelled
    /\ Goto(r, "returned")
    /\ UNCHANGED <<cancelled, fed, feeder, resultsClosed, results, caller>>

\* for path := range pathCh ends when pathCh is closed.
ReaderEnds(r) ==
    /\ rpc[r] = "receive"
    /\ feeder = "closed"
    /\ Goto(r, "returned")
    /\ UNCHANGED <<cancelled, fed, feeder, resultsClosed, results, caller>>

\* Mutant of ReadersDone: the wait is over when one reader has returned.
FirstReaderDone == \E r \in Readers : rpc[r] = "returned"

\* wg.Wait()
ReadersDone == \A r \in Readers : rpc[r] = "returned"

CloseResults ==
    /\ ~resultsClosed
    /\ ReadersDone
    /\ resultsClosed' = TRUE
    /\ UNCHANGED <<cancelled, fed, feeder, rpc, rpath, results, caller>>

\* for pf := range resultCh ends, and ParseFiles returns with a nil error.
Return ==
    /\ caller = "collecting"
    /\ resultsClosed
    /\ caller' = "returned"
    /\ UNCHANGED <<cancelled, fed, feeder, rpc, rpath, resultsClosed, results>>

Step ==
    \/ FeederCancelled \/ ClosePaths
    \/ \E r \in Readers :
        Feed(r) \/ Read(r) \/ Deliver(r) \/ ReaderCancelled(r) \/ ReaderEnds(r)
    \/ CloseResults \/ Return

Next == Cancel \/ Step

\* All goroutines of the call run until they block; nobody has to cancel.
Spec == Init /\ [][Next]_vars /\ WF_vars(Step)

-----------------------------------------------------------------------------
Delivered == {results[i] : i \in DOMAIN results}

\* The places a path can be in: still in the slice, with a reader, collected.
\* No file is ever in two of them, read twice or collected twice.
EachFileOnce ==
    /\ \A i, k \in DOMAIN results : results[i] = results[k] => i = k
    /\ \A r \in Readers : rpath[r] \notin Delivered /\ rpath[r] <= fed
    /\ \A q, r \in Readers : rpath[q] = rpath[r] /\ rpath[q] # 0 => q = r
    /\ Delivered \subseteq Readable \cap 1..fed

\* A nil error with files missing is possible only after a cancellation: the
\* caller does not look at ctx (parser.go:62-67, worker.go:78-82).
CompleteUnlessCancelled ==
    caller = "returned" /\ ~cancelled => Delivered = Readable

\* No reader can send on resultCh once it is closed, which would panic.
NoDeliveryAfterClose == resultsClosed => \A r \in Readers : rpc[r] # "deliver"

\* The feeder is gone without closing pathCh, and the readers that are left
\* all wait on it: nobody can take a step any more.
Stuck ==
    /\ feeder = "stopped"
    /\ \A r \in Readers : rpc[r] \in {"receive", "returned"}
    /\ \E r \in Readers : rpc[r] = "receive"

Outcome ==
    CASE Stuck                                          -> "hung"
      [] caller = "returned" /\ Delivered = Readable    -> "all"
      [] caller = "returned" /\ Delivered # Readable    -> "some"
      [] OTHER                                          -> "running"

\* The call ends in one of the ways Worker!Parse allows, if it ends: it hangs
\* or misses files only when it is cancelled.
Call == INSTANCE ParseCall WITH outcome <- Outcome, cancelled <- cancelled

CallSpec == Call!CallSpec

=============================================================================
