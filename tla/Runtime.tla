------------------------------ MODULE Runtime -------------------------------
(***************************************************************************)
(* What main.go creates once and hands to every goroutine: the buffered    *)
(* job channel and the context that SIGINT/SIGTERM cancel; and the state   *)
(* of the process itself.                                                  *)
(***************************************************************************)
EXTENDS JobTable, Sequences

CONSTANTS
    Workers,      \* the worker goroutines, cfg.PipelineWorkers of them
    Faults        \* the faults the environment may produce, see FaultKinds

FaultKinds == {
    "db",         \* a statement fails, or takes effect and its reply is lost
    "stage",      \* clone, scan, parse or generation fails
    "slow",       \* a request outlives the 5 s that srv.Shutdown waits
    "signal",     \* SIGINT or SIGTERM
    "crash" }     \* the process is killed

ASSUME WorkersAssumption == IsFiniteSet(Workers) /\ Workers # {}
ASSUME FaultsAssumption == Faults \subseteq FaultKinds

VARIABLES
    jobCh,        \* the buffer of the channel, oldest message first
    chClosed,     \* close(jobCh) has been called
    ctxDone,      \* workerContext is cancelled
    proc          \* "up", or how the process ended

runtimeVars == <<jobCh, chClosed, ctxDone, proc>>

\* make(chan pipeline.JobMessage, cfg.PipelineWorkers)
Capacity == Cardinality(Workers)

DbFault == "db" \in Faults

RuntimeTypeOK ==
    /\ jobCh \in Seq(Message)
    /\ Len(jobCh) <= Capacity
    /\ chClosed \in BOOLEAN
    /\ ctxDone \in BOOLEAN
    /\ proc \in {"up", "exited", "crashed", "panicked"}

\* The channel and the context of a process that starts.
RuntimeInit ==
    /\ jobCh = << >>
    /\ chClosed = FALSE
    /\ ctxDone = FALSE

-----------------------------------------------------------------------------
\* Mutant of TrySend: the buffer has no limit.
SendUnbounded(m) ==
    /\ ~chClosed
    /\ jobCh' = Append(jobCh, m)

\* select { case jobs <- m: default: }: never blocks, drops m when the buffer
\* is full.  On a closed channel the select panics instead.
TrySend(m) ==
    /\ ~chClosed
    /\ jobCh' = IF Len(jobCh) < Capacity THEN Append(jobCh, m) ELSE jobCh

\* msg := <-jobs
Receive(m) ==
    /\ jobCh # << >>
    /\ m = Head(jobCh)
    /\ jobCh' = Tail(jobCh)

=============================================================================
