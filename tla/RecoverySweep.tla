--------------------------- MODULE RecoverySweep ----------------------------
(***************************************************************************)
(* The recovery sweep goroutine: on every tick it reads the queued jobs    *)
(* and offers each of them to the job channel.                             *)
(*                                                                         *)
(* The tick and the query are one step: a tick touches nothing that others *)
(* see.  The snapshot the query returns is kept, and sent one message at a *)
(* time while clients and workers change the table under it.               *)
(***************************************************************************)
EXTENDS Runtime

VARIABLES
    spc,          \* "wait" at the outer select, "send" in the loop, "exited"
    pending       \* the messages of the snapshot that are still to be sent

sweepVars == <<spc, pending>>

SweepTypeOK ==
    /\ spc \in {"wait", "send", "exited"}
    /\ pending \in SUBSET Message

SweepInit ==
    /\ spc = "wait"
    /\ pending = {}

\* case <-ticker.C.  The query runs under ctx.  A tick whose query fails or
\* finds nothing changes no state and is left out.
SweepQuery ==
    /\ spc = "wait"
    /\ ~ctxDone
    /\ GetPendingJob # {}
    /\ pending' = GetPendingJob
    /\ spc' = "send"
    /\ UNCHANGED <<runtimeVars, tableVars>>

\* The loop over pendingJobs goes on with the oldest row that is left.
SweepSend ==
    /\ spc = "send"
    /\ \E m \in pending :
        /\ \A n \in pending : m.job <= n.job
        /\ TrySend(m)
        /\ pending' = pending \ {m}
    /\ spc' = IF pending' = {} THEN "wait" ELSE "send"
    /\ UNCHANGED <<chClosed, ctxDone, proc, tableVars>>

\* The inner select does not look at ctx: a send on the closed channel panics,
\* and nothing recovers a panic in this goroutine.
SweepSendsOnClosed == spc = "send" /\ chClosed

\* case <-ctx.Done()
SweepExit ==
    /\ spc = "wait"
    /\ ctxDone
    /\ spc' = "exited"
    /\ UNCHANGED <<pending, runtimeVars, tableVars>>

SweepStep == SweepQuery \/ SweepSend \/ SweepExit

=============================================================================
