------------------------------- MODULE Claims -------------------------------
(***************************************************************************)
(* What comments and documents of the repository say of the program and    *)
(* the program does not do.  Each is checked by a run that refutes it.     *)
(***************************************************************************)
EXTENDS PingGoat

Served(j) == status[j] \in {"completed", "absent"}

\* store.go:35-37: when a store fails, "the job is left in its previous state
\* for the recovery sweep to retry".  It is left in "generating", which
\* GetPendingJob does not select.
StoreIsRetried ==
    <>[]Running =>
        \A j \in JobIds :
            (\E w \in Workers : wpc[w] = "store" /\ wmsg[w].job = j) ~>
                (Served(j) \/ status[j] = "queued")

\* worker-shutdown-fix-guide.md:85-87: after SIGTERM "wg.Wait() returns" and
\* the process exits.  A worker in ParseFiles may never come back.
ShutdownCompletes == ctxDone ~> proc # "up"

\* worker-shutdown-fix-guide.md:94: the "shutdown order is already correct".
\* The sweep may be in its send loop when main closes the channel.
NoPanic == proc # "panicked"

=============================================================================
