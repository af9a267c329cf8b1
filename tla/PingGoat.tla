------------------------------ MODULE PingGoat ------------------------------
(***************************************************************************)
(* The process that main.go assembles: workers, recovery sweep and HTTP    *)
(* handlers around one job channel and one PostgreSQL database, its        *)
(* shutdown, and its ends: it exits, is killed, or panics, and may be      *)
(* started again on the same database.                                     *)
(***************************************************************************)
EXTENDS Worker, RecoverySweep, JobsHandler

VARIABLE
    mainPc        \* "serving": main blocks in <-workerContext.Done()
                  \* "shutdown": in srv.Shutdown
                  \* "draining": jobCh is closed, main is in wg.Wait()

vars == <<tableVars, runtimeVars, workerVars, sweepVars, handlerVars, mainPc>>

TypeOK ==
    /\ TableTypeOK
    /\ RuntimeTypeOK
    /\ WorkerTypeOK
    /\ SweepTypeOK
    /\ HandlerTypeOK
    /\ mainPc \in {"serving", "shutdown", "draining"}

Init ==
    /\ TableInit
    /\ RuntimeInit
    /\ proc = "up"
    /\ WorkerInit
    /\ SweepInit
    /\ HandlerInit
    /\ mainPc = "serving"

-----------------------------------------------------------------------------
(***************************************************************************)
(* The end of the process.  All that lives in memory is gone: to have one  *)
(* state for that, it takes its initial value.                             *)
(***************************************************************************)
Die(how) ==
    /\ proc' = how
    /\ jobCh' = << >>
    /\ chClosed' = FALSE
    /\ ctxDone' = FALSE
    /\ wpc' = [w \in Workers |-> "idle"]
    /\ wmsg' = [w \in Workers |-> NoMsg]
    /\ wdocs' = [w \in Workers |-> {}]
    /\ spc' = "wait"
    /\ pending' = {}
    /\ hpc' = [c \in Clients |-> "idle"]
    /\ hmsg' = [c \in Clients |-> NoMsg]
    /\ mainPc' = "serving"
    /\ UNCHANGED tableVars

Crash == "crash" \in Faults /\ proc = "up" /\ Die("crashed")

\* A panic in a goroutine that nothing recovers ends the process.
Panic ==
    /\ proc = "up"
    /\ SweepSendsOnClosed \/ \E w \in Workers : NilGenerator(w)
    /\ Die("panicked")

\* Somebody starts the program again: docker-compose.yml has no restart policy.
Restart ==
    /\ proc # "up"
    /\ proc' = "up"
    /\ UNCHANGED <<tableVars, jobCh, chClosed, ctxDone, workerVars, sweepVars,
                   handlerVars, mainPc>>

-----------------------------------------------------------------------------
(***************************************************************************)
(* main                                                                    *)
(***************************************************************************)
Signal ==
    /\ "signal" \in Faults
    /\ proc = "up"
    /\ ~ctxDone
    /\ ctxDone' = TRUE
    /\ UNCHANGED <<tableVars, jobCh, chClosed, proc, workerVars, sweepVars,
                   handlerVars, mainPc>>

BeginShutdown ==
    /\ proc = "up"
    /\ mainPc = "serving"
    /\ ctxDone
    /\ mainPc' = "shutdown"
    /\ UNCHANGED <<tableVars, runtimeVars, workerVars, sweepVars, handlerVars>>

\* Mutant of Drained: main does not wait for the handlers.
DrainedAtOnce == TRUE

\* srv.Shutdown returns when no handler runs any more, or after five seconds.
Drained == "slow" \in Faults \/ \A c \in Clients : hpc[c] = "idle"

CloseCh ==
    /\ proc = "up"
    /\ mainPc = "shutdown"
    /\ Drained
    /\ chClosed' = TRUE
    /\ mainPc' = "draining"
    /\ UNCHANGED <<tableVars, jobCh, ctxDone, proc, workerVars, sweepVars,
                   handlerVars>>

\* wg.Wait() returns: the process exits, with the handlers that still run.
Exit ==
    /\ proc = "up"
    /\ mainPc = "draining"
    /\ \A w \in Workers : wpc[w] = "exited"
    /\ spc = "exited"
    /\ Die("exited")

MainStep == BeginShutdown \/ CloseCh \/ Exit

-----------------------------------------------------------------------------
Work(w) ==
    /\ proc = "up"
    /\ WorkerStep(w)
    /\ UNCHANGED <<sweepVars, handlerVars, mainPc>>

Sweep ==
    /\ proc = "up"
    /\ SweepStep
    /\ UNCHANGED <<workerVars, handlerVars, mainPc>>

\* srv.Shutdown closes the listener and the idle connections first: no request
\* starts once it has been called.
Request(c) ==
    /\ proc = "up"
    /\ mainPc = "serving"
    /\ NewRequest(c)
    /\ UNCHANGED <<workerVars, sweepVars, mainPc>>

Handler(c) ==
    /\ proc = "up"
    /\ HandlerStep(c)
    /\ UNCHANGED <<workerVars, sweepVars, mainPc>>

Next ==
    \/ \E w \in Workers : Work(w)
    \/ Sweep
    \/ \E c \in Clients : Request(c) \/ Handler(c)
    \/ MainStep
    \/ Signal \/ Crash \/ Panic \/ Restart

\* Goroutines that can run do run.  Clients, signals, crashes and restarts owe
\* nothing.
Fairness ==
    /\ \A w \in Workers : WF_vars(Work(w))
    /\ WF_vars(Sweep)
    /\ \A c \in Clients : WF_vars(Handler(c))
    /\ WF_vars(MainStep)
    /\ WF_vars(Panic)

Spec == Init /\ [][Next]_vars

FairSpec == Spec /\ Fairness

\* The same under a supervisor that starts the program again.
SupervisedSpec == FairSpec /\ WF_vars(Restart)

-----------------------------------------------------------------------------
(***************************************************************************)
(* Safety                                                                  *)
(***************************************************************************)
Holds(w, j) == wpc[w] \in Holding /\ wmsg[w].job = j

\* The conditional claim makes duplicate messages harmless: however often a
\* job is in the channel, in a snapshot or in the hands of a submitting
\* handler, two workers never process it at once (worker.go:32, jobs.sql:
\* AND status = 'queued').
OneHolder ==
    \A v, w \in Workers, j \in JobIds : Holds(v, j) /\ Holds(w, j) => v = w

\* The status s in which a worker at this program point expects its job.
InStage(pc, s) ==
    \/ pc \in {"clone", "markParsing"} /\ s = "cloning"
    \/ pc \in {"parse", "markGenerating", "hung"} /\ s = "parsing"
    \/ pc \in {"generate", "store"} /\ s = "generating"

\* SetJobStatus and CompleteJob overwrite any status.  That is safe because a
\* job in the hands of a worker is where that worker left it, or was deleted
\* under it (worker.go:58-116 against jobsHandler.go:313-330).
HolderInStage ==
    \A w \in Workers, j \in JobIds :
        Holds(w, j) => InStage(wpc[w], status[j]) \/ status[j] = "absent"

\* A client that polls never sees documents without "completed", "completed"
\* without documents, or a gemini_calls_used that is not their number, and
\* nothing is left of a deleted job (store.go:33-37, ON DELETE CASCADE).
DocsIffCompleted ==
    \A j \in JobIds :
        /\ documents[j] # {} <=> status[j] = "completed"
        /\ callsUsed[j] = Cardinality(documents[j])

\* What the rows, the workers and the handlers look like at any time: ids are
\* handed out in order and never used again; a worker has a message from its
\* receive to its return, and documents only while it stores them.
Shape ==
    /\ \A j \in JobIds : IF j <= created THEN row[j] \in Message /\ row[j].job = j
                                         ELSE status[j] = "absent"
    /\ \A w \in Workers : /\ wmsg[w] = NoMsg <=> wpc[w] \in {"idle", "exited"}
                          /\ wdocs[w] # {} <=> wpc[w] = "store"
    /\ \A c \in Clients : hmsg[c] = NoMsg <=> hpc[c] = "idle"

\* Every message on its way, in the channel, in the sweep's snapshot or in a
\* handler, is the row it was made from (jobsHandler.go:98-103,
\* recovery.go:36-41).
Faithful(m) == m.job \in 1..created /\ row[m.job] = m

MessagesFaithful ==
    /\ \A i \in DOMAIN jobCh : Faithful(jobCh[i])
    /\ \A m \in pending : Faithful(m)
    /\ \A c \in Clients : hmsg[c] = NoMsg \/ Faithful(hmsg[c])
    /\ \A w \in Workers : wmsg[w] = NoMsg \/ Faithful(wmsg[w])

\* The inductive invariant: none of its parts is one without the others.  The
\* claim of a queued job breaks OneHolder if a holder may be at "queued", and
\* SetJobStatus breaks HolderInStage if somebody else may hold the job.
IInv ==
    /\ TypeOK
    /\ Shape
    /\ MessagesFaithful
    /\ OneHolder
    /\ HolderInStage
    /\ DocsIffCompleted

\* A shutdown that waited for the handlers has no handler left that could
\* send on the closed channel (main.go:96-97): for runs without "slow".
NoSendAfterClose == chClosed => \A c \in Clients : hpc[c] = "idle"

\* A row disappears only by a DELETE that its own user asked for
\* (jobsHandler.go:299-322, jobs.sql: AND user_id).
OnlyOwnerDeletes ==
    [][\A j \in JobIds :
         status[j] # "absent" /\ status'[j] = "absent" =>
            \E c \in Clients : /\ hpc[c] = "delete"
                               /\ hmsg[c].job = j
                               /\ hmsg[c].user = row[j].user]_vars

\* A process that exits by itself has taken every message out of the channel
\* (worker.go:22: range drains the buffer of a closed channel).
ExitDrains == [][proc' = "exited" => jobCh = << >>]_vars

\* The pipeline implements the life of a job.
Lifecycle == INSTANCE JobLifecycle WITH
    Jobs <- JobIds,
    holders <- [j \in JobIds |-> {w \in Workers : Holds(w, j)}],
    submitted <- 1..created

LifecycleSpec == Lifecycle!LifecycleSpec

-----------------------------------------------------------------------------
(***************************************************************************)
(* Liveness                                                                *)
(***************************************************************************)
Running == proc = "up" /\ ~ctxDone

\* Once the process stays up, every queued job is claimed or deleted, also the
\* jobs whose message was dropped by a full channel or lost in a crash.
QueuedIsServed ==
    <>[]Running =>
        \A j \in JobIds : status[j] = "queued" ~> status[j] # "queued"

\* When nothing fails, every job that is submitted ends with its documents,
\* unless it is deleted.
SubmittedCompletes ==
    \A j \in JobIds : j <= created ~> status[j] \in {"completed", "absent"}

\* A job that panics the process (here: every job, for want of an API key) does
\* so once.  Its claim is in the row before, so that a restarted process does
\* not take it again: a supervisor does not run into a crash loop.
NoCrashLoop == <>[](proc = "up")

\* After the signal the process ends, unless a worker hangs in ParseFiles.
ShutdownEnds ==
    ctxDone ~> (proc # "up" \/ \E w \in Workers : wpc[w] = "hung")

=============================================================================
