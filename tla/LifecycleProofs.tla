-------------------------- MODULE LifecycleProofs ---------------------------
(***************************************************************************)
(* Proof that the pipeline implements JobLifecycle: every step of PingGoat *)
(* is a step of the life of one job, the end of all that is in progress,   *)
(* or nothing at all.                                                      *)
(***************************************************************************)
EXTENDS PingGoatProofs

\* The refinement mapping: the workers that hold each job.
held == [j \in JobIds |-> {w \in Workers : Holds(w, j)}]

(***************************************************************************)
(* What the steps of a worker do to the holders                            *)
(***************************************************************************)

\* The job of a worker in mid-pipeline is held by that worker alone.
LEMMA SoleHolder ==
  ASSUME IInv, NEW w \in Workers, wpc[w] \in Holding
  PROVE  /\ wmsg[w] \in Message
         /\ wmsg[w].job \in JobIds
         /\ held[wmsg[w].job] = {w}
<1>1. wmsg[w] \in Message /\ wmsg[w].job \in JobIds
  BY BusyWorker DEF Message
<1>2. \A v \in Workers : Holds(v, wmsg[w].job) <=> v = w
  BY <1>1 DEF IInv, OneHolder, Holds
<1> QED
  BY <1>1, <1>2 DEF held

\* A holder that goes on keeps its job.
LEMMA HolderGoesOn ==
  ASSUME IInv, NEW w \in Workers, wpc[w] \in Holding, NEW pc \in Holding, Goto(w, pc)
  PROVE  held' = held
<1>1. \A v \in Workers, j \in JobIds : Holds(v, j)' <=> Holds(v, j)
  BY DEF IInv, TypeOK, WorkerTypeOK, Goto, Holds
<1> QED
  BY <1>1 DEF held

\* A holder that returns drops its job.
LEMMA HolderReturns ==
  ASSUME IInv, NEW w \in Workers, wpc[w] \in Holding, Return(w)
  PROVE  held' = [held EXCEPT ![wmsg[w].job] = {}]
<1>1. \A v \in Workers \ {w}, j \in JobIds : Holds(v, j)' <=> Holds(v, j)
  BY DEF IInv, TypeOK, WorkerTypeOK, Return, Holds
<1>2. \A j \in JobIds : ~Holds(w, j)' /\ (Holds(w, j) <=> j = wmsg[w].job)
  BY DEF IInv, TypeOK, WorkerTypeOK, Return, Holds, Holding
<1>3. \A v \in Workers : Holds(v, wmsg[w].job) => v = w
  BY SoleHolder DEF IInv, OneHolder, Holds
<1>4. \A j \in JobIds : {v \in Workers : Holds(v, j)'} =
        IF j = wmsg[w].job THEN {} ELSE {v \in Workers : Holds(v, j)}
  BY <1>1, <1>2, <1>3
<1> QED
  BY <1>4 DEF held

\* A worker that has no job and gets none leaves the holders alone.
LEMMA NoHolderMoves ==
  ASSUME IInv, NEW w \in Workers, wpc[w] \notin Holding, wpc'[w] \notin Holding,
         \A v \in Workers \ {w} : wpc'[v] = wpc[v] /\ wmsg'[v] = wmsg[v]
  PROVE  held' = held
<1>1. \A v \in Workers, j \in JobIds : Holds(v, j)' <=> Holds(v, j)
  BY DEF Holds
<1> QED
  BY <1>1 DEF held

(***************************************************************************)
(* Steps                                                                   *)
(***************************************************************************)

\* A step that moves nothing of the abstract state.
LEMMA Stutters ==
  ASSUME UNCHANGED <<status, documents, created>>, held' = held
  PROVE  UNCHANGED Lifecycle!lifecycleVars
  BY DEF Lifecycle!lifecycleVars, held

\* processJob gives up: the job stays where it is, without a holder.
LEMMA ReturnAbandons ==
  ASSUME IInv, NEW w \in Workers, wpc[w] \in Holding, Return(w), UNCHANGED tableVars
  PROVE  Lifecycle!LifecycleNext
<1> DEFINE j == wmsg[w].job
<1>1. j \in JobIds /\ held' = [held EXCEPT ![j] = {}]
  BY SoleHolder, HolderReturns
<1>2. held' = [i \in JobIds |-> IF i \in {j} THEN {} ELSE held[i]]
  BY <1>1 DEF held
<1>3. Lifecycle!Abandon({j})
  BY <1>2 DEF Lifecycle!Abandon, held, tableVars
<1> QED
  BY <1>1, <1>3 DEF Lifecycle!LifecycleNext

\* The conditional update makes the worker the only holder of a queued job.
LEMMA ClaimRefines ==
  ASSUME IInv, NEW w \in Workers, Claim(w)
  PROVE  Lifecycle!LifecycleNext \/ UNCHANGED Lifecycle!lifecycleVars
<1> DEFINE m == wmsg[w]
<1>m. m \in Message /\ m.job \in JobIds /\ wpc[w] = "claim"
  BY BusyWorker DEF Claim, Message
<1>1. CASE UpdateJob(m, "cloning") /\ (Goto(w, "clone") \/ Return(w))
  <2>1. \A v \in Workers : ~Holds(v, m.job)
    BY <1>1, <1>m DEF IInv, HolderInStage, InStage, UpdateJob, Claimable
  <2>2. held[m.job] = {}
    BY <2>1, <1>m DEF held
  <2>3. CASE Goto(w, "clone")
    <3>1. \A v \in Workers, j \in JobIds : Holds(v, j)' <=> (Holds(v, j) \/ (v = w /\ j = m.job))
      BY <2>3, <1>m, <2>1 DEF IInv, TypeOK, WorkerTypeOK, Goto, Holds, Holding
    <3>2. \A j \in JobIds : {v \in Workers : Holds(v, j)'} =
            IF j = m.job THEN {w} ELSE {v \in Workers : Holds(v, j)}
      BY <3>1, <2>1
    <3>3. held' = [held EXCEPT ![m.job] = {w}]
      BY <3>2 DEF held
    <3>4. Lifecycle!KeepOrDrop(m.job, w)
      BY <3>3 DEF Lifecycle!KeepOrDrop, held
    <3>5. Lifecycle!Claim(m.job, w)
      BY <1>1, <2>2, <3>4 DEF Lifecycle!Claim, UpdateJob, Claimable, held
    <3> QED
      BY <1>m, <3>5 DEF Lifecycle!LifecycleNext
  <2>4. CASE Return(w)
    <3>1. held' = held
      BY <2>4, <1>m, NoHolderMoves DEF IInv, TypeOK, WorkerTypeOK, Return, Holding
    <3>2. held' = [held EXCEPT ![m.job] = {}]
      BY <3>1, <2>2, <1>m DEF held
    <3>3. Lifecycle!KeepOrDrop(m.job, w)
      BY <3>2 DEF Lifecycle!KeepOrDrop, held
    <3>4. Lifecycle!Claim(m.job, w)
      BY <1>1, <2>2, <3>3 DEF Lifecycle!Claim, UpdateJob, Claimable, held
    <3> QED
      BY <1>m, <3>4 DEF Lifecycle!LifecycleNext
  <2> QED
    BY <1>1, <2>3, <2>4
<1>2. CASE Return(w) /\ UNCHANGED tableVars
  <2>1. held' = held
    BY <1>2, <1>m, NoHolderMoves DEF IInv, TypeOK, WorkerTypeOK, Return, Holding
  <2> QED
    BY <1>2, <2>1, Stutters DEF tableVars
<1> QED
  BY <1>1, <1>2 DEF Claim, StatusUpdate

\* SetJobStatus of the holder moves the job to the next stage.
LEMMA StatusRefines ==
  ASSUME IInv, NEW w \in Workers, NEW s, NEW next, SetJobStatus(wmsg[w], s),
         Goto(w, next) \/ Return(w),
         \/ wpc[w] = "markParsing" /\ s = "parsing" /\ next = "parse"
         \/ wpc[w] = "markGenerating" /\ s = "generating" /\ next = "generate"
  PROVE  Lifecycle!LifecycleNext
<1> DEFINE j == wmsg[w].job
<1>1. wpc[w] \in Holding /\ next \in Holding
  BY DEF Holding
<1>2. j \in JobIds /\ held[j] = {w}
  BY <1>1, SoleHolder
<1>3. Holds(w, j) /\ status[j] # "absent"
  BY <1>1 DEF Holds, SetJobStatus, Owned
<1>4. status[j] \in DOMAIN Lifecycle!NextStage /\ s = Lifecycle!NextStage[status[j]]
  BY <1>2, <1>3 DEF IInv, HolderInStage, InStage, Lifecycle!NextStage
<1>5. Lifecycle!KeepOrDrop(j, w)
  <2>1. CASE Goto(w, next)
    <3>1. held' = [held EXCEPT ![j] = {w}]
      BY <2>1, <1>1, <1>2, HolderGoesOn DEF held
    <3> QED
      BY <3>1 DEF Lifecycle!KeepOrDrop, held
  <2>2. CASE Return(w)
    <3>1. held' = [held EXCEPT ![j] = {}]
      BY <2>2, <1>1, HolderReturns
    <3> QED
      BY <3>1 DEF Lifecycle!KeepOrDrop, held
  <2> QED
    BY <2>1, <2>2
<1>6. status' = [status EXCEPT ![j] = Lifecycle!NextStage[@]]
  BY <1>4 DEF SetJobStatus
<1>7. Lifecycle!Advance(j, w)
  BY <1>2, <1>4, <1>5, <1>6 DEF Lifecycle!Advance, SetJobStatus, held
<1> QED
  BY <1>2, <1>7 DEF Lifecycle!LifecycleNext

\* The committed transaction is the completion; any other end abandons the job.
LEMMA StoreRefines ==
  ASSUME IInv, NEW w \in Workers, Store(w)
  PROVE  Lifecycle!LifecycleNext
<1> DEFINE j == wmsg[w].job
<1>1. wpc[w] = "store" /\ wpc[w] \in Holding /\ Return(w)
  BY DEF Store, Holding
<1>2. j \in JobIds /\ held[j] = {w} /\ held' = [held EXCEPT ![j] = {}]
  BY <1>1, SoleHolder, HolderReturns
<1>3. CASE StoreTx(wmsg[w], wdocs[w])
  <2>1. status[j] = "generating"
    BY <1>1, <1>2, <1>3 DEF IInv, HolderInStage, InStage, Holds, StoreTx, Owned
  <2>2. documents[j] = {}
    BY <1>2, <2>1 DEF IInv, DocsIffCompleted
  <2>3. wdocs[w] \in (SUBSET DocTypes) \ {{}}
    BY <1>1 DEF IInv, TypeOK, WorkerTypeOK, Shape
  <2>4. documents' = [documents EXCEPT ![j] = wdocs[w]]
    BY <1>2, <1>3, <2>2 DEF IInv, TypeOK, TableTypeOK, StoreTx
  <2>5. Lifecycle!Complete(j, w)
    BY <1>2, <1>3, <2>1, <2>3, <2>4 DEF Lifecycle!Complete, StoreTx, held
  <2> QED
    BY <1>2, <2>5 DEF Lifecycle!LifecycleNext
<1>4. CASE UNCHANGED tableVars
  BY <1>1, <1>4, ReturnAbandons
<1> QED
  BY <1>3, <1>4 DEF Store

LEMMA WorkRefines ==
  ASSUME IInv, NEW w \in Workers, WorkerStep(w)
  PROVE  Lifecycle!LifecycleNext \/ UNCHANGED Lifecycle!lifecycleVars
<1>1. CASE TakeMessage(w) \/ ExitLoop(w)
  <2>1. held' = held
    BY <1>1, NoHolderMoves DEF TakeMessage, ExitLoop, Goto, IInv, TypeOK, WorkerTypeOK, Holding
  <2> QED
    BY <1>1, <2>1, Stutters DEF TakeMessage, ExitLoop, tableVars
<1>2. CASE Claim(w)
  BY <1>2, ClaimRefines
<1>3. CASE MarkParsing(w) \/ MarkGenerating(w)
  BY <1>3, StatusRefines, ReturnAbandons DEF MarkParsing, MarkGenerating, StatusUpdate, Holding
<1>4. CASE Clone(w) \/ Parse(w)
  <2>1. wpc[w] \in Holding /\ UNCHANGED tableVars
    BY <1>4 DEF Clone, Parse, Holding
  <2>2. Return(w) \/ \E pc \in Holding : Goto(w, pc)
    BY <1>4 DEF Clone, Parse, Holding
  <2>3. ASSUME NEW pc \in Holding, Goto(w, pc)
        PROVE  UNCHANGED Lifecycle!lifecycleVars
    BY <2>1, <2>3, HolderGoesOn, Stutters DEF tableVars
  <2> QED
    BY <2>1, <2>2, <2>3, ReturnAbandons
<1>5. CASE Generate(w)
  <2>1. wpc[w] \in Holding /\ UNCHANGED tableVars
    BY <1>5 DEF Generate, Holding
  <2>2. Return(w) \/ (wpc' = [wpc EXCEPT ![w] = "store"] /\ UNCHANGED wmsg)
    BY <1>5 DEF Generate
  <2>3. CASE Return(w)
    BY <2>1, <2>3, ReturnAbandons
  <2>4. CASE wpc' = [wpc EXCEPT ![w] = "store"] /\ UNCHANGED wmsg
    <3>1. \A v \in Workers, j \in JobIds : Holds(v, j)' <=> Holds(v, j)
      BY <2>1, <2>4 DEF IInv, TypeOK, WorkerTypeOK, Holds, Holding
    <3>2. held' = held
      BY <3>1 DEF held
    <3> QED
      BY <2>1, <3>2, Stutters DEF tableVars
  <2> QED
    BY <2>2, <2>3, <2>4
<1>6. CASE Store(w)
  BY <1>6, StoreRefines
<1> QED
  BY <1>1, <1>2, <1>3, <1>4, <1>5, <1>6 DEF WorkerStep

\* A step that moves no worker moves no holder.
LEMMA HoldersKept ==
  ASSUME UNCHANGED workerVars
  PROVE  held' = held
  BY DEF held, Holds, workerVars

\* A submission creates the next job, which was never submitted before.
LEMMA SubmitRefines ==
  ASSUME IInv, NEW c \in Clients, NEW u \in Users, NEW r \in RepoURLs,
         SubmitJob(c, u, r), UNCHANGED workerVars
  PROVE  Lifecycle!LifecycleNext
<1>1. created \in Nat /\ created' = created + 1 /\ created' \in JobIds
  BY MaxJobsAssumption DEF SubmitJob, CreateJob, JobIds, IInv, TypeOK, TableTypeOK
<1>2. created' \notin 1..created /\ 1..created' = 1..created \cup {created'}
  BY <1>1
<1>3. held' = held
  BY HoldersKept
<1>4. status' = [status EXCEPT ![created'] = "queued"] /\ UNCHANGED documents
  BY DEF SubmitJob, CreateJob
<1>5. PICK j \in JobIds : j = created'
  BY <1>1
<1>6. Lifecycle!Submit(j)
  BY <1>2, <1>3, <1>4, <1>5 DEF Lifecycle!Submit, held
<1> QED
  BY <1>6 DEF Lifecycle!LifecycleNext

LEMMA DeleteRefines ==
  ASSUME IInv, NEW c \in Clients, Delete(c), UNCHANGED workerVars
  PROVE  Lifecycle!LifecycleNext \/ UNCHANGED Lifecycle!lifecycleVars
<1> DEFINE m == hmsg[c]
<1>1. held' = held
  BY HoldersKept
<1>2. m.job \in JobIds
  BY DEF IInv, TypeOK, HandlerTypeOK, Shape, Delete, Message
<1>3. CASE DeleteJob(m.job, m.user)
  <2>1. Lifecycle!Delete(m.job)
    BY <1>1, <1>3 DEF Lifecycle!Delete, DeleteJob, Owned, held
  <2> QED
    BY <1>2, <2>1 DEF Lifecycle!LifecycleNext
<1>4. CASE UNCHANGED tableVars
  BY <1>1, <1>4, Stutters DEF tableVars
<1> QED
  BY <1>3, <1>4 DEF Delete

\* The end of the process abandons all jobs at once.
LEMMA DieRefines ==
  ASSUME NEW how, Die(how)
  PROVE  Lifecycle!LifecycleNext
<1>1. \A w \in Workers, j \in JobIds : ~Holds(w, j)'
  BY DEF Die, Holds, Holding
<1>2. held' = [j \in JobIds |-> IF j \in JobIds THEN {} ELSE held[j]]
  BY <1>1 DEF held
<1>3. Lifecycle!Abandon(JobIds)
  BY <1>2 DEF Lifecycle!Abandon, held, Die, tableVars
<1> QED
  BY <1>3 DEF Lifecycle!LifecycleNext

(***************************************************************************)
(* The refinement                                                          *)
(***************************************************************************)

LEMMA InitRefines == Init => Lifecycle!LifecycleInit
<1> SUFFICES ASSUME Init PROVE Lifecycle!LifecycleInit
  OBVIOUS
<1>1. \A w \in Workers, j \in JobIds : ~Holds(w, j)
  BY DEF Init, WorkerInit, Holds, Holding
<1>2. 1..created = {}
  BY DEF Init, TableInit
<1> QED
  BY <1>1, <1>2 DEF Init, TableInit, Lifecycle!LifecycleInit

LEMMA NextRefines ==
  IInv /\ [Next]_vars => [Lifecycle!LifecycleNext]_(Lifecycle!lifecycleVars)
<1> SUFFICES ASSUME IInv, [Next]_vars
             PROVE  Lifecycle!LifecycleNext \/ UNCHANGED Lifecycle!lifecycleVars
  OBVIOUS
<1>1. ASSUME NEW w \in Workers, Work(w)
      PROVE  Lifecycle!LifecycleNext \/ UNCHANGED Lifecycle!lifecycleVars
  BY <1>1, WorkRefines DEF Work
<1>2. ASSUME UNCHANGED <<tableVars, workerVars>>
      PROVE  UNCHANGED Lifecycle!lifecycleVars
  BY <1>2, HoldersKept, Stutters DEF tableVars
<1>3. CASE Sweep
  BY <1>2, <1>3 DEF Sweep, SweepStep, SweepQuery, SweepSend, SweepExit
<1>4. ASSUME NEW c \in Clients, Request(c)
      PROVE  Lifecycle!LifecycleNext \/ UNCHANGED Lifecycle!lifecycleVars
  BY <1>2, <1>4, SubmitRefines DEF Request, NewRequest, RemoveJobById
<1>5. ASSUME NEW c \in Clients, Handler(c)
      PROVE  Lifecycle!LifecycleNext \/ UNCHANGED Lifecycle!lifecycleVars
  BY <1>2, <1>5, DeleteRefines DEF Handler, HandlerStep, Enqueue
<1>6. CASE BeginShutdown \/ CloseCh \/ Signal \/ Restart
  BY <1>2, <1>6 DEF BeginShutdown, CloseCh, Signal, Restart
<1>7. CASE Exit \/ Crash \/ Panic
  BY <1>7, DieRefines DEF Exit, Crash, Panic
<1>8. CASE UNCHANGED vars
  BY <1>2, <1>8 DEF vars
<1> QED
  BY <1>1, <1>3, <1>4, <1>5, <1>6, <1>7, <1>8 DEF Next, MainStep

\* The pipeline implements the life of a job: claimed by one worker, moved by
\* that worker alone, one stage at a time, completed together with its
\* documents, and never moved again once its worker has dropped it.
THEOREM Refinement == Spec => LifecycleSpec
<1>1. Spec => [][Lifecycle!LifecycleNext]_(Lifecycle!lifecycleVars)
  BY Inductive, NextRefines, PTL DEF Spec
<1> QED
  BY <1>1, InitRefines, PTL DEF Spec, LifecycleSpec, Lifecycle!LifecycleSpec

-----------------------------------------------------------------------------
(***************************************************************************)
(* A job that nobody holds and nobody can claim                            *)
(***************************************************************************)
\* A job was submitted, is not queued, and no worker has it: it is completed,
\* deleted, or was left in the middle by a failure or the end of a process.
Dropped(j) ==
    /\ j \in 1..created
    /\ status[j] # "queued"
    /\ \A w \in Workers : ~Holds(w, j)

\* The same in the words of JobLifecycle.
LeftBehind(j) == j \in 1..created /\ status[j] # "queued" /\ held[j] = {}

\* No step of the life of a job moves it but a deletion.
LEMMA LifecycleLeaves ==
  ASSUME TypeOK, NEW j \in JobIds, LeftBehind(j),
         Lifecycle!LifecycleNext \/ UNCHANGED Lifecycle!lifecycleVars
  PROVE  LeftBehind(j)' /\ status'[j] \in {status[j], "absent"}
<1> USE DEF LeftBehind, held
<1>1. status \in [JobIds -> Status \cup {"absent"}] /\ held \in [JobIds -> SUBSET Workers]
  BY DEF TypeOK, TableTypeOK
<1> HIDE DEF held
<1>2. CASE UNCHANGED Lifecycle!lifecycleVars
  BY <1>2 DEF Lifecycle!lifecycleVars, held
<1>3. ASSUME NEW k \in JobIds, Lifecycle!Submit(k)
      PROVE  LeftBehind(j)' /\ status'[j] \in {status[j], "absent"}
  BY <1>1, <1>3 DEF Lifecycle!Submit, held
<1>4. ASSUME NEW k \in JobIds, Lifecycle!Delete(k)
      PROVE  LeftBehind(j)' /\ status'[j] \in {status[j], "absent"}
  BY <1>1, <1>4 DEF Lifecycle!Delete, held
<1>5. ASSUME NEW k \in JobIds, NEW w \in Workers,
             Lifecycle!Claim(k, w) \/ Lifecycle!Advance(k, w) \/ Lifecycle!Complete(k, w)
      PROVE  LeftBehind(j)' /\ status'[j] \in {status[j], "absent"}
  BY <1>1, <1>5 DEF Lifecycle!Claim, Lifecycle!Advance, Lifecycle!Complete, Lifecycle!KeepOrDrop, held
<1>6. ASSUME NEW S \in SUBSET JobIds, Lifecycle!Abandon(S)
      PROVE  LeftBehind(j)' /\ status'[j] \in {status[j], "absent"}
  BY <1>1, <1>6 DEF Lifecycle!Abandon, held
<1> QED
  BY <1>2, <1>3, <1>4, <1>5, <1>6 DEF Lifecycle!LifecycleNext

\* Such a job keeps its status for ever, and nobody holds it again, unless it is
\* deleted: no message that is still on its way, no sweep, no restart and no
\* late worker moves it (worker.go:32-34, jobs.sql: AND status = 'queued'). So a
\* completed job stays completed, a deleted one deleted, and one that a crash
\* has left in the middle is not taken up again.
DroppedStays ==
    [][\A j \in JobIds : Dropped(j) => Dropped(j)' /\ status'[j] \in {status[j], "absent"}]_vars

\* A step of the pipeline is one of the life of a job, and moves it no more.
LEMMA NextDroppedStays ==
  ASSUME IInv, [Next]_vars, NEW j \in JobIds, Dropped(j)
  PROVE  Dropped(j)' /\ status'[j] \in {status[j], "absent"}
<1>1. LeftBehind(j)
  BY DEF Dropped, LeftBehind, held
<1>2. Lifecycle!LifecycleNext \/ UNCHANGED Lifecycle!lifecycleVars
  BY NextRefines
<1>3. LeftBehind(j)' /\ status'[j] \in {status[j], "absent"}
  BY <1>1, <1>2, LifecycleLeaves DEF IInv
<1>4. LeftBehind(j)' => Dropped(j)'
  BY DEF Dropped, LeftBehind, held
<1> QED
  BY <1>3, <1>4

\* What a worker has dropped stays as it is.
THEOREM DroppedForEver == Spec => DroppedStays
<1>1. IInv /\ [Next]_vars =>
        [\A j \in JobIds : Dropped(j) => Dropped(j)' /\ status'[j] \in {status[j], "absent"}]_vars
  BY NextDroppedStays
<1> QED
  BY <1>1, Inductive, PTL DEF Spec, DroppedStays

=============================================================================
