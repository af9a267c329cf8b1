--------------------------- MODULE PingGoatProofs ---------------------------
(***************************************************************************)
(* Proofs about PingGoat, for every number of jobs, workers and clients    *)
(* and every set of faults.                                                *)
(***************************************************************************)
EXTENDS PingGoat, FiniteSetTheorems, SequenceTheorems, TLAPS

(***************************************************************************)
(* The channel                                                             *)
(***************************************************************************)

\* The buffer has room for a natural number of messages.
LEMMA CapacityType == Capacity \in Nat
  BY WorkersAssumption, FS_CardinalityType DEF Capacity

\* A send leaves a buffer within its capacity, and adds nothing but m.
LEMMA SendEffect ==
  ASSUME RuntimeTypeOK, NEW m \in Message, TrySend(m)
  PROVE  /\ jobCh' \in Seq(Message)
         /\ Len(jobCh') <= Capacity
         /\ \A i \in DOMAIN jobCh' :
              jobCh'[i] = m \/ \E k \in DOMAIN jobCh : jobCh'[i] = jobCh[k]
<1>1. CASE Len(jobCh) < Capacity
  <2>1. jobCh' = Append(jobCh, m)
    BY <1>1 DEF TrySend
  <2>2. /\ jobCh' \in Seq(Message)
        /\ Len(jobCh') = Len(jobCh) + 1
        /\ \A i \in 1..Len(jobCh) : jobCh'[i] = jobCh[i]
        /\ jobCh'[Len(jobCh) + 1] = m
    BY <2>1, AppendProperties DEF RuntimeTypeOK
  <2>3. Len(jobCh) \in Nat /\ DOMAIN jobCh = 1..Len(jobCh)
    BY LenProperties DEF RuntimeTypeOK
  <2>4. DOMAIN jobCh' = 1..(Len(jobCh) + 1)
    BY <2>2, LenProperties
  <2> QED
    BY <1>1, <2>2, <2>3, <2>4, CapacityType
<1>2. CASE ~(Len(jobCh) < Capacity)
  BY <1>2 DEF TrySend, RuntimeTypeOK
<1> QED
  BY <1>1, <1>2

\* A receive takes its message out of the buffer and leaves the others in it.
LEMMA ReceiveEffect ==
  ASSUME RuntimeTypeOK, NEW m \in Message, Receive(m)
  PROVE  /\ jobCh' \in Seq(Message)
         /\ Len(jobCh') <= Capacity
         /\ \E k \in DOMAIN jobCh : m = jobCh[k]
         /\ \A i \in DOMAIN jobCh' : \E k \in DOMAIN jobCh : jobCh'[i] = jobCh[k]
<1>1. jobCh \in Seq(Message) /\ jobCh # << >> /\ Len(jobCh) <= Capacity
  BY DEF RuntimeTypeOK, Receive
<1>2. Len(jobCh) \in Nat \ {0} /\ DOMAIN jobCh = 1..Len(jobCh)
  BY <1>1, LenProperties, EmptySeq
<1>3. /\ jobCh' \in Seq(Message)
      /\ Len(jobCh') = Len(jobCh) - 1
      /\ \A i \in 1..Len(jobCh') : jobCh'[i] = jobCh[i + 1]
  BY <1>1, HeadTailProperties DEF Receive
<1>4. DOMAIN jobCh' = 1..Len(jobCh')
  BY <1>3, LenProperties
<1>5. m = jobCh[1]
  BY <1>1 DEF Receive
<1> QED
  BY <1>1, <1>2, <1>3, <1>4, <1>5, CapacityType

(***************************************************************************)
(* The tables                                                              *)
(***************************************************************************)

\* A set of documents can be counted.
LEMMA DocsCountable == \A docs \in SUBSET DocTypes : Cardinality(docs) \in Nat
  BY DocTypesAssumption, FS_Subset, FS_CardinalityType

\* Every statement leaves well-typed tables.
LEMMA QueriesTypeOK ==
  ASSUME TableTypeOK, NEW m \in Message
  PROVE  /\ UpdateJob(m, "cloning") => TableTypeOK'
         /\ \A s \in Status : SetJobStatus(m, s) => TableTypeOK'
         /\ \A docs \in SUBSET DocTypes : StoreTx(m, docs) => TableTypeOK'
         /\ DeleteJob(m.job, m.user) => TableTypeOK'
<1>1. UpdateJob(m, "cloning") => TableTypeOK'
  BY DEF UpdateJob, TableTypeOK, Message, Status
<1>2. ASSUME NEW s \in Status PROVE SetJobStatus(m, s) => TableTypeOK'
  BY DEF SetJobStatus, TableTypeOK, Message
<1>3. ASSUME NEW docs \in SUBSET DocTypes PROVE StoreTx(m, docs) => TableTypeOK'
  BY DocsCountable DEF StoreTx, TableTypeOK, Message, Status
<1>4. DeleteJob(m.job, m.user) => TableTypeOK'
  BY DEF DeleteJob, TableTypeOK, Message
<1> QED
  BY <1>1, <1>2, <1>3, <1>4

\* A message that was made from a row is owned by its user while the row is
\* there, whoever asks.
LEMMA FaithfulOwned ==
  ASSUME NEW m \in Message, Faithful(m)
  PROVE  Owned(m.job, m.user) <=> status[m.job] # "absent"
  BY DEF Faithful, Owned


(***************************************************************************)
(* Worker steps                                                            *)
(***************************************************************************)

\* What a step of a worker leaves to the others.
OthersIdle == UNCHANGED <<ctxDone, proc, sweepVars, handlerVars, mainPc>>

\* A receive gives the worker a message that was made from a row.
LEMMA TakeMessageStep ==
  ASSUME IInv, NEW w \in Workers, TakeMessage(w), OthersIdle
  PROVE  IInv'
<1>1. PICK m \in Message : Receive(m) /\ wmsg' = [wmsg EXCEPT ![w] = m]
  BY DEF TakeMessage
<1>2. /\ jobCh' \in Seq(Message)
      /\ Len(jobCh') <= Capacity
      /\ \E k \in DOMAIN jobCh : m = jobCh[k]
      /\ \A i \in DOMAIN jobCh' : \E k \in DOMAIN jobCh : jobCh'[i] = jobCh[k]
  BY <1>1, ReceiveEffect DEF IInv, TypeOK
<1>3. TypeOK'
  BY <1>1, <1>2 DEF IInv, TypeOK, TakeMessage, OthersIdle, RuntimeTypeOK, TableTypeOK,
     WorkerTypeOK, SweepTypeOK, HandlerTypeOK, WorkerPc, sweepVars, handlerVars, tableVars
<1>4. Shape'
  BY <1>1, NoMsgAssumption
     DEF IInv, TypeOK, WorkerTypeOK, TakeMessage, OthersIdle, Shape, handlerVars, tableVars
<1>5. MessagesFaithful'
  BY <1>1, <1>2 DEF IInv, TypeOK, WorkerTypeOK, TakeMessage, OthersIdle,
     MessagesFaithful, Faithful, handlerVars, sweepVars, tableVars
<1>6. OneHolder' /\ HolderInStage'
  BY <1>1 DEF IInv, TypeOK, WorkerTypeOK, TakeMessage, OneHolder, HolderInStage,
     Holds, Holding, InStage, tableVars
<1>7. DocsIffCompleted'
  BY DEF IInv, TakeMessage, DocsIffCompleted, tableVars
<1> QED
  BY <1>3, <1>4, <1>5, <1>6, <1>7 DEF IInv

LEMMA ExitLoopStep ==
  ASSUME IInv, NEW w \in Workers, ExitLoop(w), OthersIdle
  PROVE  IInv'
<1>1. TypeOK'
  BY DEF IInv, TypeOK, ExitLoop, Goto, OthersIdle, RuntimeTypeOK, TableTypeOK,
     WorkerTypeOK, SweepTypeOK, HandlerTypeOK, WorkerPc, sweepVars, handlerVars, tableVars
<1>2. Shape'
  BY DEF IInv, TypeOK, WorkerTypeOK, ExitLoop, Goto, OthersIdle, Shape, handlerVars, tableVars
<1>3. MessagesFaithful'
  BY DEF IInv, ExitLoop, Goto, OthersIdle, MessagesFaithful, Faithful,
     handlerVars, sweepVars, tableVars
<1>4. OneHolder' /\ HolderInStage'
  BY DEF IInv, TypeOK, WorkerTypeOK, ExitLoop, Goto, OneHolder, HolderInStage,
     Holds, Holding, InStage, tableVars
<1>5. DocsIffCompleted'
  BY DEF IInv, ExitLoop, DocsIffCompleted, tableVars
<1> QED
  BY <1>1, <1>2, <1>3, <1>4, <1>5 DEF IInv

\* processJob may return anywhere: a job without a holder satisfies everything.
LEMMA ReturnStep ==
  ASSUME IInv, NEW w \in Workers, Return(w), OthersIdle,
         UNCHANGED <<jobCh, chClosed, tableVars>>
  PROVE  IInv'
<1>1. TypeOK'
  BY DEF IInv, TypeOK, Return, OthersIdle, RuntimeTypeOK, TableTypeOK,
     WorkerTypeOK, SweepTypeOK, HandlerTypeOK, WorkerPc, sweepVars, handlerVars, tableVars
<1>2. Shape'
  BY DEF IInv, TypeOK, WorkerTypeOK, Return, OthersIdle, Shape, handlerVars, tableVars
<1>3. MessagesFaithful'
  BY DEF IInv, TypeOK, WorkerTypeOK, Return, OthersIdle, MessagesFaithful, Faithful,
     handlerVars, sweepVars, tableVars
<1>4. OneHolder' /\ HolderInStage'
  BY DEF IInv, TypeOK, WorkerTypeOK, Return, OneHolder, HolderInStage,
     Holds, Holding, InStage, tableVars
<1>5. DocsIffCompleted'
  BY DEF IInv, DocsIffCompleted, tableVars
<1> QED
  BY <1>1, <1>2, <1>3, <1>4, <1>5 DEF IInv

\* A stage that does not touch the row hands over to a point of the same stage.
LEMMA StageStep ==
  ASSUME IInv, NEW w \in Workers, OthersIdle, UNCHANGED <<jobCh, chClosed, tableVars>>,
         NEW pc \in {"markParsing", "markGenerating", "hung"}, Goto(w, pc),
         \/ wpc[w] = "clone" /\ pc = "markParsing"
         \/ wpc[w] = "parse" /\ pc \in {"markGenerating", "hung"}
  PROVE  IInv'
<1>1. TypeOK'
  BY DEF IInv, TypeOK, Goto, OthersIdle, RuntimeTypeOK, TableTypeOK,
     WorkerTypeOK, SweepTypeOK, HandlerTypeOK, WorkerPc, Holding,
     sweepVars, handlerVars, tableVars
<1>2. Shape'
  BY DEF IInv, TypeOK, WorkerTypeOK, Goto, OthersIdle, Shape, handlerVars, tableVars
<1>3. MessagesFaithful'
  BY DEF IInv, Goto, OthersIdle, MessagesFaithful, Faithful,
     handlerVars, sweepVars, tableVars
<1>4. OneHolder' /\ HolderInStage'
  BY DEF IInv, TypeOK, WorkerTypeOK, Goto, OneHolder, HolderInStage,
     Holds, Holding, InStage, tableVars
<1>5. DocsIffCompleted'
  BY DEF IInv, DocsIffCompleted, tableVars
<1> QED
  BY <1>1, <1>2, <1>3, <1>4, <1>5 DEF IInv

\* The message of a busy worker is a message, made from a row.
LEMMA BusyWorker ==
  ASSUME IInv, NEW w \in Workers, wpc[w] \in Holding \cup {"claim"}
  PROVE  /\ wmsg[w] \in Message
         /\ Faithful(wmsg[w])
  BY DEF IInv, TypeOK, WorkerTypeOK, Shape, MessagesFaithful, Holding

\* The claim takes effect only on a queued job, which nobody holds.
LEMMA ClaimStep ==
  ASSUME IInv, NEW w \in Workers, Claim(w), OthersIdle
  PROVE  IInv'
<1> DEFINE m == wmsg[w]
<1>m. m \in Message /\ Faithful(m) /\ wpc[w] = "claim"
  BY BusyWorker DEF Claim
<1>1. CASE UpdateJob(m, "cloning") /\ (Goto(w, "clone") \/ Return(w)) /\ UNCHANGED <<jobCh, chClosed>>
  <2>1. TypeOK'
    <3>1. TableTypeOK'
      BY <1>1, <1>m, QueriesTypeOK DEF IInv, TypeOK
    <3> QED
      BY <1>1, <3>1 DEF IInv, TypeOK, Goto, Return, OthersIdle, RuntimeTypeOK,
         WorkerTypeOK, SweepTypeOK, HandlerTypeOK, WorkerPc, Holding, sweepVars, handlerVars
  <2>2. Shape'
    BY <1>1, <1>m DEF IInv, TypeOK, WorkerTypeOK, TableTypeOK, Goto, Return, OthersIdle,
       Shape, UpdateJob, Claimable, Owned, Faithful, handlerVars
  <2>3. MessagesFaithful'
    BY <1>1 DEF IInv, TypeOK, WorkerTypeOK, Goto, Return, OthersIdle, UpdateJob,
       MessagesFaithful, Faithful, handlerVars, sweepVars
  <2>4. \A v \in Workers : ~Holds(v, m.job)
    BY <1>1, <1>m DEF IInv, HolderInStage, InStage, UpdateJob, Claimable, Message
  <2>5. /\ \A v \in Workers \ {w}, j \in JobIds : Holds(v, j)' <=> Holds(v, j)
        /\ \A j \in JobIds : Holds(w, j)' => j = m.job /\ wpc'[w] = "clone"
    BY <1>1 DEF IInv, TypeOK, WorkerTypeOK, Goto, Return, Holds, Holding
  <2>6. OneHolder'
    BY <2>4, <2>5 DEF IInv, OneHolder
  <2>7. HolderInStage'
    <3> SUFFICES ASSUME NEW v \in Workers, NEW j \in JobIds, Holds(v, j)'
                 PROVE  InStage(wpc[v], status[j])' \/ status'[j] = "absent"
      BY DEF HolderInStage
    <3>1. CASE v = w
      BY <1>1, <1>m, <2>5, <3>1 DEF IInv, TypeOK, TableTypeOK, UpdateJob, InStage
    <3>2. CASE v # w
      <4>1. Holds(v, j) /\ j # m.job /\ wpc'[v] = wpc[v]
        BY <1>1, <2>4, <2>5, <3>2 DEF Goto, Return, IInv, TypeOK, WorkerTypeOK
      <4>2. status'[j] = status[j]
        BY <1>1, <4>1 DEF IInv, TypeOK, TableTypeOK, UpdateJob
      <4> QED
        BY <4>1, <4>2 DEF IInv, HolderInStage, InStage
    <3> QED
      BY <3>1, <3>2
  <2>8. DocsIffCompleted'
    BY <1>1, <1>m DEF IInv, TypeOK, TableTypeOK, DocsIffCompleted, UpdateJob, Claimable, Message
  <2> QED
    BY <2>1, <2>2, <2>3, <2>6, <2>7, <2>8 DEF IInv
<1>2. CASE Return(w) /\ UNCHANGED <<jobCh, chClosed, tableVars>>
  BY <1>2, ReturnStep
<1> QED
  BY <1>1, <1>2 DEF Claim, StatusUpdate

\* SetJobStatus(m, s) of the holder of m, which is at the update to s.
LEMMA StatusStep ==
  ASSUME IInv, NEW w \in Workers, OthersIdle, UNCHANGED <<jobCh, chClosed>>,
         NEW s, NEW next, SetJobStatus(wmsg[w], s), Goto(w, next) \/ Return(w),
         \/ wpc[w] = "markParsing" /\ s = "parsing" /\ next = "parse"
         \/ wpc[w] = "markGenerating" /\ s = "generating" /\ next = "generate"
  PROVE  IInv'
<1> DEFINE m == wmsg[w]
<1>m. m \in Message /\ Faithful(m) /\ wpc[w] \in Holding /\ m.job \in JobIds
  BY BusyWorker DEF Holding, Message
<1>s. s \in Status /\ next \in Holding /\ InStage(next, s)
  BY DEF Status, Holding, InStage
<1>1. TypeOK'
  <2>1. TableTypeOK'
    BY <1>m, <1>s, QueriesTypeOK DEF IInv, TypeOK
  <2> QED
    BY <2>1, <1>s DEF IInv, TypeOK, Goto, Return, OthersIdle, RuntimeTypeOK,
       WorkerTypeOK, SweepTypeOK, HandlerTypeOK, WorkerPc, sweepVars, handlerVars
<1>2. Shape'
  BY <1>m DEF IInv, TypeOK, WorkerTypeOK, TableTypeOK, Goto, Return, OthersIdle,
     Shape, SetJobStatus, Owned, Faithful, handlerVars
<1>3. MessagesFaithful'
  BY DEF IInv, TypeOK, WorkerTypeOK, Goto, Return, OthersIdle, SetJobStatus,
     MessagesFaithful, Faithful, handlerVars, sweepVars
<1>4. Holds(w, m.job) /\ \A v \in Workers : Holds(v, m.job) => v = w
  BY <1>m DEF IInv, OneHolder, Holds
<1>5. /\ \A v \in Workers \ {w}, j \in JobIds : Holds(v, j)' <=> Holds(v, j)
      /\ \A j \in JobIds : Holds(w, j)' => j = m.job /\ wpc'[w] = next
  BY DEF IInv, TypeOK, WorkerTypeOK, Goto, Return, Holds, Holding
<1>6. OneHolder'
  BY <1>4, <1>5 DEF IInv, OneHolder
<1>7. HolderInStage'
  <2> SUFFICES ASSUME NEW v \in Workers, NEW j \in JobIds, Holds(v, j)'
               PROVE  InStage(wpc[v], status[j])' \/ status'[j] = "absent"
    BY DEF HolderInStage
  <2>1. CASE v = w
    BY <1>m, <1>s, <1>5, <2>1 DEF IInv, TypeOK, TableTypeOK, SetJobStatus, InStage
  <2>2. CASE v # w
    <3>1. Holds(v, j) /\ j # m.job /\ wpc'[v] = wpc[v]
      BY <1>4, <1>5, <2>2 DEF Goto, Return, IInv, TypeOK, WorkerTypeOK
    <3>2. status'[j] = status[j]
      BY <3>1 DEF IInv, TypeOK, TableTypeOK, SetJobStatus
    <3> QED
      BY <3>1, <3>2 DEF IInv, HolderInStage, InStage
  <2> QED
    BY <2>1, <2>2
<1>8. DocsIffCompleted'
  <2>1. status[m.job] # "completed"
    BY <1>m, <1>4 DEF IInv, HolderInStage, InStage
  <2> QED
    BY <1>m, <2>1, <1>s DEF IInv, TypeOK, TableTypeOK, DocsIffCompleted, SetJobStatus, InStage
<1> QED
  BY <1>1, <1>2, <1>3, <1>6, <1>7, <1>8 DEF IInv

\* Generate leaves the row alone; the worker goes on with what it has.
LEMMA GenerateStep ==
  ASSUME IInv, NEW w \in Workers, Generate(w), OthersIdle
  PROVE  IInv'
<1>1. PICK docs \in SUBSET DocTypes :
        IF docs = {}
        THEN Return(w)
        ELSE /\ wpc' = [wpc EXCEPT ![w] = "store"]
             /\ wdocs' = [wdocs EXCEPT ![w] = docs]
             /\ UNCHANGED wmsg
  BY DEF Generate
<1>2. CASE docs = {}
  BY <1>1, <1>2, ReturnStep DEF Generate
<1>3. CASE docs # {}
  <2>1. TypeOK'
    BY <1>1, <1>3 DEF IInv, TypeOK, Generate, OthersIdle, RuntimeTypeOK, TableTypeOK,
       WorkerTypeOK, SweepTypeOK, HandlerTypeOK, WorkerPc, Holding,
       sweepVars, handlerVars, tableVars
  <2>2. Shape'
    BY <1>1, <1>3 DEF IInv, TypeOK, WorkerTypeOK, Generate, OthersIdle, Shape,
       handlerVars, tableVars
  <2>3. MessagesFaithful'
    BY <1>1, <1>3 DEF IInv, Generate, OthersIdle, MessagesFaithful, Faithful,
       handlerVars, sweepVars, tableVars
  <2>4. OneHolder' /\ HolderInStage'
    BY <1>1, <1>3 DEF IInv, TypeOK, WorkerTypeOK, Generate, OneHolder, HolderInStage,
       Holds, Holding, InStage, tableVars
  <2>5. DocsIffCompleted'
    BY DEF IInv, Generate, DocsIffCompleted, tableVars
  <2> QED
    BY <2>1, <2>2, <2>3, <2>4, <2>5 DEF IInv
<1> QED
  BY <1>2, <1>3

\* The transaction turns "generating" without documents into "completed" with
\* the documents of this run.
LEMMA StoreStep ==
  ASSUME IInv, NEW w \in Workers, Store(w), OthersIdle
  PROVE  IInv'
<1> DEFINE m == wmsg[w]
<1>m. m \in Message /\ Faithful(m) /\ m.job \in JobIds /\ wpc[w] = "store" /\ Return(w)
  BY BusyWorker DEF Holding, Message, Store
<1>1. CASE StoreTx(m, wdocs[w])
  <2>d. wdocs[w] \in SUBSET DocTypes /\ wdocs[w] # {}
    BY <1>m DEF IInv, TypeOK, WorkerTypeOK, Shape
  <2>1. TypeOK'
    <3>1. TableTypeOK'
      BY <1>1, <1>m, <2>d, QueriesTypeOK DEF IInv, TypeOK
    <3> QED
      BY <1>m, <3>1 DEF IInv, TypeOK, Store, Return, OthersIdle, RuntimeTypeOK,
         WorkerTypeOK, SweepTypeOK, HandlerTypeOK, WorkerPc, sweepVars, handlerVars
  <2>2. Shape'
    BY <1>1, <1>m DEF IInv, TypeOK, WorkerTypeOK, TableTypeOK, Return, OthersIdle,
       Shape, StoreTx, Owned, Faithful, handlerVars
  <2>3. MessagesFaithful'
    BY <1>1, <1>m DEF IInv, TypeOK, WorkerTypeOK, Store, Return, OthersIdle, StoreTx,
       MessagesFaithful, Faithful, handlerVars, sweepVars
  <2>4. Holds(w, m.job) /\ \A v \in Workers : Holds(v, m.job) => v = w
    BY <1>m DEF IInv, OneHolder, Holds, Holding
  <2>5. /\ \A v \in Workers \ {w}, j \in JobIds :
              (Holds(v, j)' <=> Holds(v, j)) /\ wpc'[v] = wpc[v]
        /\ \A j \in JobIds : ~Holds(w, j)'
    BY <1>m DEF IInv, TypeOK, WorkerTypeOK, Return, Holds, Holding
  <2>6. OneHolder'
    BY <2>5 DEF IInv, OneHolder
  <2>7. \A j \in JobIds \ {m.job} : /\ status'[j] = status[j]
                                    /\ documents'[j] = documents[j]
                                    /\ callsUsed'[j] = callsUsed[j]
    BY <1>1 DEF IInv, TypeOK, TableTypeOK, StoreTx
  <2>8. HolderInStage'
    BY <2>4, <2>5, <2>7 DEF IInv, HolderInStage, InStage
  <2>9. documents[m.job] = {}
    BY <1>1, <1>m, <2>4 DEF IInv, HolderInStage, InStage, DocsIffCompleted, StoreTx, Owned
  <2>10. /\ documents'[m.job] = wdocs[w]
         /\ status'[m.job] = "completed"
         /\ callsUsed'[m.job] = Cardinality(wdocs[w])
    BY <1>1, <1>m, <2>9 DEF IInv, TypeOK, TableTypeOK, StoreTx
  <2>11. DocsIffCompleted'
    BY <2>7, <2>10, <2>d DEF IInv, DocsIffCompleted
  <2> QED
    BY <2>1, <2>2, <2>3, <2>6, <2>8, <2>11 DEF IInv
<1>2. CASE UNCHANGED tableVars
  BY <1>2, <1>m, ReturnStep DEF Store
<1> QED
  BY <1>1, <1>2 DEF Store

\* Every step of a worker preserves the invariant.
LEMMA WorkStep ==
  ASSUME IInv, NEW w \in Workers, Work(w)
  PROVE  IInv'
<1>o. WorkerStep(w) /\ OthersIdle
  BY DEF Work, WorkerStep, OthersIdle
<1>1. CASE TakeMessage(w)
  BY <1>1, <1>o, TakeMessageStep
<1>2. CASE ExitLoop(w)
  BY <1>2, <1>o, ExitLoopStep
<1>3. CASE Claim(w)
  BY <1>3, <1>o, ClaimStep
<1>4. CASE Clone(w)
  BY <1>4, <1>o, ReturnStep, StageStep DEF Clone
<1>5. CASE MarkParsing(w)
  BY <1>5, <1>o, ReturnStep, StatusStep DEF MarkParsing, StatusUpdate
<1>6. CASE Parse(w)
  BY <1>6, <1>o, ReturnStep, StageStep DEF Parse
<1>7. CASE MarkGenerating(w)
  BY <1>7, <1>o, ReturnStep, StatusStep DEF MarkGenerating, StatusUpdate
<1>8. CASE Generate(w)
  BY <1>8, <1>o, GenerateStep
<1>9. CASE Store(w)
  BY <1>9, <1>o, StoreStep
<1> QED
  BY <1>o, <1>1, <1>2, <1>3, <1>4, <1>5, <1>6, <1>7, <1>8, <1>9 DEF WorkerStep

(***************************************************************************)
(* Steps of the sweep, the handlers and main                               *)
(***************************************************************************)

\* Steps that move no job and no worker keep what is said of them.
LEMMA JobsAndWorkersKept ==
  ASSUME IInv, UNCHANGED <<tableVars, workerVars>>
  PROVE  /\ TableTypeOK' /\ WorkerTypeOK'
         /\ OneHolder' /\ HolderInStage' /\ DocsIffCompleted'
<1>1. TableTypeOK' /\ WorkerTypeOK'
  BY DEF IInv, TypeOK, TableTypeOK, WorkerTypeOK, tableVars, workerVars
<1>2. OneHolder' /\ HolderInStage'
  BY DEF IInv, OneHolder, HolderInStage, Holds, InStage, tableVars, workerVars
<1>3. DocsIffCompleted'
  BY DEF IInv, DocsIffCompleted, tableVars
<1> QED
  BY <1>1, <1>2, <1>3

\* The snapshot holds rows, and the message that is sent is one of them.
LEMMA SweepPreserves ==
  ASSUME IInv, Sweep
  PROVE  IInv'
<1> USE DEF Sweep
<1>k. /\ TableTypeOK' /\ WorkerTypeOK' /\ HandlerTypeOK'
      /\ OneHolder' /\ HolderInStage' /\ DocsIffCompleted'
  BY JobsAndWorkersKept DEF SweepStep, SweepQuery, SweepSend, SweepExit, IInv, TypeOK,
     HandlerTypeOK, handlerVars
<1>s. Shape'
  BY DEF SweepStep, SweepQuery, SweepSend, SweepExit, IInv, Shape,
     tableVars, workerVars, handlerVars
<1>1. CASE SweepQuery
  <2>1. ASSUME NEW m \in GetPendingJob PROVE m \in Message /\ Faithful(m)
    <3>1. PICK j \in Oldest({i \in JobIds : status[i] = "queued"}) : m = row[j]
      BY DEF GetPendingJob
    <3>2. j \in JobIds /\ status[j] = "queued"
      BY DEF Oldest
    <3>3. row[j] \in Message /\ row[j].job = j /\ j \in 1..created
      BY <3>2 DEF IInv, TypeOK, TableTypeOK, Shape, JobIds
    <3> QED
      BY <3>1, <3>3 DEF Faithful
  <2>2. TypeOK'
    BY <1>1, <1>k, <2>1 DEF SweepQuery, IInv, TypeOK, RuntimeTypeOK, SweepTypeOK, runtimeVars
  <2>3. MessagesFaithful'
    BY <1>1, <2>1 DEF SweepQuery, IInv, MessagesFaithful, Faithful,
       tableVars, runtimeVars, workerVars, handlerVars
  <2> QED
    BY <1>k, <1>s, <2>2, <2>3 DEF IInv
<1>2. CASE SweepSend
  <2>1. PICK m \in pending : TrySend(m) /\ pending' = pending \ {m}
    BY <1>2 DEF SweepSend
  <2>2. m \in Message /\ Faithful(m)
    BY DEF IInv, TypeOK, SweepTypeOK, MessagesFaithful
  <2>3. /\ jobCh' \in Seq(Message)
        /\ Len(jobCh') <= Capacity
        /\ \A i \in DOMAIN jobCh' :
             jobCh'[i] = m \/ \E k \in DOMAIN jobCh : jobCh'[i] = jobCh[k]
    BY <2>1, <2>2, SendEffect DEF IInv, TypeOK
  <2>4. TypeOK'
    BY <1>2, <1>k, <2>1, <2>3 DEF SweepSend, IInv, TypeOK, RuntimeTypeOK, SweepTypeOK
  <2>5. MessagesFaithful'
    BY <1>2, <2>1, <2>2, <2>3 DEF SweepSend, IInv, MessagesFaithful, Faithful,
       tableVars, workerVars, handlerVars
  <2> QED
    BY <1>k, <1>s, <2>4, <2>5 DEF IInv
<1>3. CASE SweepExit
  <2>1. TypeOK'
    BY <1>3, <1>k DEF SweepExit, IInv, TypeOK, RuntimeTypeOK, SweepTypeOK, runtimeVars
  <2>2. MessagesFaithful'
    BY <1>3 DEF SweepExit, IInv, MessagesFaithful, Faithful,
       tableVars, runtimeVars, workerVars, handlerVars
  <2> QED
    BY <1>k, <1>s, <2>1, <2>2 DEF IInv
<1> QED
  BY <1>1, <1>2, <1>3 DEF SweepStep

\* A new row is queued, has no documents, and is nobody's job yet: no message
\* carries an id above created.
LEMMA SubmitPreserves ==
  ASSUME IInv, NEW c \in Clients, NEW u \in Users, NEW r \in RepoURLs,
         SubmitJob(c, u, r), UNCHANGED <<workerVars, sweepVars, mainPc>>
  PROVE  IInv'
<1> USE DEF SubmitJob
<1>p. PICK j0 \in JobIds : j0 = created + 1 /\ created' = j0
  BY MaxJobsAssumption DEF CreateJob, JobIds, IInv, TypeOK, TableTypeOK
<1>q. PICK m \in Message : m = [job |-> j0, user |-> u, repo |-> r]
  BY DEF Message
<1>j. j0 \in JobIds /\ created' = created + 1 /\ created' = j0 /\ m.job = j0
  BY <1>p, <1>q
<1>r. /\ row' = [row EXCEPT ![j0] = m]
      /\ status' = [status EXCEPT ![j0] = "queued"]
      /\ UNCHANGED <<documents, callsUsed>>
  BY <1>j, <1>q DEF CreateJob
<1>h. \/ hpc' = [hpc EXCEPT ![c] = "enqueue"] /\ hmsg' = [hmsg EXCEPT ![c] = m]
      \/ UNCHANGED <<hpc, hmsg>>
  BY <1>j, <1>r DEF Handle, handlerVars, IInv, TypeOK, TableTypeOK
<1>1. TypeOK'
  <2>1. TableTypeOK'
    BY <1>j, <1>q, <1>r DEF IInv, TypeOK, TableTypeOK, Status, JobIds
  <2>2. HandlerTypeOK'
    BY <1>q, <1>h DEF IInv, TypeOK, HandlerTypeOK
  <2> QED
    BY <2>1, <2>2 DEF IInv, TypeOK, RuntimeTypeOK, WorkerTypeOK, SweepTypeOK,
       runtimeVars, workerVars, sweepVars
<1>2. Shape'
  BY <1>j, <1>r, <1>h, NoMsgAssumption DEF IInv, TypeOK, TableTypeOK, HandlerTypeOK, Shape,
     JobIds, workerVars
<1>f. \A n : Faithful(n) => Faithful(n)' /\ n.job # j0
  BY <1>j, <1>r DEF Faithful, IInv, TypeOK, TableTypeOK
<1>g. Faithful(m)'
  BY <1>j, <1>r DEF Faithful, IInv, TypeOK, TableTypeOK, JobIds
<1>3. MessagesFaithful'
  <2>1. \A i \in DOMAIN jobCh' : Faithful(jobCh[i])'
    BY <1>f DEF IInv, MessagesFaithful, runtimeVars
  <2>2. \A n \in pending' : Faithful(n)'
    BY <1>f DEF IInv, MessagesFaithful, sweepVars
  <2>3. \A d \in Clients : hmsg'[d] = NoMsg \/ Faithful(hmsg[d])'
    BY <1>f, <1>g, <1>h DEF IInv, MessagesFaithful, TypeOK, HandlerTypeOK
  <2>4. \A w \in Workers : wmsg'[w] = NoMsg \/ Faithful(wmsg[w])'
    BY <1>f DEF IInv, MessagesFaithful, workerVars
  <2> QED
    BY <2>1, <2>2, <2>3, <2>4 DEF MessagesFaithful
<1>4. \A w \in Workers : ~Holds(w, j0)
  BY <1>f DEF IInv, Holds, Shape, MessagesFaithful, Holding
<1>5. OneHolder'
  BY DEF IInv, OneHolder, Holds, workerVars
<1>6. HolderInStage'
  BY <1>4, <1>r, <1>j DEF IInv, HolderInStage, Holds, InStage, workerVars, TypeOK, TableTypeOK
<1>7. DocsIffCompleted'
  BY <1>j, <1>r DEF IInv, DocsIffCompleted, Shape, TypeOK, TableTypeOK, JobIds
<1> QED
  BY <1>1, <1>2, <1>3, <1>5, <1>6, <1>7 DEF IInv

\* RemoveJobById only reads the row.
LEMMA RemovePreserves ==
  ASSUME IInv, NEW c \in Clients, NEW u \in Users, NEW j \in JobIds,
         RemoveJobById(c, j, u), UNCHANGED <<workerVars, sweepVars, mainPc>>
  PROVE  IInv'
<1> USE DEF RemoveJobById
<1>k. /\ TableTypeOK' /\ WorkerTypeOK'
      /\ OneHolder' /\ HolderInStage' /\ DocsIffCompleted'
  BY JobsAndWorkersKept
<1>r. row[j] \in Message /\ row[j].job = j /\ j \in 1..created
  BY DEF Owned, IInv, TypeOK, TableTypeOK, Shape, JobIds
<1>m. [row[j] EXCEPT !.user = u] = row[j]
  BY <1>r DEF Owned, Message
<1>h. hpc' = [hpc EXCEPT ![c] = "delete"] /\ hmsg' = [hmsg EXCEPT ![c] = row[j]]
  BY <1>m DEF Handle
<1>1. TypeOK'
  BY <1>k, <1>r, <1>h DEF IInv, TypeOK, RuntimeTypeOK, SweepTypeOK, HandlerTypeOK,
     runtimeVars, sweepVars
<1>2. Shape'
  BY <1>r, <1>h, NoMsgAssumption DEF IInv, TypeOK, HandlerTypeOK, Shape, tableVars, workerVars
<1>3. MessagesFaithful'
  BY <1>r, <1>h DEF IInv, TypeOK, HandlerTypeOK, MessagesFaithful, Faithful,
     tableVars, runtimeVars, workerVars, sweepVars
<1> QED
  BY <1>k, <1>1, <1>2, <1>3 DEF IInv

\* The handler sends the row it made, or panics on the closed channel.
LEMMA EnqueuePreserves ==
  ASSUME IInv, NEW c \in Clients, Enqueue(c), UNCHANGED <<workerVars, sweepVars, mainPc>>
  PROVE  IInv'
<1> USE DEF Enqueue
<1>k. /\ TableTypeOK' /\ WorkerTypeOK'
      /\ OneHolder' /\ HolderInStage' /\ DocsIffCompleted'
  BY JobsAndWorkersKept
<1>m. hmsg[c] \in Message /\ Faithful(hmsg[c])
  BY DEF IInv, TypeOK, HandlerTypeOK, Shape, MessagesFaithful
<1>c. /\ jobCh' \in Seq(Message)
      /\ Len(jobCh') <= Capacity
      /\ \A i \in DOMAIN jobCh' :
           jobCh'[i] = hmsg[c] \/ \E k \in DOMAIN jobCh : jobCh'[i] = jobCh[k]
  <2>1. CASE TrySend(hmsg[c])
    BY <1>m, <2>1, SendEffect DEF IInv, TypeOK
  <2>2. CASE UNCHANGED jobCh
    BY <2>2 DEF IInv, TypeOK, RuntimeTypeOK
  <2> QED
    BY <2>1, <2>2
<1>h. hpc' = [hpc EXCEPT ![c] = "idle"] /\ hmsg' = [hmsg EXCEPT ![c] = NoMsg]
  BY DEF Respond, Handle
<1>1. TypeOK'
  BY <1>k, <1>c, <1>h DEF IInv, TypeOK, RuntimeTypeOK, SweepTypeOK, HandlerTypeOK, sweepVars
<1>2. Shape'
  BY <1>h DEF IInv, TypeOK, HandlerTypeOK, Shape, tableVars, workerVars
<1>3. MessagesFaithful'
  BY <1>m, <1>c, <1>h DEF IInv, TypeOK, HandlerTypeOK, MessagesFaithful, Faithful,
     tableVars, workerVars, sweepVars
<1> QED
  BY <1>k, <1>1, <1>2, <1>3 DEF IInv

\* A DELETE may hit a job that was claimed since it was looked at: its holder
\* is left with a job that is absent.
LEMMA DeletePreserves ==
  ASSUME IInv, NEW c \in Clients, Delete(c), UNCHANGED <<workerVars, sweepVars, mainPc>>
  PROVE  IInv'
<1> USE DEF Delete
<1> DEFINE m == hmsg[c]
<1>m. m \in Message /\ Faithful(m) /\ m.job \in JobIds
  BY DEF IInv, TypeOK, HandlerTypeOK, Shape, MessagesFaithful, Message
<1>h. hpc' = [hpc EXCEPT ![c] = "idle"] /\ hmsg' = [hmsg EXCEPT ![c] = NoMsg]
  BY DEF Respond, Handle
<1>1. CASE DeleteJob(m.job, m.user)
  <2>1. TypeOK'
    <3>1. TableTypeOK'
      BY <1>1, <1>m, QueriesTypeOK DEF IInv, TypeOK
    <3> QED
      BY <1>h, <3>1 DEF IInv, TypeOK, RuntimeTypeOK, WorkerTypeOK, SweepTypeOK, HandlerTypeOK,
         runtimeVars, workerVars, sweepVars
  <2>2. Shape'
    BY <1>1, <1>m, <1>h DEF IInv, TypeOK, TableTypeOK, HandlerTypeOK, Shape, DeleteJob, workerVars
  <2>3. MessagesFaithful'
    BY <1>1, <1>h DEF IInv, TypeOK, HandlerTypeOK, MessagesFaithful, Faithful, DeleteJob,
       runtimeVars, workerVars, sweepVars
  <2>4. OneHolder' /\ HolderInStage'
    BY <1>1, <1>m DEF IInv, TypeOK, TableTypeOK, OneHolder, HolderInStage, Holds, InStage,
       DeleteJob, workerVars
  <2>5. DocsIffCompleted'
    BY <1>1, <1>m, FS_EmptySet DEF IInv, TypeOK, TableTypeOK, DocsIffCompleted, DeleteJob
  <2> QED
    BY <2>1, <2>2, <2>3, <2>4, <2>5 DEF IInv
<1>2. CASE UNCHANGED tableVars
  <2>1. /\ TableTypeOK' /\ WorkerTypeOK'
        /\ OneHolder' /\ HolderInStage' /\ DocsIffCompleted'
    BY <1>2, JobsAndWorkersKept
  <2>2. TypeOK'
    BY <1>h, <2>1 DEF IInv, TypeOK, RuntimeTypeOK, SweepTypeOK, HandlerTypeOK,
       runtimeVars, sweepVars
  <2>3. Shape'
    BY <1>2, <1>h DEF IInv, TypeOK, HandlerTypeOK, Shape, tableVars, workerVars
  <2>4. MessagesFaithful'
    BY <1>2, <1>h DEF IInv, TypeOK, HandlerTypeOK, MessagesFaithful, Faithful,
       tableVars, runtimeVars, workerVars, sweepVars
  <2> QED
    BY <2>1, <2>2, <2>3, <2>4 DEF IInv
<1> QED
  BY <1>1, <1>2

\* When the process ends nobody holds a job any more, and the tables stay.
LEMMA DiePreserves ==
  ASSUME IInv, NEW how \in {"exited", "crashed", "panicked"}, Die(how)
  PROVE  IInv'
<1>0. << >> \in Seq(Message) /\ Len(<< >>) = 0 /\ DOMAIN << >> = {}
  BY EmptySeq, LenProperties
<1>1. TypeOK'
  <2>1. RuntimeTypeOK'
    <3>1. jobCh' \in Seq(Message) /\ Len(jobCh') <= Capacity
      BY <1>0, CapacityType DEF Die
    <3> QED
      BY <3>1 DEF RuntimeTypeOK, Die
  <2> QED
    BY <2>1 DEF IInv, TypeOK, Die, TableTypeOK, WorkerTypeOK,
       SweepTypeOK, HandlerTypeOK, WorkerPc, tableVars
<1>2. Shape'
  BY DEF IInv, Die, Shape, tableVars
<1>3. MessagesFaithful'
  BY <1>0 DEF Die, MessagesFaithful
<1>4. OneHolder' /\ HolderInStage'
  BY DEF Die, OneHolder, HolderInStage, Holds, Holding
<1>5. DocsIffCompleted'
  BY DEF IInv, Die, DocsIffCompleted, tableVars
<1> QED
  BY <1>1, <1>2, <1>3, <1>4, <1>5 DEF IInv

\* The other steps move nothing that the invariant speaks of but the type.
LEMMA MainPreserves ==
  ASSUME IInv, BeginShutdown \/ CloseCh \/ Signal \/ Restart
  PROVE  IInv'
<1>u. UNCHANGED <<tableVars, jobCh, workerVars, sweepVars, handlerVars>>
  BY DEF BeginShutdown, CloseCh, Signal, Restart, runtimeVars
<1>k. /\ TableTypeOK' /\ WorkerTypeOK'
      /\ OneHolder' /\ HolderInStage' /\ DocsIffCompleted'
  BY <1>u, JobsAndWorkersKept
<1>1. TypeOK'
  BY <1>u, <1>k DEF IInv, TypeOK, RuntimeTypeOK, SweepTypeOK, HandlerTypeOK, BeginShutdown,
     CloseCh, Signal, Restart, runtimeVars, sweepVars, handlerVars
<1>2. Shape' /\ MessagesFaithful'
  BY <1>u DEF IInv, Shape, MessagesFaithful, Faithful,
     tableVars, workerVars, sweepVars, handlerVars
<1> QED
  BY <1>k, <1>1, <1>2 DEF IInv

(***************************************************************************)
(* The theorems                                                            *)
(***************************************************************************)

LEMMA InitIInv == Init => IInv
<1> SUFFICES ASSUME Init PROVE IInv
  OBVIOUS
<1> USE DEF Init, TableInit, RuntimeInit, WorkerInit, SweepInit, HandlerInit
<1>0. << >> \in Seq(Message) /\ Len(<< >>) = 0 /\ DOMAIN << >> = {}
  BY EmptySeq, LenProperties
<1>1. TypeOK
  <2>1. RuntimeTypeOK
    <3>1. jobCh \in Seq(Message) /\ Len(jobCh) <= Capacity
      BY <1>0, CapacityType
    <3> QED
      BY <3>1 DEF RuntimeTypeOK
  <2>2. TableTypeOK
    BY MaxJobsAssumption DEF TableTypeOK
  <2> QED
    BY <2>1, <2>2 DEF TypeOK, WorkerTypeOK, SweepTypeOK, HandlerTypeOK, WorkerPc
<1>2. Shape
  BY DEF Shape, JobIds
<1>3. MessagesFaithful
  BY <1>0 DEF MessagesFaithful
<1>4. OneHolder /\ HolderInStage
  BY DEF OneHolder, HolderInStage, Holds, Holding
<1>5. DocsIffCompleted
  BY FS_EmptySet DEF DocsIffCompleted
<1> QED
  BY <1>1, <1>2, <1>3, <1>4, <1>5 DEF IInv

LEMMA NextIInv == IInv /\ [Next]_vars => IInv'
<1> SUFFICES ASSUME IInv, [Next]_vars PROVE IInv'
  OBVIOUS
<1>1. ASSUME NEW w \in Workers, Work(w) PROVE IInv'
  BY <1>1, WorkStep
<1>2. CASE Sweep
  BY <1>2, SweepPreserves
<1>3. ASSUME NEW c \in Clients, Request(c) PROVE IInv'
  BY <1>3, SubmitPreserves, RemovePreserves DEF Request, NewRequest
<1>4. ASSUME NEW c \in Clients, Handler(c) PROVE IInv'
  BY <1>4, EnqueuePreserves, DeletePreserves DEF Handler, HandlerStep
<1>5. CASE MainStep \/ Signal \/ Restart
  BY <1>5, MainPreserves, DiePreserves DEF MainStep, Exit
<1>6. CASE Crash \/ Panic
  BY <1>6, DiePreserves DEF Crash, Panic
<1>7. CASE UNCHANGED vars
  <2>1. UNCHANGED <<tableVars, workerVars>>
    BY <1>7 DEF vars
  <2>2. /\ TableTypeOK' /\ WorkerTypeOK'
        /\ OneHolder' /\ HolderInStage' /\ DocsIffCompleted'
    BY <2>1, JobsAndWorkersKept
  <2>3. TypeOK'
    BY <1>7, <2>2 DEF IInv, TypeOK, RuntimeTypeOK, SweepTypeOK, HandlerTypeOK, vars,
       runtimeVars, sweepVars, handlerVars
  <2>4. Shape' /\ MessagesFaithful'
    BY <1>7 DEF IInv, Shape, MessagesFaithful, Faithful, vars,
       tableVars, runtimeVars, workerVars, sweepVars, handlerVars
  <2> QED
    BY <2>2, <2>3, <2>4 DEF IInv
<1> QED
  BY <1>1, <1>2, <1>3, <1>4, <1>5, <1>6, <1>7 DEF Next

\* The inductive invariant holds in every state of the program.
THEOREM Inductive == Spec => []IInv
  BY InitIInv, NextIInv, PTL DEF Spec

\* Every variable stays in its type; in particular the channel never holds
\* more messages than there are workers.
THEOREM TypeCorrect == Spec => []TypeOK
<1>1. IInv => TypeOK
  BY DEF IInv
<1> QED
  BY <1>1, Inductive, PTL

\* No two workers ever process the same job, for any number of workers, of
\* clients and of duplicate messages, and under all faults.
THEOREM MutualExclusion == Spec => []OneHolder
<1>1. IInv => OneHolder
  BY DEF IInv
<1> QED
  BY <1>1, Inductive, PTL

\* A job is where its worker believes it is, or deleted.
THEOREM HolderKnowsStage == Spec => []HolderInStage
<1>1. IInv => HolderInStage
  BY DEF IInv
<1> QED
  BY <1>1, Inductive, PTL

\* Documents are visible exactly when the job is completed, and counted right.
THEOREM DocumentsAtomic == Spec => []DocsIffCompleted
<1>1. IInv => DocsIffCompleted
  BY DEF IInv
<1> QED
  BY <1>1, Inductive, PTL

\* Messages are always copies of the rows they were made from.
THEOREM MessagesAreRows == Spec => []MessagesFaithful
<1>1. IInv => MessagesFaithful
  BY DEF IInv
<1> QED
  BY <1>1, Inductive, PTL

(***************************************************************************)
(* Steps of the whole program                                              *)
(***************************************************************************)

\* The action of OnlyOwnerDeletes.
OwnerDeletes ==
    \A j \in JobIds :
         status[j] # "absent" /\ status'[j] = "absent" =>
            \E c \in Clients : /\ hpc[c] = "delete"
                               /\ hmsg[c].job = j
                               /\ hmsg[c].user = row[j].user

\* No query of a worker makes a row disappear.
LEMMA WorkKeepsRows ==
  ASSUME IInv, NEW w \in Workers, WorkerStep(w)
  PROVE  \A j \in JobIds : status'[j] = "absent" => status[j] = "absent"
<1>1. CASE UNCHANGED tableVars
  BY <1>1 DEF tableVars
<1>2. ASSUME NEW s \in Status, status' = [status EXCEPT ![wmsg[w].job] = s]
      PROVE  \A j \in JobIds : status'[j] = "absent" => status[j] = "absent"
  BY <1>2 DEF IInv, TypeOK, TableTypeOK, Status
<1>3. \/ UNCHANGED tableVars
      \/ \E s \in Status : status' = [status EXCEPT ![wmsg[w].job] = s]
  BY DEF WorkerStep, TakeMessage, ExitLoop, Claim, Clone, MarkParsing, Parse, MarkGenerating,
     Generate, Store, StatusUpdate, UpdateJob, SetJobStatus, StoreTx, Status
<1> QED
  BY <1>1, <1>2, <1>3

\* The DELETE of a handler carries the user who asked for it.
LEMMA DeleteIsOwners ==
  ASSUME IInv, NEW c \in Clients, Delete(c)
  PROVE  OwnerDeletes
<1>1. CASE DeleteJob(hmsg[c].job, hmsg[c].user)
  BY <1>1 DEF Delete, DeleteJob, Owned, OwnerDeletes, IInv, TypeOK, TableTypeOK
<1>2. CASE UNCHANGED tableVars
  BY <1>2 DEF OwnerDeletes, tableVars
<1> QED
  BY <1>1, <1>2 DEF Delete

LEMMA NextOwnerDeletes == IInv /\ [Next]_vars => [OwnerDeletes]_vars
<1> SUFFICES ASSUME IInv, [Next]_vars PROVE OwnerDeletes
  OBVIOUS
<1>1. CASE UNCHANGED tableVars
  BY <1>1 DEF OwnerDeletes, tableVars
<1>2. ASSUME NEW w \in Workers, Work(w) PROVE OwnerDeletes
  BY <1>2, WorkKeepsRows DEF Work, OwnerDeletes
<1>3. ASSUME NEW c \in Clients, Delete(c) PROVE OwnerDeletes
  BY <1>3, DeleteIsOwners
<1>4. ASSUME NEW c \in Clients, NEW u \in Users, NEW r \in RepoURLs, SubmitJob(c, u, r)
      PROVE  OwnerDeletes
  BY <1>4 DEF SubmitJob, CreateJob, OwnerDeletes, IInv, TypeOK, TableTypeOK
<1>5. ASSUME NEW c \in Clients, Request(c) PROVE OwnerDeletes
  BY <1>1, <1>4, <1>5 DEF Request, NewRequest, RemoveJobById
<1>6. ASSUME NEW c \in Clients, Handler(c) PROVE OwnerDeletes
  BY <1>1, <1>3, <1>6 DEF Handler, HandlerStep, Enqueue
<1>7. CASE Sweep \/ MainStep \/ Signal \/ Crash \/ Panic \/ Restart
  BY <1>1, <1>7 DEF Sweep, SweepStep, SweepQuery, SweepSend, SweepExit, MainStep,
     BeginShutdown, CloseCh, Exit, Signal, Crash, Panic, Restart, Die
<1>8. CASE UNCHANGED vars
  BY <1>1, <1>8 DEF vars
<1> QED
  BY <1>2, <1>5, <1>6, <1>7, <1>8 DEF Next

\* A row disappears only when its own user asked for it.
THEOREM OwnersDelete == Spec => OnlyOwnerDeletes
<1>1. Spec => [][OwnerDeletes]_vars
  BY Inductive, NextOwnerDeletes, PTL DEF Spec
<1> QED
  BY <1>1 DEF OnlyOwnerDeletes, OwnerDeletes

\* Main closes the channel after the last handler, and no request starts then.
CloseOrder ==
    /\ chClosed => mainPc = "draining"
    /\ mainPc = "draining" => \A c \in Clients : hpc[c] = "idle"

LEMMA NextCloseOrder ==
  ASSUME "slow" \notin Faults, TypeOK, CloseOrder, [Next]_vars
  PROVE  CloseOrder'
<1>1. ASSUME NEW w \in Workers, Work(w) PROVE CloseOrder'
  <2>1. UNCHANGED <<chClosed, mainPc, hpc>>
    BY <1>1 DEF Work, WorkerStep, TakeMessage, ExitLoop, Claim, Clone, MarkParsing, Parse,
       MarkGenerating, Generate, Store, StatusUpdate, handlerVars
  <2> QED
    BY <2>1 DEF CloseOrder
<1>2. CASE Sweep
  BY <1>2 DEF Sweep, SweepStep, SweepQuery, SweepSend, SweepExit, CloseOrder,
     handlerVars, runtimeVars
<1>3. ASSUME NEW c \in Clients, Request(c) PROVE CloseOrder'
  <2>1. mainPc = "serving" /\ UNCHANGED mainPc
    BY <1>3 DEF Request
  <2>2. UNCHANGED runtimeVars
    BY <1>3 DEF Request, NewRequest, SubmitJob, RemoveJobById
  <2> QED
    BY <2>1, <2>2 DEF CloseOrder, runtimeVars
<1>4. ASSUME NEW c \in Clients, Handler(c) PROVE CloseOrder'
  BY <1>4 DEF Handler, HandlerStep, Enqueue, Delete, Respond, Handle, CloseOrder,
     TypeOK, HandlerTypeOK, runtimeVars
<1>5. CASE BeginShutdown \/ CloseCh \/ Signal \/ Restart
  BY <1>5 DEF BeginShutdown, CloseCh, Signal, Restart, Drained, CloseOrder,
     handlerVars, runtimeVars
<1>6. CASE Exit \/ Crash \/ Panic
  BY <1>6 DEF Exit, Crash, Panic, Die, CloseOrder
<1>7. CASE UNCHANGED vars
  BY <1>7 DEF CloseOrder, vars, handlerVars, runtimeVars
<1> QED
  BY <1>1, <1>2, <1>3, <1>4, <1>5, <1>6, <1>7 DEF Next, MainStep

\* When every request ends within the five seconds of srv.Shutdown, no handler
\* is left when main closes the channel.
THEOREM CloseIsSafe == "slow" \notin Faults => (Spec => []NoSendAfterClose)
<1> SUFFICES ASSUME "slow" \notin Faults PROVE Spec => []NoSendAfterClose
  OBVIOUS
<1>1. Init => CloseOrder
  BY DEF Init, RuntimeInit, CloseOrder
<1>2. TypeOK /\ CloseOrder /\ [Next]_vars => CloseOrder'
  BY NextCloseOrder
<1>3. CloseOrder => NoSendAfterClose
  BY DEF CloseOrder, NoSendAfterClose
<1> QED
  BY <1>1, <1>2, <1>3, TypeCorrect, PTL DEF Spec

\* A worker leaves its loop when the channel is closed and empty, and nobody
\* can fill it any more.
ExitedDrained ==
    \A w \in Workers : wpc[w] = "exited" => chClosed /\ jobCh = << >>

LEMMA NextExitedDrained ==
  ASSUME TypeOK, ExitedDrained, [Next]_vars
  PROVE  ExitedDrained'
<1>1. ASSUME NEW w \in Workers, Work(w) PROVE ExitedDrained'
  <2> USE DEF Work, WorkerStep
  <2>1. CASE TakeMessage(w)
    BY <2>1 DEF TakeMessage, Receive, ExitedDrained, TypeOK, WorkerTypeOK
  <2>2. CASE ExitLoop(w)
    BY <2>2 DEF ExitLoop, LoopEnds, Goto, ExitedDrained
  <2>3. CASE ~TakeMessage(w) /\ ~ExitLoop(w)
    <3>1. UNCHANGED <<jobCh, chClosed>>
      BY <1>1, <2>3 DEF Claim, Clone, MarkParsing, Parse, MarkGenerating, Generate, Store,
         StatusUpdate
    <3>2. \/ Return(w)
          \/ \E pc \in Holding : wpc' = [wpc EXCEPT ![w] = pc]
      BY <1>1, <2>3 DEF Claim, Clone, MarkParsing, Parse, MarkGenerating, Generate, Store,
         StatusUpdate, Goto, Holding
    <3>3. \A v \in Workers : wpc'[v] = "exited" => wpc[v] = "exited"
      BY <3>2 DEF Return, Holding, TypeOK, WorkerTypeOK
    <3> QED
      BY <3>1, <3>3 DEF ExitedDrained
  <2> QED
    BY <2>1, <2>2, <2>3
<1>2. CASE UNCHANGED <<workerVars, jobCh, chClosed>>
  BY <1>2 DEF ExitedDrained, workerVars
<1>3. CASE Sweep
  BY <1>3 DEF Sweep, SweepStep, SweepQuery, SweepSend, SweepExit, TrySend, ExitedDrained,
     workerVars, runtimeVars
<1>4. ASSUME NEW c \in Clients, Request(c) PROVE ExitedDrained'
  <2>1. UNCHANGED <<workerVars, runtimeVars>>
    BY <1>4 DEF Request, NewRequest, SubmitJob, RemoveJobById
  <2> QED
    BY <1>2, <2>1 DEF runtimeVars
<1>5. ASSUME NEW c \in Clients, Handler(c) PROVE ExitedDrained'
  BY <1>5 DEF Handler, HandlerStep, Enqueue, Delete, TrySend, ExitedDrained,
     workerVars, runtimeVars
<1>6. CASE CloseCh
  BY <1>6 DEF CloseCh, ExitedDrained, workerVars
<1>7. CASE BeginShutdown \/ Signal \/ Restart \/ UNCHANGED vars
  BY <1>2, <1>7 DEF BeginShutdown, Signal, Restart, vars, runtimeVars
<1>8. CASE Exit \/ Crash \/ Panic
  BY <1>8 DEF Exit, Crash, Panic, Die, ExitedDrained
<1> QED
  BY <1>1, <1>3, <1>4, <1>5, <1>6, <1>7, <1>8 DEF Next, MainStep

\* The process exits only when its channel is empty.
THEOREM ExitsDrained == Spec => ExitDrains
<1>1. Init => ExitedDrained
  BY DEF Init, WorkerInit, ExitedDrained
<1>2. TypeOK /\ ExitedDrained /\ [Next]_vars => ExitedDrained'
  BY NextExitedDrained
<1>3. TypeOK /\ ExitedDrained /\ [Next]_vars => [proc' = "exited" => jobCh = << >>]_vars
  <2> SUFFICES ASSUME TypeOK, ExitedDrained, Next, proc' = "exited"
               PROVE  jobCh = << >>
    OBVIOUS
  <2>1. Exit
    BY DEF Next, MainStep, Work, WorkerStep, Sweep, SweepStep, SweepQuery, SweepSend, SweepExit,
       Request, NewRequest, SubmitJob, RemoveJobById, Handler, HandlerStep, Enqueue, Delete,
       BeginShutdown, CloseCh, Signal, Crash, Panic, Restart, Die, runtimeVars
  <2> QED
    BY <2>1, WorkersAssumption DEF Exit, ExitedDrained
<1> QED
  BY <1>1, <1>2, <1>3, TypeCorrect, PTL DEF Spec, ExitDrains

=============================================================================
