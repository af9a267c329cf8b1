------------------------------- MODULE Worker -------------------------------
(***************************************************************************)
(* The worker goroutines: StartWorker ranges over the job channel, and     *)
(* processJob takes one message through claim, clone, parse, generate and  *)
(* store.  wpc[w] is the next database call or stage of worker w.          *)
(*                                                                         *)
(* Status updates run under context.Background(): they are not stopped by  *)
(* the cancellation that stops the stages and the store transaction.       *)
(***************************************************************************)
EXTENDS Runtime

CONSTANTS
    Cloneable,    \* the repository URLs that validateRepoURL accepts
    HasApiKey     \* GEMINI_API_KEY is set

ASSUME CloneableAssumption == Cloneable \subseteq RepoURLs
ASSUME HasApiKeyAssumption == HasApiKey \in BOOLEAN

VARIABLES
    wpc,          \* wpc[w]: where worker w is
    wmsg,         \* wmsg[w]: the message it processes, NoMsg between messages
    wdocs         \* wdocs[w]: the documents it has generated

workerVars == <<wpc, wmsg, wdocs>>

StageFault == "stage" \in Faults

\* The program points of processJob once the claim has succeeded.
Holding == {"clone", "markParsing", "parse", "markGenerating", "generate", "store", "hung"}

WorkerPc == Holding \cup {"idle", "claim", "exited"}

WorkerTypeOK ==
    /\ wpc \in [Workers -> WorkerPc]
    /\ wmsg \in [Workers -> Message \cup {NoMsg}]
    /\ wdocs \in [Workers -> SUBSET DocTypes]

WorkerInit ==
    /\ wpc = [w \in Workers |-> "idle"]
    /\ wmsg = [w \in Workers |-> NoMsg]
    /\ wdocs = [w \in Workers |-> {}]

Goto(w, pc) == wpc' = [wpc EXCEPT ![w] = pc] /\ UNCHANGED <<wmsg, wdocs>>

\* Mutant of Return: the documents outlive the call of processJob.
ReturnWithDocs(w) ==
    /\ wpc' = [wpc EXCEPT ![w] = "idle"]
    /\ wmsg' = [wmsg EXCEPT ![w] = NoMsg]
    /\ UNCHANGED wdocs

\* processJob returns, with an error or without: either way StartWorker only
\* logs and takes the next message.
Return(w) ==
    /\ wpc' = [wpc EXCEPT ![w] = "idle"]
    /\ wmsg' = [wmsg EXCEPT ![w] = NoMsg]
    /\ wdocs' = [wdocs EXCEPT ![w] = {}]

-----------------------------------------------------------------------------
\* for msg := range jobs
TakeMessage(w) ==
    /\ wpc[w] = "idle"
    /\ \E m \in Message :
        /\ Receive(m)
        /\ wmsg' = [wmsg EXCEPT ![w] = m]
    /\ wpc' = [wpc EXCEPT ![w] = "claim"]
    /\ UNCHANGED <<wdocs, chClosed, tableVars>>

\* Mutant of LoopEnds: the loop selects on ctx.Done() as well.
LoopEndsOnCancel == ctxDone \/ (chClosed /\ jobCh = << >>)

\* Mutant of LoopEnds: a receive that does not notice that the channel is closed.
LoopNeverEnds == FALSE

\* The range loop ends when the channel is closed and its buffer is empty.
LoopEnds == chClosed /\ jobCh = << >>

ExitLoop(w) ==
    /\ wpc[w] = "idle"
    /\ LoopEnds
    /\ Goto(w, "exited")
    /\ UNCHANGED <<jobCh, chClosed, tableVars>>

\* Mutant of StatusUpdate: affectedRows is not looked at.
StatusUpdateIgnoresRows(w, matches, update, next) ==
    /\ \/ update /\ Goto(w, next)
       \/ ~matches /\ Goto(w, next) /\ UNCHANGED tableVars
    /\ UNCHANGED <<jobCh, chClosed>>

\* Mutant of StatusUpdate: the updates are part of the transaction of the
\* store, which the end of the process rolls back.
StatusInTransaction(w, matches, update, next) ==
    /\ IF matches THEN Goto(w, next) ELSE Return(w)
    /\ UNCHANGED <<jobCh, chClosed, tableVars>>

\* A status update of processJob.  update is the statement when it matches a
\* row: then the worker goes to next, unless the reply is lost and it returns
\* with the row changed.  It returns with nothing changed when no row matches
\* or the statement fails.
StatusUpdate(w, matches, update, next) ==
    /\ \/ update /\ Goto(w, next)
       \/ DbFault /\ update /\ Return(w)
       \/ (DbFault \/ ~matches) /\ Return(w) /\ UNCHANGED tableVars
    /\ UNCHANGED <<jobCh, chClosed>>

Claim(w) ==
    /\ wpc[w] = "claim"
    /\ StatusUpdate(w, Claimable(wmsg[w]), UpdateJob(wmsg[w], "cloning"), "clone")

MarkParsing(w) ==
    /\ wpc[w] = "markParsing"
    /\ StatusUpdate(w, Owned(wmsg[w].job, wmsg[w].user),
                    SetJobStatus(wmsg[w], "parsing"), "parse")

MarkGenerating(w) ==
    /\ wpc[w] = "markGenerating"
    /\ StatusUpdate(w, Owned(wmsg[w].job, wmsg[w].user),
                    SetJobStatus(wmsg[w], "generating"), "generate")

\* Clone: git runs under ctx, so it fails once ctx is cancelled.
Clone(w) ==
    /\ wpc[w] = "clone"
    /\ \/ ~ctxDone /\ wmsg[w].repo \in Cloneable /\ Goto(w, "markParsing")
       \/ (StageFault \/ ctxDone \/ wmsg[w].repo \notin Cloneable) /\ Return(w)
    /\ UNCHANGED <<jobCh, chClosed, tableVars>>

\* ScanFiles, ParseFiles, BatchFiles, NewAdkGenerator.  When ctx is cancelled,
\* ParseFiles returns the files it has, or never returns: its feeder goroutine
\* stops without closing pathCh and the readers wait on it.
Parse(w) ==
    /\ wpc[w] = "parse"
    /\ \/ Goto(w, "markGenerating")
       \/ (StageFault \/ ctxDone) /\ Return(w)
       \/ ctxDone /\ Goto(w, "hung")
    /\ UNCHANGED <<jobCh, chClosed, tableVars>>

\* One Generate per document type.  A call that fails is skipped; processJob
\* gives up only when all of them fail.
Generate(w) ==
    /\ wpc[w] = "generate"
    /\ HasApiKey
    /\ \E docs \in SUBSET DocTypes :
        /\ docs = DocTypes \/ StageFault \/ ctxDone
        /\ IF docs = {}
           THEN Return(w)
           ELSE /\ wpc' = [wpc EXCEPT ![w] = "store"]
                /\ wdocs' = [wdocs EXCEPT ![w] = docs]
                /\ UNCHANGED wmsg
    /\ UNCHANGED <<jobCh, chClosed, tableVars>>

\* Without an API key gen is nil, and the first call of it panics.
NilGenerator(w) == wpc[w] = "generate" /\ ~HasApiKey

\* StoreResults: the transaction commits, or leaves no trace.  processJob
\* returns in any case, also when the commit succeeds and its reply is lost.
Store(w) ==
    /\ wpc[w] = "store"
    /\ \/ ~ctxDone /\ StoreTx(wmsg[w], wdocs[w])
       \/ /\ DbFault \/ ctxDone \/ ~Owned(wmsg[w].job, wmsg[w].user)
          /\ UNCHANGED tableVars
    /\ Return(w)
    /\ UNCHANGED <<jobCh, chClosed>>

WorkerStep(w) ==
    /\ \/ TakeMessage(w) \/ ExitLoop(w)
       \/ Claim(w) \/ Clone(w) \/ MarkParsing(w) \/ Parse(w)
       \/ MarkGenerating(w) \/ Generate(w) \/ Store(w)
    /\ UNCHANGED <<ctxDone, proc>>

=============================================================================
