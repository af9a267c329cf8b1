# PingGoat in TLA+

PingGoat turns a GitHub repository into documentation. A client submits a URL, a
background worker clones the repository, reads its files, asks Gemini for the
documents and stores them in PostgreSQL. This directory holds the specifications
of that program, the TLC configurations that check them on small instances, and
the TLAPS proofs of what holds for every instance.

Contents: [1 Inventory](#1-inventory) · [2 Modules](#2-modules) · [3 How the
models correspond to the code](#3-how-the-models-correspond-to-the-code) · [4
Runs](#4-runs) · [5 Fairness](#5-fairness) · [6 Proofs](#6-proofs) · [7 Where
the documents and the code
disagree](#7-where-the-documents-and-the-code-disagree) · [8 Not
modelled](#8-not-modelled) · [9 Plan](#9-plan)

Paths are relative to the repository.

## 1 Inventory

| component | source | state | operations |
|---|---|---|---|
| process | `cmd/api/main.go` | the job channel, the context that SIGINT/SIGTERM cancel, the wait group | start, signal, `srv.Shutdown` (5 s), `close(jobCh)`, `wg.Wait`, exit |
| tables and queries | `sql/schema`, `internal/database` | rows of jobs, documents, doc_cache, users | the sqlc queries, one statement each |
| jobs handler | `internal/handler/jobsHandler.go` | one goroutine per request | SubmitJob, ListJobs, GetJobById, RemoveJobById |
| worker pipeline | `internal/pipeline/worker.go` | one goroutine per worker: the message it has, where it is | receive, claim, clone, parse, generate, store |
| recovery sweep | `internal/pipeline/recovery.go` | one goroutine: the snapshot it is sending | tick, query, send, exit |
| store | `internal/pipeline/store.go` | a transaction | upsert cache and documents, complete, commit |
| parser | `internal/pipeline/parser.go` | feeder, readers, closer, two channels | hand out, read, deliver, close, collect |
| cloner | `internal/pipeline/cloner.go` | a temporary directory | validate, clone, rev-parse, clean up |
| scanner, batcher, prompts | `internal/pipeline/{scanner,batcher,prompt}.go` | local: the files found, the open batch, inside an import block or not | walk, sort and pack, select and extract |
| generator, rate limiter | `internal/gemini` | a ticker per job, with a buffer of one tick | wait, call, give up on cancellation, stop |
| auth | `internal/handler/authHandler.go`, `internal/middleware/auth.go` | the users table; the token a client holds | register, login, check a token |
| configuration, HTTP helpers | `internal/config`, `internal/httputil` | none | read the environment; write responses |

**Interactions.** Handlers, sweep and workers share two things. One is the *jobs
table*: every change of a job is one SQL statement, or the one transaction of
the store. The other is the *job channel*, a buffer with as many places as there
are workers. A submitting handler and the sweep send to it without blocking and
drop the message when it is full; workers range over it. The table is the truth
and the channel is a hint: a message may be missing (dropped, lost in a crash),
repeated (offered again on every tick) or stale (its job was claimed or deleted
since), and the conditional claim `UPDATE ... WHERE status = 'queued'` is what
makes up for all three.

**What is hard.** The interleavings of several workers, the sweep and the
handlers over stale messages; a check and a delete in two statements; statements
whose reply is lost; stages that fail in mid-pipeline; the order of cancel,
drain and close at shutdown, with a channel that panics when it is sent to after
the close; a crash at any point; the oldest-first window of the sweep; the
fan-out of the parser under cancellation; the transactions of several workers
that write the same cache rows while their jobs are deleted; pages that move
under the client that walks through them; directories and tickers that are
released by deferred calls, or not at all. `PROJECT.json` lists these hazards
with their lines and the properties that watch them.

**What makes it correct.**

- tables: a job's documents and `gemini_calls_used` agree with its status at
  every moment a client can look (`DocsIffCompleted`);
- workers: a job is processed by one worker (`OneHolder`) and its status says
  where that worker is (`HolderInStage`), for which an unconditional
  `SetJobStatus` has to be harmless;
- messages: whatever is on its way was made from a row and still fits it
  (`MessagesFaithful`);
- sweep and channel together: no queued job is forgotten (`QueuedIsServed`,
  `SubmittedCompletes`);
- handlers: a row goes away only for its own user (`OnlyOwnerDeletes`);
- process: the shutdown order leaves nobody to send on the closed channel
  (`NoSendAfterClose`), takes every message out (`ExitDrains`) and ends
  (`ShutdownEnds`); a job that panics the process does so once (`NoCrashLoop`);
- parser: each file once, no file missing from an uncancelled call, no send on
  the closed result channel (`EachFileOnce`, `CompleteUnlessCancelled`,
  `NoDeliveryAfterClose`);
- store: all of a job's results or none, also for whoever looks between two
  statements (`AllOrNothing`, `CacheFromCommitted`, `AtomicSpec`); no store
  loses its job once it has written (`RowIsKept`), and stores and deletes never
  wait in a circle (`WaitsUpward`, `NobodyWaitsForEver`);
- scanner, batcher, prompts: the first files worth reading, each in one batch,
  no more batches than their order needs, and the right lines in the right
  prompt (`ScanTakesFirst`, `EachFileInABatch`, `PackedTight`, `PromptsExact`);
- cloner: a directory is there as long as it is used and, unless the process
  dies, no longer (`HasItsDir`, `DirsOwned`);
- rate limiter: calls of a worker keep their distance, and none waits for a
  stopped ticker (`Spacing`, `TickSoon`);
- accounts and lists: an email has one owner (`FirstWins`), who sees only own
  jobs (`OnlyOwnJobs`), in pages without gaps (`NoneSkipped`) or repetitions
  (`NoneTwice`);
- as a whole: the life of a job (`JobLifecycle`), which the pipeline implements.

## 2 Modules

```
            JobTable          rows and queries -------- AtomicStore
               |                                             ^ implements
            Runtime           channel, context, faults       |
          /    |     \                                  StoreResults
     Worker  Recovery  JobsHandler                           |
          \   Sweep  /                                  StoreProofs
            PingGoat ------ implements ----> JobLifecycle
           /        \
      Claims      PingGoatProofs            Accounts   ListJobs
        |               |                         \     /
   MCPingGoat     LifecycleProofs                   Api --- ApiProofs

     ScanFiles  ParseFiles  BatchFiles  BuildPrompt         JobRun
           \      /     \__________/_________/                |
         RepoFiles --- implements ----> ParseCall        JobRunProofs
             |
         FileProofs
             |
   RepoProofs (with ParseFilesProofs)
```

| module | models |
|---|---|
| `JobTable` | the jobs and documents tables and every query that changes a job |
| `Runtime` | the channel with its non-blocking send, the context, the faults of the environment |
| `Worker` | `StartWorker` and `processJob`; the store as one atomic transaction |
| `RecoverySweep` | `StartRecoverySweep` |
| `JobsHandler` | `SubmitJob` and `RemoveJobById` |
| `PingGoat` | `main`: everything above composed, shutdown, crash, panic and restart; the properties |
| `JobLifecycle` | abstract: what the pipeline promises about a job |
| `Claims` | statements of comments and documents that the program does not live up to |
| `AtomicStore` | abstract: a store and a DELETE in one step each, the store being `JobTable!StoreTx` and its cache rows |
| `StoreResults` | `StoreResults` statement by statement for several workers at once, row locks, rollback, and the DELETE that waits |
| `ParseFiles` | the goroutines and channels inside `ParseFiles` |
| `ParseCall` | abstract: what a caller of `ParseFiles` sees, which is what `Worker!Parse` assumes |
| `ScanFiles`, `BatchFiles`, `BuildPrompt` | the pure functions of that name, as operators |
| `RepoFiles` | what `processJob` does with the files of a clone: scan, parse, batch, prompt |
| `JobRun` | what a call of `processJob` holds besides its row: clone directory and rate limiter, in time |
| `Accounts` | the users table, `Register`, `Login`, tokens and `JWTAuth` |
| `ListJobs` | `ListJobs` in its two statements, page arithmetic, `GetJobById`, and a client that walks through the pages |
| `Api` | the routes: accounts and lists behind the middleware |
| `MC...` | small instances and symmetry for TLC; `MCJobRun` also has a claim about the rate |
| `PingGoatProofs` | theorems about `PingGoat`: invariants and what a step may not do |
| `LifecycleProofs` | theorem: `PingGoat` implements `JobLifecycle` |
| `StoreProofs` | theorems about `StoreResults`, and that it implements `AtomicStore` |
| `ParseFilesProofs` | theorems about `ParseFiles` alone |
| `FileProofs` | what the scan, `BatchFiles` and `BuildPrompt` compute, for every input |
| `RepoProofs` | theorems about all four as `processJob` calls them |
| `JobRunProofs`, `ApiProofs` | theorems about `JobRun` and `Api` |

Definitions called a *mutant* in their comment are not part of a model. Each is
a plausible bug (a dropped `WHERE`, an off-by-one, a loop that selects on the
wrong channel) in the place of the definition after it; the property that
`PROJECT.json` pairs it with fails under it, which shows that the property
depends on that piece of code.

## 3 How the models correspond to the code

`PROJECT.json`, under "map", gives the lines of every definition.

**Steps.** A step is what one goroutine does between two points at which others
can see or disturb it: a statement, a channel operation, a stage. Local work and
logging join the step before it.

**Tables** (`JobTable`). Job *k* is the *k*-th row inserted: ids never repeat
and `created_at` grows, so "the oldest" is the smallest id. A deleted row has
status `"absent"`; `row[j]` keeps the values it had, which no query updates, so
that properties can speak about stale messages. `documents[j]` is the set of
document types stored, enough for all that is asked about documents. Unchanged
replies (`rows = 0`, `ErrNoRows`) are the guards `Claimable` and `Owned`.

**Statements that fail.** With the fault `"db"`, a statement may fail without
effect, or take effect while its reply is lost (the connection drops, or a
context ends between commit and answer). Both are alternatives of
`StatusUpdate`, `Store`, `SubmitJob` and `Delete`. A *failed* statement that
leaves the state as it was and returns to where the goroutine started (the query
of a tick, a refused request) is a stuttering step and not written.

**Contexts.** `processJob` updates statuses under `context.Background()`, and
clones, parses, generates and stores under the context that SIGTERM cancels.
Hence `MarkParsing` works after the signal, `Clone` does not, and `Store` rolls
back. `RecoverySweep` reads under the cancelled context too.

**Stages.** `Clone` can fail, does fail on a URL that `validateRepoURL` refuses
(`repo \notin Cloneable`) and when cancelled. `Parse` stands for `ScanFiles`,
`ParseFiles`, `BatchFiles` and `NewAdkGenerator`; it may succeed, fail, or, when
cancelled, never return: `ParseFiles` shows why. `Generate` yields the set of
documents whose calls succeeded and returns an error only if that set is empty.

**Channel.** `jobCh` is a sequence with room for `Capacity` messages, one per
worker. A send to a worker that already waits is a send followed by a receive.
`TrySend` is the select with a `default`. A send on the closed channel panics:
in a handler net/http recovers it and the row stays queued (`Enqueue`), in the
sweep nothing recovers it (`SweepSendsOnClosed`, `Panic`).

**End of the process.** `Die` resets all that lives in memory to its initial
value and leaves the tables; `Restart` only makes the process run again. A
transaction in flight rolls back, for it is one step. `proc` tells how the
process ended.

**Shutdown.** `Signal` cancels the context; `main` wakes up (`BeginShutdown`),
from when no request starts; `CloseCh` waits for the handlers, or for five
seconds (fault `"slow"`); workers drain the buffer and leave; `Exit` needs the
workers and the sweep. A second signal changes nothing: `signal.NotifyContext`
has taken it and `stop` is only called on return.

**Parser** (`ParseFiles`). `pathCh` and `resultCh` are unbuffered, so a send and
its receive are one step: `Feed` needs a reader at its receive, and `Deliver`
appends to what the caller has. A select with two ready cases takes either. The
context may be cancelled before the call or at any time during it.

**Store** (`StoreResults`). Each statement of `store.go:51-91` is an action.
What a transaction has written is private to it (`docsDone`, `cacheDone`) until
`Commit` copies it into the tables, which hold committed data only. Two locks
matter. The first document takes a key share lock on the row of its job, by the
foreign key, so that a DELETE waits (`KeyShared`); and an upsert of a cache row
makes the same upsert of another transaction wait (`CacheRowFree`). `Fail` is
any statement that fails, a cancelled context or a crash; locks stay until
`Rollback`. The DELETE of this model had its check of the status answered before
the job was claimed. A transaction has the name of its job because by
`OneHolder` one worker stores a job, and its job is in `generating` because of
`HolderInStage`: both are theorems of `PingGoatProofs`. All jobs of a repository
have the same commit, or they would not meet in the cache.

**Files** (`RepoFiles`). `ScanFiles`, `BatchFiles` and `BuildPrompt` run in one
goroutine on local data and are operators, each applied in one step of
`processJob`; `ParseFiles` runs step by step between them. A tree is the
sequence of its entries in the order of `filepath.WalkDir`, with depths and
kinds; a text is a sequence of lines that are told apart as far as
`extractImports` does. Sizes, tiers, texts and the documents that a path is for
are chosen where they are first used, as any values: nothing before that depends
on them.

**What a job holds** (`JobRun`). Time is discrete: a minute has `Minute` units
and tickers tick on time. The ticker's channel keeps one tick and drops others
(`Tick`). All returns of `processJob` go through `Return`, the deferred calls;
`Clone` cleans up by itself on its error paths (`CloneFails`). A crash keeps the
directories (`left`), and the next process starts with none of its own. `Hang`
is the worker that `ParseFiles` never returns to.

**Accounts and lists** (`Api`). An email stands for its row and for the id in a
token, a password for its hash. `ListJobs` is two statements with anything in
between. The client is not part of the repository: it asks for the first page
and goes on while the meta of the answers says that there is more. `walk`
records what has disturbed it, so that the properties can say which disturbances
do harm.

## 4 Runs

| run | instance | checks | shows |
|---|---|---|---|
| `Safety` | 2 workers, 2 jobs, 2 users, 2 document types, all faults; 1.0 M states, 70 s | `TypeOK`, `OneHolder`, `HolderInStage`, `DocsIffCompleted`, `MessagesFaithful`, `IInv`; `OnlyOwnerDeletes`, `ExitDrains`, `LifecycleSpec` | the safety of the pipeline, that the invariant of the proofs is one, and that the pipeline implements `JobLifecycle` |
| `Served` | 2 workers, 2 jobs, stage failures, signals, crashes; 0.2 M states | `NoSendAfterClose`, `QueuedIsServed`, `ShutdownEnds` | dropped and lost messages come back; a shutdown that waited for its handlers closes safely, and ends unless a worker hangs |
| `Completes` | 1 worker, 3 jobs, capacity 1, no faults | `SubmittedCompletes` | the same, up to the documents |
| `NoKey` | no API key, 2 jobs, a supervisor | `NoCrashLoop` | a job panics the process at most once |
| `Store` | 2 jobs, 2 repositories, 3 document types in their order; 0.15 M states | `TypeOK`, `AllOrNothing`, `RowIsKept`, `CacheFromCommitted`, `WaitsUpward`; `AtomicSpec`, `NobodyWaitsForEver` | the statements of the store are the atomic step that `Worker!Store` takes, and nobody waits for ever |
| `RepoFiles` | all trees of 5 entries, 3 readers, 4 paths of which one is unreadable, 2 tiers, 4 sizes around the budget; 0.2 M states, 45 s | `TypeOK`, `EachFileOnce`, `CompleteUnlessCancelled`, `NoDeliveryAfterClose`, `ScanTakesFirst`, `EachFileInABatch`, `PackedTight`, `PromptsExact`; `ParseCallSpec` | no file is lost, doubled or misplaced from the clone to the prompts; the fan-out has the outcomes of `ParseCall` |
| `JobRun` | 2 workers, 3 directories, 2 calls per 4 units of time, 3 calls per job, 7 units; 2.7 M states | `TypeOK`, `Spacing`, `TickSoon`, `DirsOwned`, `HasItsDir` | directories and tickers are there when needed and released |
| `Api` | 2 users, 2 passwords, 3 jobs, pages of 2 or 3; 4.2 M states, 70 s | `TypeOK`, `FirstWins`, `OnlyOwnJobs`, `NoneSkipped`, `NoneTwice` | accounts, tokens and pages under concurrent registrations, inserts and deletes |
| `StoreFails`, `ShutdownHangs`, `ClosePanics`, `Rpm` | 1 or 2 jobs; the instance of `JobRun` | one statement of `Claims` or `MCJobRun` each | a counterexample, see section 7 |

**Bounds.** *Two workers and two jobs* give every pair of workers one job, one
worker two jobs in a row, and more messages than places in the channel: with
`SubmitJob` and the sweep both sending, the buffer of two is full of copies of
one job while the other is dropped. `Completes` has three jobs, one place and a
sweep that sees one row, so that a job is behind two others. *One client* is
enough for a request to interleave with everything else, since handlers share no
memory; two requests at once add two copies of one message or two deletes, which
the sweep's copies and a second request after the first already give. `MaxJobs`
bounds the rows ever inserted, and is the one bound on the environment: an
unbounded stream of newer jobs is not explored, and could not starve an older
one, since the sweep reads the oldest first. *SweepLimit* is 1 rather than 50,
so that the limit is met. *Two document types* let some calls of a run fail
while others succeed. The runs under fairness have one user and one document
type: neither is looked at by progress.

*Two stores* can wait for each other in both directions, with the same and with
different repositories; a longer circle of waits would need more, and is
excluded by `WaitsUpward`, which is proved for any number. Three document types
are the code's; any of them may have failed. *Trees of five entries* have a
skipped directory with contents and a file behind it, directories in
directories, and more files than the cap of four. The sizes 3, 4, 11 and 12 are
below and at the multiples of four at which `len/4` changes, so that a file is
empty to the estimate, is small, just fits the budget of 2 and exceeds it. Texts
have up to two import declarations with a block of one line, and one line of
body. In `JobRun` a worker can finish a job and begin another while its last
calls still count, and a tick can wait while a job works; the third directory is
the first of a second process or another worker's. In `Api` the parameters are
no number, zero, one, two and far too large; with three jobs the last page is
full or not; 2 and 3 stand for the page sizes 20 and 100. The token lives one
hour and expires in the middle of walks.

`CHECK_DEADLOCK FALSE` is set where the system may stop: in `Completes` once all
jobs are done and deleted, in `NoKey` when nothing is left but a deleted or a
stranded job, in `Store` when all is stored or deleted, in `RepoFiles` when the
job is done, failed or hangs, in `JobRun` when time is over, and in the runs
that refute a claim. In the other runs signals, crashes and restarts go on for
ever.

## 5 Fairness

`FairSpec` assumes weak fairness of every worker, of the sweep, of every running
handler, of `main` and of a panic that is due: the Go scheduler runs every
goroutine that can run, and an operation that stays possible is done. For the
sweep it says that the 30 s ticker ticks. It also says that a stage ends: git is
stopped by its 120 s timeout, file reads end, and a Gemini call is *assumed* to
return, since its request has no timeout of its own. Within an action all
outcomes are possible at any time, so fairness never forces a success; in
`Completes` there are no faults, which leaves success as the only outcome.

Nobody else owes anything: clients need not send, nor a signal or a crash come.
`Restart` is fair in `SupervisedSpec` only, which `NoKey` uses; the repository's
`docker-compose.yml` has no restart policy. `QueuedIsServed` therefore asks only
about behaviours in which the process is finally up for good (`<>[]Running`). A
system that crashes for ever before the first claim serves nobody.

The sweep's fairness is one condition over query and send. That is enough: each
of its steps is possible until it is taken, and no other goroutine disables it,
but for a query when the last queued job is claimed or deleted.

In `StoreResults` a statement that need not wait is executed, and so are a
rollback and a DELETE (weak fairness per job): PostgreSQL grants a lock that is
free. `Begin` and `Fail` owe nothing, so `NobodyWaitsForEver` cannot count on a
failure to free a lock. In `ParseFiles` and `RepoFiles` the goroutines of the
call run until they block; nobody has to cancel. `JobRun` and `Api` state no
fairness: their properties are safety, and that a tick comes soon is said with
the clock (`TickSoon`).

## 6 Proofs

`PingGoatProofs` and `LifecycleProofs` are checked by TLAPS for any number of
jobs, workers, clients and documents and any subset of the faults. They use the
assumptions of the modules on their constants: `Workers` is finite and not
empty, `DocTypes` is finite, `NoMsg` is not a message, `Cloneable` and
`Prefixed` are sets of URLs.

| theorem | statement |
|---|---|
| `Inductive` | `Spec => []IInv` |
| `TypeCorrect` | `Spec => []TypeOK`, with it the channel's capacity |
| `MutualExclusion` | `Spec => []OneHolder` |
| `HolderKnowsStage` | `Spec => []HolderInStage` |
| `DocumentsAtomic` | `Spec => []DocsIffCompleted` |
| `MessagesAreRows` | `Spec => []MessagesFaithful` |
| `OwnersDelete` | `Spec => OnlyOwnerDeletes` |
| `CloseIsSafe` | `"slow" \notin Faults => (Spec => []NoSendAfterClose)` |
| `ExitsDrained` | `Spec => ExitDrains` |
| `Refinement` | `Spec => LifecycleSpec` |
| `DroppedForEver` | `Spec => DroppedStays` |

**The argument.** None of the invariants is inductive alone; `IInv` is their
conjunction with `Shape`.

1. `MutualExclusion` depends on the claim, and the claim is safe because a
   queued job has no holder. That is `HolderInStage`: a holder's job is in
   cloning, parsing or generating.
2. `HolderInStage` has to survive `SetJobStatus`, which overwrites any status.
   Only a holder calls it, and by `OneHolder` nobody else's job is disturbed.
   The deletion of a held job is the exception `"absent"`.
3. `DocsIffCompleted` has to survive the same overwriting. By `HolderInStage`
   the job of a holder is never completed, so it has no documents to disagree
   with; and the store adds a set of documents that is not empty (`Shape`) to
   none, so that the count in the row is right.
4. All of it needs the user in a message to be the user of the row
   (`MessagesFaithful`), or a `WHERE user_id` might fail to match.

The lemmas follow the actions, one per action or family of actions (`ClaimStep`,
`StatusStep`, `StoreStep`, `DeletePreserves`, `DiePreserves`, ...), with
`SendEffect` and `ReceiveEffect` for the channel and `QueriesTypeOK` for the
tables; `NextIInv` puts them together.

`CloseIsSafe` has an invariant of its own, `CloseOrder`: a closed channel means
that `main` is draining, and while it drains every handler is idle, for no
request starts once `srv.Shutdown` is called.

`Refinement` maps a job's abstract holders to the workers that are past the
claim with a message of that job, and the jobs submitted to the rows inserted.
Given `IInv`, a claim is a `Claim` (the job has no holder), `SetJobStatus` is an
`Advance` (its caller is the only holder and the job is one stage behind), a
commit is a `Complete` (the documents replace the empty set), a stage that fails
abandons one job and the end of the process all of them. Everything else
stutters.

`DroppedForEver` is drawn from the refinement: no step of `JobLifecycle` but a
deletion moves a job that is submitted, not queued and without a holder
(`LifecycleLeaves`), so no step of the pipeline does, however old its message is
and whatever was restarted. It has no run of its own: `Safety` checks the
refinement that it follows from. For a completed job that is what one wants; for
a job that a crash or a failed stage has left in `cloning`, `parsing` or
`generating` it says that the client polls for ever (see `StoreFails` in section
7).

`ExitsDrained` rests on `ExitedDrained`: a worker leaves its loop when the
channel is closed and empty, and a closed channel cannot be filled.

`StoreProofs` holds for any number of jobs, users and repositories, any finite
set of document types and any order on them.

| theorem | statement |
|---|---|
| `StoreInductive` | `Spec => []StoreInv` |
| `StoreTypeCorrect` | `Spec => []TypeOK` |
| `StoresWhole` | `Spec => []AllOrNothing` |
| `WritersKeepTheirJob` | `Spec => []RowIsKept` |
| `CacheIsCommitted` | `Spec => []CacheFromCommitted` |
| `NoCircleOfWaits` | `Spec => []WaitsUpward` |
| `StoreRefinement` | `Spec => AtomicSpec` |

`StoreInv` says how far each transaction is (`Extent`: the documents it has
written are an initial part of its list, the cache rows follow one behind) and
that the status of a job follows from its transaction and its DELETE
(`StatusIs`). `RowIsKept` is what makes the commit an atomic step: a transaction
at its commit has a lock, so its job is still `generating`, and the documents it
copies are all of its list. A step inside a transaction leaves the committed
tables alone and stutters. For `WaitsUpward`, whoever has the cache row of *d*
has done all before *d* (`Extent`), so what it still waits for comes after.

`ParseFilesProofs` holds for any number of paths and readers, of which there is
at least one.

| theorem | statement |
|---|---|
| `ParseInductive` | `Spec => []ParseInv` |
| `ParseTypeCorrect` | `Spec => []TypeOK` |
| `FilesOnce` | `Spec => []EachFileOnce` |
| `ResultsSafe` | `Spec => []NoDeliveryAfterClose` |
| `Complete` | `Spec => []CompleteUnlessCancelled` |
| `CallSteps` | `Spec => CallSpec` |

`ParseInv` adds to `EachFileOnce` who has a path (`ReaderPaths`), that without a
cancellation every readable path is in the slice, with a reader or collected
(`NoneLost`), and who waits for whom (`Ends`: an uncancelled reader returns only
after the feeder has closed `pathCh`, which it does only after the last path;
`resultCh` is closed only after the last reader). When an uncancelled call
returns, nothing is left in the slice or with a reader, so everything is
collected. For `CallSteps`, a stuck call has no step left to take and an answer
is final.

`RepoProofs` carries this over to the call that `processJob` makes: a step of
`RepoFiles` is a step of `ParseFiles` or leaves its variables alone
(`RepoParses`), whatever trees, sizes and texts there are. Hence
`RepoFilesOnce`, `RepoComplete`, `RepoCalls` (`RepoSpec => CallSpec`), and
`RepoPromptsComplete`: the prompts of an uncancelled job are made from exactly
the readable files.

`FileProofs` holds for any clone, any limit of files, any token budget, any
sizes, tiers and documents, and any texts whose lines are what they say they
are. With `RepoProofs` it proves what a job does with its files:

| theorem | statement |
|---|---|
| `ScanRight` | `RepoSpec => []ScanTakesFirst` |
| `RepoBatchesAll` | `RepoSpec => []EachFileInABatch` |
| `RepoBatchesTight` | `RepoSpec => []PackedTight` |
| `RepoPromptsExact` | `RepoSpec => []PromptsExact` |

These are statements about loops over data of any length. Each loop is a
recursive function from the number of the round to what the loop has so far. The
induction theorems of the library are of no use here, since they take the
predicate as a parameter; but that `Nat` is well-founded (`NatLessThanWellFounded`
and `WFMin`) is first-order. It gives `LoopInduction`: a set that has 0, and *i*
whenever it has *i - 1*, has all rounds. The same argument shows first that the
recursive functions exist and obey their equations (`InOrderRuns`, `WalkRuns`,
`SelectRuns`, `ExtractRuns`, `SumsRun`, `FlattenRuns`, `BatchesRuns`). A reader
needs only the loop invariants:

- *Scan* (`WalkGood`). Up to entry *i* the walk has the wanted files in order;
  it skips exactly while one of the skipped directories before *i* still covers
  it (`Covers`), and it is full or has failed for good if a bound or a directory
  stopped it.
- *Sort* (`ByTierSorts`). `Place` maps the files one to one to their places, so
  the sorted slice is a permutation in the order of tier and arrival.
- *Packing* (`PackedTo`). After *i* files the closed batches and the open one are
  stretches of the sorted slice, one behind the other, each with its sum of
  tokens and in the budget or of one file, and no closed batch has room for the
  file behind it. `DrainCuts` closes the last one.
- *Fewest batches* (`FewestBatches`). A legal cut ends somewhere in each greedy
  batch but the last: otherwise one of its batches would hold all of the greedy
  one and the file behind it, and be over the budget (`CutMeetsBatch`). The
  greedy batches do not overlap, so these ends are different, and there are as
  many as greedy batches but one.
- *Imports* (`ImportsAreSpecs`). After *i* lines the automaton is in a block
  exactly if `InBlock` says so, and has kept the lines that name an import.

`BatchInv` and `PromptInv` say what `files` and `batches` are in the stages that
the properties look at; with `ParseInv`, `ScanInv` and `FilesReturned` they are
inductive. The constants carry three assumptions. A clone is a sequence of
entries with a depth of at least one (`TreesAssumption`), sizes and tiers are
natural numbers (`FilesAssumption`), and the lines of a text that name an import
are those with an import on the line itself and those inside `import ( ... )`
(`SourcesAssumption`): that is the grammar of a gofmt'ed file, so that
`PromptsExact` can compare the automaton with a definition that has no state.

`JobRunProofs` holds for any number of workers, any rate up to one call per unit
of time, and any number of calls per job.

| theorem | statement |
|---|---|
| `RunTypeCorrect` | `Spec => []TypeOK` |
| `CallsAreSpaced` | `Spec => []Spacing` |
| `TicksComeSoon` | `Spec => []TickSoon` |
| `NoDirLost` | `Spec => []DirsOwned` |
| `NoDirMissing` | `Spec => []HasItsDir` |

`Spacing` needs to know where the ticker is: `TickAhead` says that the next tick
is an interval further from call *k* for every call after it, and one more if a
tick waits. So a tick that is taken late costs one interval once, not once per
call. A new limiter starts without a tick, an interval ahead, which carries the
distance over the end of a job. The directories need that their numbers grow
(`Numbered`), so that a new one is nobody's.

`ApiProofs` holds for any users, jobs, parameters, page sizes and expiry.

| theorem | statement |
|---|---|
| `ApiInductive` | `Spec => []ApiInv` |
| `FirstRegistrationWins` | `Spec => []FirstWins` |
| `ShownAreOwn` | `Spec => []OnlyOwnJobs` |
| `PagesInRange` | `Spec => []PageInRange` |
| `WalkInductive` | `Spec => []WalkInv` |
| `ApiTypeOK` | `Spec => []TypeOK` |
| `WalkSkipsNone` | `Spec => []NoneSkipped` |
| `WalkRepeatsNone` | `Spec => []NoneTwice` |

`ShownAreOwn` follows a request from its token to its rows: the subject of the
token is the email of the login, the request has the subject, and the rows that
are listed have the user of the request (`RequestInv`), while a registration
never touches a row that somebody has logged in with. `PagesInRange` is the page
arithmetic: the offset is a natural number below the count, for any page and
size that the query string asks for; so it also fits the `int32` it is converted
to whenever the count does.

`WalkInv` is about a client on its way through the pages. It counts, for each row
of the user, the rows that are newer (`Newer`): with no ties that is the row's
place in the list (`OrderRanks`). `Passed` is how many places the client has been
through. A job that was there at the start has been seen or has at least `Passed`
newer rows, which an insert can only make more (`SkippedInv`); a job that was
seen has fewer, which a delete can only make less (`TwiceInv`). At the last page
`CountInv` closes the first: the count is that of the rows that are listed, as no
insert came between the two statements, so nobody has that many newer rows. What
disturbs a walk in the other direction is excluded by the properties themselves,
and `disturbed` has it in the model. `MaxJobs`, the bound of the ids, is a
natural number (`PageAssumption`).

**Only model-checked.** Liveness under fairness: `QueuedIsServed`,
`SubmittedCompletes`, `ShutdownEnds`, `NoCrashLoop`, `NobodyWaitsForEver` and
the progress in `ParseCallSpec`, whose safety part is `RepoCalls`. TLAPS does not
cover it. Every other property of the passing runs is the statement of a theorem.
The invariants that the proofs of `RepoFiles` and `Api` add (`ScanInv`,
`BatchInv`, `PromptInv`, `WalkInv`) hold on the instances of the runs too.

## 7 Where the documents and the code disagree

Each is shown by a run with a counterexample.

- `StoreFails`: `store.go:35-37` says that a failed store leaves the job "for
  the recovery sweep to retry". It is left in `generating`; the sweep selects
  `queued`.
- `ShutdownHangs`: the feeder in `parser.go:25` returns on cancellation without
  closing `pathCh`. The readers wait for it for ever, and so do the worker and
  `wg.Wait()`.
- `ClosePanics`: the inner select of `recovery.go:35` does not look at the
  context. A sweep in that loop sends on the channel that `main` has closed.

- `Rpm`: `prd.md:58` and `prd.md:326` limit Gemini to the configured calls per
  minute. Every job makes a limiter of its own (`worker.go:96`), so the workers
  add up; and the ticker keeps a tick, which gives even one worker one call more
  in a minute. `Spacing` is the distance that does hold.

Consequences of the same code that have no run of their own:

- `prd.md:709-714` lets a failed stage mark the job failed. No code writes
  `failed` (`JobTable!Status`), and the job stays active, where DELETE answers
  409.
- `considerations.md:23` says that a crash loses no job. Those that were claimed
  are not queued any more and nothing takes them up.
- `worker-shutdown-fix-guide.md:51-53` lets the workers process the buffered
  jobs after the signal. They claim them and then clone under the cancelled
  context, so that the jobs leave `queued` for `cloning` and stay there.
- `prd.md:708` rejects invalid URLs with 400, while `SubmitJob` checks the
  prefix only, and what `validateRepoURL` refuses fails in the worker.
- `delete-job-protection-guide.md:74` says that only inactive jobs are deleted,
  which a claim between `GetJob` and `DeleteJob` breaks, as line 82 of the same
  guide concedes. `StoreResults` shows that the store survives it.
- `batcher.go:6` says that the generator turns a batch into one API call. The
  worker only looks whether there is a batch; `BuildPrompt` takes all parsed
  files, without a budget. `batcher.go:19` says "the fewest batches": they are
  the fewest for the order the files are in (`PackedTight`), another order may
  need fewer. `batcher.go:14` calls `len/4` an upper bound, but it rounds down.
  No code sets a tier.
- `prompt.go:77` says "only the import lines". That holds for formatted files
  (`PromptsExact`); a block that ends in `) // comment` never closes, comments
  in a block count as imports, and the imports of `.ts` files are not
  recognised.
- `ListJobs` can miss or repeat a job where `NoneSkipped` and `NoneTwice` name
  the disturbance: an insert between its two statements, a delete under a walk,
  rows with the same `created_at`.
- `JWT_EXPIRY_HOURS` has no lower limit, unlike the other numbers of
  `config.go`: zero or less gives tokens that have already expired.

## 8 Not modelled

- Reading the environment, response formatting, logging. The limits that `Load`
  puts on numbers are assumptions on constants.
- Password hashing, signatures of tokens, the GitHub token queries (nobody calls
  them), and the `/home` route.
- Which file names are noise, which path patterns belong to a document, the
  words of a prompt: data that no property depends on.
- The branch of a submission as a column of its own: it goes with the URL from
  the row to the message to the clone, so `repo` stands for both.
- `doc_cache.expires_at`: nothing reads the cache.
- Statements outside the store that wait for locks: they touch one row each and
  hold nothing meanwhile.
- The detailed store, directories and limiters are modules of their own and not
  composed with the pipeline: `AtomicSpec` justifies the step that the pipeline
  takes instead, and `JobRun` depends on no row.
- More than one process on one database: nothing in the repository starts two.

## 9 Plan

Done: every component of section 1 has its model, its runs and its theorems, but
for the helpers of section 8, and each safety property of a run is a theorem. In
this order next:

1. **The steps of `RepoFiles`**: that the files only go forward, and that what
   the batches had reaches the prompts, as action properties.
2. **Safety of the claims that hold in part**: how far the calls of one worker
   can exceed the rate (`Spacing` gives the bound), stated as a number of calls
   in any window.
