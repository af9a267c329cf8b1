------------------------------- MODULE JobRun -------------------------------
(***************************************************************************)
(* What a call of processJob holds besides the row of its job: the clone   *)
(* directory that Cleanup removes, and the rate limiter that Stop stops.   *)
(* Both are released by deferred calls, so a return and a panic of the     *)
(* worker release them, and the end of the process does not.               *)
(*                                                                         *)
(* Time is discrete, and tickers tick on time.  Only the stages that use   *)
(* the two resources are told apart.                                       *)
(***************************************************************************)
EXTENDS Integers, Sequences

CONSTANTS
    Workers,      \* the worker goroutines
    Rpm,          \* GEMINI_RPM_LIMIT
    Minute,       \* time.Minute
    CallsPerJob,  \* len(docTypes)
    MaxRuns,      \* bound: how many directories are ever made
    MaxTime       \* bound: when time stops

ASSUME RpmAssumption == Rpm \in Int
ASSUME MinuteAssumption == Minute \in Nat /\ Rpm <= Minute /\ 1 <= Minute
ASSUME CallsPerJobAssumption == CallsPerJob \in Nat
ASSUME BoundsAssumption == MaxRuns \in Nat /\ MaxTime \in Nat

VARIABLES
    now,          \* the time
    ctxDone,      \* workerContext is cancelled
    hasKey,       \* GEMINI_API_KEY was set when the process started
    pc,           \* pc[w]: the stage of worker w
    todo,         \* todo[w]: the documents it has still to generate
    runs,         \* how many directories have been made
    dirs,         \* the directories on disk, by the number of their run
    dirOf,        \* dirOf[w]: the directory of worker w, 0 for none
    left,         \* the directories that a dead process has left
    next,         \* next[w]: when the ticker of w ticks, 0 without a ticker
    ticks,        \* ticks[w]: how many ticks wait in ticker.C, at most one
    calls         \* calls[w]: the times of the calls of w so far

runVars == <<pc, todo, dirs, dirOf, next, ticks>>

vars == <<now, ctxDone, hasKey, runVars, runs, left, calls>>

Dirs == 1..MaxRuns

\* Program points that have a directory, and the ones that have a limiter.
WithDir == {"clone", "revParse", "parse", "generate", "calling", "hung"}

WithLimiter == {"generate", "calling"}

TypeOK ==
    /\ now \in Nat
    /\ ctxDone \in BOOLEAN
    /\ hasKey \in BOOLEAN
    /\ pc \in [Workers -> WithDir \cup {"idle"}]
    /\ todo \in [Workers -> 0..CallsPerJob]
    /\ runs \in 0..MaxRuns
    /\ dirs \in SUBSET Dirs
    /\ dirOf \in [Workers -> Dirs \cup {0}]
    /\ left \in SUBSET Dirs
    /\ next \in [Workers -> Nat]
    /\ ticks \in [Workers -> 0..1]
    /\ calls \in [Workers -> Seq(Nat)]

\* The workers of a process that starts.
Fresh ==
    /\ pc' = [w \in Workers |-> "idle"]
    /\ todo' = [w \in Workers |-> 0]
    /\ dirOf' = [w \in Workers |-> 0]
    /\ next' = [w \in Workers |-> 0]
    /\ ticks' = [w \in Workers |-> 0]
    /\ ctxDone' = FALSE
    /\ hasKey' \in BOOLEAN

Init ==
    /\ now = 0
    /\ ctxDone = FALSE
    /\ hasKey \in BOOLEAN
    /\ pc = [w \in Workers |-> "idle"]
    /\ todo = [w \in Workers |-> 0]
    /\ runs = 0
    /\ dirs = {}
    /\ dirOf = [w \in Workers |-> 0]
    /\ left = {}
    /\ next = [w \in Workers |-> 0]
    /\ ticks = [w \in Workers |-> 0]
    /\ calls = [w \in Workers |-> << >>]

-----------------------------------------------------------------------------
(***************************************************************************)
(* The rate limiter                                                        *)
(***************************************************************************)
Interval == Minute \div (IF Rpm < 1 THEN 1 ELSE Rpm)

Intervals(n) == n * Interval

\* Mutant of NewRateLimiter: the first call need not wait.
NewLimiterWithBurst(w) ==
    /\ next' = [next EXCEPT ![w] = now + Interval]
    /\ ticks' = [ticks EXCEPT ![w] = 1]

NewRateLimiter(w) ==
    /\ next' = [next EXCEPT ![w] = now + Interval]
    /\ ticks' = [ticks EXCEPT ![w] = 0]

\* Stop, and the limiter is forgotten.
Stop(w) ==
    /\ next' = [next EXCEPT ![w] = 0]
    /\ ticks' = [ticks EXCEPT ![w] = 0]

\* Mutant of Tick: ticks add up while nobody receives them.
TickKept(w) ==
    /\ next[w] # 0 /\ next[w] = now
    /\ next' = [next EXCEPT ![w] = now + Interval]
    /\ ticks' = [ticks EXCEPT ![w] = @ + 1]
    /\ UNCHANGED <<now, ctxDone, hasKey, pc, todo, runs, dirs, dirOf, left, calls>>

\* The ticker has a buffer of one tick: another tick is dropped.
Tick(w) ==
    /\ next[w] # 0 /\ next[w] = now
    /\ next' = [next EXCEPT ![w] = now + Interval]
    /\ ticks' = [ticks EXCEPT ![w] = 1]
    /\ UNCHANGED <<now, ctxDone, hasKey, pc, todo, runs, dirs, dirOf, left, calls>>

Pass ==
    /\ now < MaxTime
    /\ \A w \in Workers : next[w] = 0 \/ next[w] > now
    /\ now' = now + 1
    /\ UNCHANGED <<ctxDone, hasKey, runVars, runs, left, calls>>

-----------------------------------------------------------------------------
(***************************************************************************)
(* processJob                                                              *)
(***************************************************************************)
Goto(w, p) == pc' = [pc EXCEPT ![w] = p]

\* Cleanup: os.RemoveAll of the directory.
Cleanup(w) ==
    /\ dirs' = dirs \ {dirOf[w]}
    /\ dirOf' = [dirOf EXCEPT ![w] = 0]

\* processJob returns, and its deferred calls are executed.
Return(w) ==
    /\ Goto(w, "idle")
    /\ todo' = [todo EXCEPT ![w] = 0]
    /\ Cleanup(w)
    /\ Stop(w)

\* Clone up to MkdirTemp.  Before it, Clone may refuse the URL or fail.
MkdirTemp(w) ==
    /\ pc[w] = "idle"
    /\ runs < MaxRuns
    /\ runs' = runs + 1
    /\ dirs' = dirs \cup {runs'}
    /\ dirOf' = [dirOf EXCEPT ![w] = runs']
    /\ Goto(w, "clone")
    /\ UNCHANGED <<now, ctxDone, hasKey, todo, left, next, ticks, calls>>

\* Mutant of CloneFails: an error path without cleanup().
CloneFailsWithoutCleanup(w) ==
    /\ pc[w] \in {"clone", "revParse"}
    /\ Goto(w, "idle")
    /\ IF pc[w] = "clone" THEN Cleanup(w)
                          ELSE dirOf' = [dirOf EXCEPT ![w] = 0] /\ UNCHANGED dirs
    /\ UNCHANGED <<now, ctxDone, hasKey, todo, runs, left, next, ticks, calls>>

\* git clone or git rev-parse fails, is cancelled or runs out of its 120 s, or
\* rev-parse prints no SHA: Clone itself cleans up, for nobody else will.
CloneFails(w) ==
    /\ pc[w] \in {"clone", "revParse"}
    /\ Goto(w, "idle")
    /\ Cleanup(w)
    /\ UNCHANGED <<now, ctxDone, hasKey, todo, runs, left, next, ticks, calls>>

\* Mutant of Cloned: Clone defers the cleanup that its caller owns.
ClonedAndCleanedUp(w) ==
    /\ \/ pc[w] = "clone" /\ Goto(w, "revParse") /\ UNCHANGED dirs
       \/ pc[w] = "revParse" /\ Goto(w, "parse") /\ dirs' = dirs \ {dirOf[w]}
    /\ UNCHANGED <<now, ctxDone, hasKey, todo, runs, dirOf, left, next, ticks, calls>>

\* git clone succeeds; git rev-parse succeeds and the caller gets Cleanup.
Cloned(w) ==
    /\ \/ pc[w] = "clone" /\ Goto(w, "revParse")
       \/ pc[w] = "revParse" /\ Goto(w, "parse")
    /\ UNCHANGED <<now, ctxDone, hasKey, todo, runs, dirs, dirOf, left, next, ticks, calls>>

\* A status update, a scan, a parse, NewAdkGenerator or the store fails, or all
\* documents are done and stored: anything after Clone that ends processJob.
Leave(w) ==
    /\ \/ pc[w] = "parse"
       \/ pc[w] = "generate" /\ todo[w] \in {0, CallsPerJob}
    /\ Return(w)
    /\ UNCHANGED <<now, ctxDone, hasKey, runs, left, calls>>

\* ParseFiles of a cancelled context may never return.
Hang(w) ==
    /\ pc[w] = "parse"
    /\ ctxDone
    /\ Goto(w, "hung")
    /\ UNCHANGED <<now, ctxDone, hasKey, todo, runs, dirs, dirOf, left, next, ticks, calls>>

\* Mutant of MakeLimiter: Stop is called and not deferred.
MakeStoppedLimiter(w) ==
    /\ pc[w] = "parse"
    /\ Goto(w, "generate")
    /\ todo' = [todo EXCEPT ![w] = CallsPerJob]
    /\ Stop(w)
    /\ UNCHANGED <<now, ctxDone, hasKey, runs, dirs, dirOf, left, calls>>

\* The files are parsed, and a limiter is made if there is a key.
MakeLimiter(w) ==
    /\ pc[w] = "parse"
    /\ Goto(w, "generate")
    /\ todo' = [todo EXCEPT ![w] = CallsPerJob]
    /\ IF hasKey THEN NewRateLimiter(w) ELSE UNCHANGED <<next, ticks>>
    /\ UNCHANGED <<now, ctxDone, hasKey, runs, dirs, dirOf, left, calls>>

\* Wait takes a tick, or sees that the context is cancelled and the document
\* is skipped; select takes either when both are ready.
Wait(w) ==
    /\ pc[w] = "generate"
    /\ hasKey
    /\ todo[w] > 0
    /\ todo' = [todo EXCEPT ![w] = @ - 1]
    /\ \/ /\ ticks[w] = 1
          /\ ticks' = [ticks EXCEPT ![w] = 0]
          /\ calls' = [calls EXCEPT ![w] = Append(@, now)]
          /\ Goto(w, "calling")
       \/ ctxDone /\ UNCHANGED <<pc, ticks, calls>>
    /\ UNCHANGED <<now, ctxDone, hasKey, runs, dirs, dirOf, left, next>>

\* GenerateContent returns, with a document or with an error.
CallReturns(w) ==
    /\ pc[w] = "calling"
    /\ Goto(w, "generate")
    /\ UNCHANGED <<now, ctxDone, hasKey, todo, runs, dirs, dirOf, left, next, ticks, calls>>

-----------------------------------------------------------------------------
(***************************************************************************)
(* The process                                                             *)
(***************************************************************************)
Signal ==
    /\ ~ctxDone
    /\ ctxDone' = TRUE
    /\ UNCHANGED <<now, hasKey, runVars, runs, left, calls>>

\* The process ends and is started again: when the worker that calls the nil
\* generator panics, after its own deferred calls; when it is killed; or when
\* it exits, with all workers back in their loop.
Panic(w) ==
    /\ pc[w] = "generate"
    /\ ~hasKey
    /\ dirs' = dirs \ {dirOf[w]}
    /\ left' = dirs'
    /\ Fresh
    /\ UNCHANGED <<now, runs, calls>>

Crash ==
    /\ left' = dirs
    /\ Fresh
    /\ UNCHANGED <<now, runs, dirs, calls>>

Exit ==
    /\ ctxDone
    /\ \A w \in Workers : pc[w] = "idle"
    /\ Fresh
    /\ UNCHANGED <<now, runs, dirs, left, calls>>

Next ==
    \/ \E w \in Workers :
        \/ MkdirTemp(w) \/ CloneFails(w) \/ Cloned(w) \/ Leave(w) \/ Hang(w)
        \/ MakeLimiter(w) \/ Wait(w) \/ CallReturns(w) \/ Tick(w) \/ Panic(w)
    \/ Signal \/ Crash \/ Exit \/ Pass

Spec == Init /\ [][Next]_vars

-----------------------------------------------------------------------------
\* Between call k and call l of a worker the intervals of all calls but one
\* have passed, whatever the jobs they belong to and however late each tick
\* was received: in a minute a worker makes at most one call more than
\* GEMINI_RPM_LIMIT (ratelimit.go:12-31, one limiter for each job).
Spacing ==
    \A w \in Workers : \A k, l \in DOMAIN calls[w] :
        k < l => calls[w][l] - calls[w][k] >= Intervals(l - k - 1)

\* A worker in its generate loop has a ticker that runs and ticks within one
\* interval: no call waits longer for its turn (worker.go:97-98, Stop only
\* when processJob returns).
TickSoon ==
    \A w \in Workers :
        /\ next[w] # 0 <=> pc[w] \in WithLimiter /\ hasKey
        /\ next[w] # 0 => next[w] \in now..(now + Interval)

\* Every directory belongs to a worker that is in its job, or was left by a
\* process that died under it: no error path of Clone or processJob leaks one
\* (cloner.go:65-111, worker.go:56).
DirsOwned ==
    \A d \in Dirs :
        /\ d \in dirs <=> d \in left \/ \E w \in Workers : pc[w] # "idle" /\ dirOf[w] = d
        /\ d \in left => \A w \in Workers : dirOf[w] # d

\* From MkdirTemp to its return a worker has a directory that is on disk and is
\* nobody else's: nothing removes files that are still to be read.
HasItsDir ==
    \A w \in Workers : pc[w] # "idle" =>
        /\ dirOf[w] \in dirs
        /\ \A v \in Workers : dirOf[v] = dirOf[w] => v = w

\* The inductive invariant.  A ticker that has ticked since the last call is a
\* tick further ahead of every call.
TickAhead ==
    \A w \in Workers : next[w] # 0 =>
        \A k \in DOMAIN calls[w] :
            next[w] - calls[w][k] >= Intervals(Len(calls[w]) - k + ticks[w])

Past == \A w \in Workers : \A k \in DOMAIN calls[w] : calls[w][k] <= now

TimeInv == TickSoon /\ Spacing /\ Past /\ TickAhead

\* The numbers of the directories grow.
Numbered ==
    /\ dirs \cup left \subseteq 1..runs
    /\ \A w \in Workers : /\ dirOf[w] \in 0..runs
                          /\ dirOf[w] = 0 <=> pc[w] = "idle"

DirInv == Numbered /\ DirsOwned /\ HasItsDir

=============================================================================
