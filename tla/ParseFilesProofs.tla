-------------------------- MODULE ParseFilesProofs --------------------------
(***************************************************************************)
(* Proofs about ParseFiles, for any number of paths and readers and for    *)
(* any set of readable files.                                              *)
(***************************************************************************)
EXTENDS ParseFiles, SequenceTheorems, TLAPS

\* The readers that have a path are those that read or deliver it, and only
\* readable files are delivered.
ReaderPaths ==
    \A r \in Readers : /\ rpath[r] # 0 <=> rpc[r] \in {"read", "deliver"}
                       /\ rpc[r] = "deliver" => rpath[r] \in Readable

\* Without a cancellation no path gets lost between the slice and the results.
NoneLost ==
    ~cancelled => \A p \in Readable \cap 1..fed :
                      p \in Delivered \/ \E r \in Readers : rpath[r] = p

\* Who has ended, and why: nobody ends before the others that it waits for.
Ends ==
    /\ feeder = "stopped" => cancelled
    /\ feeder = "closed" => fed = NumPaths
    /\ \A r \in Readers : rpc[r] = "returned" => feeder = "closed" \/ cancelled
    /\ resultsClosed => ReadersDone
    /\ caller = "returned" => resultsClosed

ParseInv ==
    /\ TypeOK
    /\ EachFileOnce
    /\ ReaderPaths
    /\ NoneLost
    /\ Ends

\* A delivery adds one file to those delivered.
LEMMA DeliverEffect ==
  ASSUME TypeOK, NEW p \in Paths, results' = Append(results, p)
  PROVE  /\ results' \in Seq(Paths)
         /\ Delivered' = Delivered \cup {p}
         /\ p \notin Delivered /\ (\A i, k \in DOMAIN results : results[i] = results[k] => i = k)
              => \A i, k \in DOMAIN results' : results'[i] = results'[k] => i = k
<1>1. results \in Seq(Paths) /\ Len(results) \in Nat /\ DOMAIN results = 1..Len(results)
  BY LenProperties DEF TypeOK
<1>2. /\ results' \in Seq(Paths)
      /\ Len(results') = Len(results) + 1
      /\ \A i \in 1..Len(results) : results'[i] = results[i]
      /\ results'[Len(results) + 1] = p
  BY <1>1, AppendProperties
<1>3. DOMAIN results' = 1..(Len(results) + 1)
  BY <1>2, LenProperties
<1>4. \A i \in DOMAIN results' : i \in DOMAIN results \/ i = Len(results) + 1
  BY <1>1, <1>3
<1>5. DOMAIN results \subseteq DOMAIN results' /\ Len(results) + 1 \in DOMAIN results'
  BY <1>1, <1>3
<1>6. Delivered' = Delivered \cup {p}
  BY <1>1, <1>2, <1>4, <1>5 DEF Delivered
<1>7. ASSUME p \notin Delivered, \A i, k \in DOMAIN results : results[i] = results[k] => i = k,
             NEW i \in DOMAIN results', NEW k \in DOMAIN results', results'[i] = results'[k]
      PROVE  i = k
  BY <1>1, <1>2, <1>4, <1>7 DEF Delivered
<1> QED
  BY <1>2, <1>6, <1>7

LEMMA InitParseInv == Init => ParseInv
<1> SUFFICES ASSUME Init PROVE ParseInv
  OBVIOUS
<1>1. << >> \in Seq(Paths) /\ DOMAIN << >> = {}
  BY EmptySeq, LenProperties
<1>2. Delivered = {}
  BY <1>1 DEF Init, Delivered
<1>3. TypeOK
  <2>1. results \in Seq(Paths)
    BY <1>1 DEF Init
  <2>2. fed \in 0..NumPaths
    BY NumPathsAssumption DEF Init
  <2>3. rpc \in [Readers -> {"receive", "read", "deliver", "returned"}]
    BY DEF Init
  <2>4. rpath \in [Readers -> Paths \cup {0}]
    BY DEF Init
  <2> QED
    BY <2>1, <2>2, <2>3, <2>4, Zenon DEF Init, TypeOK
<1>4. EachFileOnce
  BY <1>1, <1>2 DEF Init, EachFileOnce
<1>5. ReaderPaths /\ NoneLost /\ Ends
  BY DEF Init, ReaderPaths, NoneLost, Ends
<1> QED
  BY <1>3, <1>4, <1>5 DEF ParseInv

\* The next path of the slice is nobody's yet.
LEMMA FeedStep == ASSUME ParseInv, NEW r \in Readers, Feed(r) PROVE ParseInv'
<1> USE DEF Feed
<1>0. fed \in Nat /\ NumPaths \in Nat /\ fed' = fed + 1 /\ fed' \in Paths /\ Delivered' = Delivered
  BY NumPathsAssumption DEF ParseInv, TypeOK, MorePaths, Paths, Delivered
<1>1. TypeOK'
  BY <1>0 DEF ParseInv, TypeOK, Paths
<1>2. \A p \in Delivered : p \in 1..fed
  BY DEF ParseInv, EachFileOnce
<1>3. \A q \in Readers : rpath[q] # fed' /\ rpath[q] \in Nat
  BY <1>0 DEF ParseInv, TypeOK, EachFileOnce, Paths
<1>4. \A q \in Readers : rpath'[q] = IF q = r THEN fed' ELSE rpath[q]
  BY DEF ParseInv, TypeOK
<1>5. EachFileOnce'
  BY <1>0, <1>2, <1>3, <1>4 DEF ParseInv, EachFileOnce
<1>6. rpath[r] = 0
  BY DEF ParseInv, ReaderPaths
<1>7. ReaderPaths'
  BY <1>0, <1>4 DEF ParseInv, TypeOK, ReaderPaths, Paths
<1>8. NoneLost'
  BY <1>0, <1>4, <1>6 DEF ParseInv, NoneLost
<1>9. Ends'
  BY DEF ParseInv, TypeOK, Ends, ReadersDone
<1> QED
  BY <1>1, <1>5, <1>7, <1>8, <1>9 DEF ParseInv

\* A file that cannot be read is dropped; any other stays with its reader.
LEMMA ReadStep == ASSUME ParseInv, NEW r \in Readers, Read(r) PROVE ParseInv'
<1> USE DEF Read
<1>0. Delivered' = Delivered
  BY DEF Delivered
<1>1. rpath[r] \in Paths /\ rpath[r] # 0
  BY DEF ParseInv, TypeOK, ReaderPaths
<1>2. CASE rpath[r] \in Readable
  <2>1. rpc' = [rpc EXCEPT ![r] = "deliver"] /\ rpath' = rpath
    BY <1>2 DEF Goto, ParseInv, TypeOK
  <2> QED
    BY <1>0, <1>1, <1>2, <2>1 DEF ParseInv, TypeOK, EachFileOnce, ReaderPaths, NoneLost,
       Ends, ReadersDone
<1>3. CASE rpath[r] \notin Readable
  <2>1. rpc' = [rpc EXCEPT ![r] = "receive"] /\ rpath' = [rpath EXCEPT ![r] = 0]
    BY <1>3 DEF Goto
  <2>2. TypeOK' /\ ReaderPaths' /\ Ends'
    BY <2>1 DEF ParseInv, TypeOK, ReaderPaths, Ends, ReadersDone
  <2>3. EachFileOnce'
    BY <1>0, <2>1, NumPathsAssumption DEF ParseInv, TypeOK, EachFileOnce, Paths
  <2>4. NoneLost'
    BY <1>0, <1>3, <2>1 DEF ParseInv, TypeOK, NoneLost
  <2> QED
    BY <2>2, <2>3, <2>4 DEF ParseInv
<1> QED
  BY <1>2, <1>3

\* The file moves from its reader to the caller.
LEMMA DeliverStep == ASSUME ParseInv, NEW r \in Readers, Deliver(r) PROVE ParseInv'
<1> USE DEF Deliver
<1>0. rpath[r] \in Paths /\ rpath[r] \in Readable /\ rpath[r] \notin Delivered
  BY DEF ParseInv, TypeOK, ReaderPaths, EachFileOnce
<1>1. /\ results' \in Seq(Paths)
      /\ Delivered' = Delivered \cup {rpath[r]}
      /\ \A i, k \in DOMAIN results' : results'[i] = results'[k] => i = k
  BY <1>0, DeliverEffect DEF ParseInv, EachFileOnce
<1>2. rpc' = [rpc EXCEPT ![r] = "receive"] /\ rpath' = [rpath EXCEPT ![r] = 0]
  BY DEF Goto
<1>3. TypeOK'
  BY <1>1, <1>2 DEF ParseInv, TypeOK
<1>4. ReaderPaths' /\ Ends'
  BY <1>2 DEF ParseInv, TypeOK, ReaderPaths, Ends, ReadersDone
<1>5. 0 \notin Paths /\ Readable \subseteq Paths
  BY NumPathsAssumption, ReadableAssumption DEF Paths
<1>6. EachFileOnce'
  <2>1. \A q \in Readers : rpath'[q] = IF q = r THEN 0 ELSE rpath[q]
    BY <1>2 DEF ParseInv, TypeOK
  <2>2. \A q \in Readers : rpath'[q] \notin Delivered' /\ rpath'[q] <= fed
    <3>1. rpath'[r] \notin Delivered' /\ rpath'[r] <= fed
      BY <1>0, <1>1, <1>5, <2>1, NumPathsAssumption DEF ParseInv, TypeOK, EachFileOnce, Paths
    <3>2. \A q \in Readers \ {r} : rpath[q] # rpath[r]
      BY <1>0, <1>5 DEF ParseInv, EachFileOnce
    <3>3. \A q \in Readers \ {r} : rpath'[q] \notin Delivered' /\ rpath'[q] <= fed
      BY <1>1, <2>1, <3>2 DEF ParseInv, EachFileOnce
    <3> QED
      BY <3>1, <3>3
  <2>3. \A q, v \in Readers : rpath'[q] = rpath'[v] /\ rpath'[q] # 0 => q = v
    BY <2>1 DEF ParseInv, EachFileOnce
  <2>4. Delivered' \subseteq Readable \cap 1..fed
    BY <1>0, <1>1 DEF ParseInv, TypeOK, EachFileOnce, Paths
  <2> QED
    BY <1>1, <2>2, <2>3, <2>4 DEF EachFileOnce
<1>7. NoneLost'
  BY <1>1, <1>2 DEF ParseInv, TypeOK, NoneLost
<1> QED
  BY <1>3, <1>4, <1>6, <1>7 DEF ParseInv

\* A reader returns with a path only under a cancellation.
LEMMA ReaderReturns ==
  ASSUME ParseInv, NEW r \in Readers, ReaderCancelled(r) \/ ReaderEnds(r)
  PROVE  ParseInv'
<1> USE DEF ReaderCancelled, ReaderEnds
<1>0. Delivered' = Delivered
  BY DEF Delivered
<1>1. rpc' = [rpc EXCEPT ![r] = "returned"] /\ rpath' = [rpath EXCEPT ![r] = 0]
  BY DEF Goto
<1>2. TypeOK' /\ ReaderPaths'
  BY <1>1 DEF ParseInv, TypeOK, ReaderPaths
<1>3. EachFileOnce'
  BY <1>0, <1>1, NumPathsAssumption DEF ParseInv, TypeOK, EachFileOnce, Paths
<1>4. NoneLost'
  BY <1>0, <1>1 DEF ParseInv, TypeOK, NoneLost, ReaderPaths
<1>5. Ends'
  BY <1>1 DEF ParseInv, TypeOK, Ends, ReadersDone
<1> QED
  BY <1>2, <1>3, <1>4, <1>5 DEF ParseInv

\* The other steps move no path.
LEMMA ControlStep ==
  ASSUME ParseInv, Cancel \/ FeederCancelled \/ ClosePaths \/ CloseResults \/ Return
  PROVE  ParseInv'
<1> USE DEF Cancel, FeederCancelled, ClosePaths, CloseResults, Return
<1>0. UNCHANGED <<fed, rpc, rpath, results>> /\ Delivered' = Delivered
  BY DEF Delivered
<1>1. TypeOK' /\ ReaderPaths'
  BY <1>0 DEF ParseInv, TypeOK, ReaderPaths
<1>2. EachFileOnce' /\ NoneLost'
  BY <1>0 DEF ParseInv, EachFileOnce, NoneLost
<1>3. Ends'
  BY <1>0, NumPathsAssumption DEF ParseInv, TypeOK, Ends, ReadersDone, MorePaths
<1> QED
  BY <1>1, <1>2, <1>3 DEF ParseInv

LEMMA NextParseInv == ParseInv /\ [Next]_vars => ParseInv'
<1> SUFFICES ASSUME ParseInv, [Next]_vars PROVE ParseInv'
  OBVIOUS
<1>1. ASSUME NEW r \in Readers,
             Feed(r) \/ Read(r) \/ Deliver(r) \/ ReaderCancelled(r) \/ ReaderEnds(r)
      PROVE  ParseInv'
  BY <1>1, FeedStep, ReadStep, DeliverStep, ReaderReturns
<1>2. CASE Cancel \/ FeederCancelled \/ ClosePaths \/ CloseResults \/ Return
  BY <1>2, ControlStep
<1>3. CASE UNCHANGED vars
  <2>1. Delivered' = Delivered
    BY <1>3 DEF Delivered, vars
  <2> QED
    BY <1>3, <2>1 DEF ParseInv, TypeOK, EachFileOnce, ReaderPaths, NoneLost, Ends,
       ReadersDone, vars
<1> QED
  BY <1>1, <1>2, <1>3 DEF Next, Step

THEOREM ParseInductive == Spec => []ParseInv
  BY InitParseInv, NextParseInv, PTL DEF Spec

\* Every variable keeps its type; the results are a sequence of paths.
THEOREM ParseTypeCorrect == Spec => []TypeOK
<1>1. ParseInv => TypeOK
  BY DEF ParseInv
<1> QED
  BY <1>1, ParseInductive, PTL

\* Each path is read by one reader and each file is collected once.
THEOREM FilesOnce == Spec => []EachFileOnce
<1>1. ParseInv => EachFileOnce
  BY DEF ParseInv
<1> QED
  BY <1>1, ParseInductive, PTL

\* No reader is left at its send when resultCh is closed.
THEOREM ResultsSafe == Spec => []NoDeliveryAfterClose
<1>1. ParseInv => NoDeliveryAfterClose
  BY DEF ParseInv, Ends, ReadersDone, NoDeliveryAfterClose
<1> QED
  BY <1>1, ParseInductive, PTL

\* A call that returns without a cancellation has all the readable files.
LEMMA ParseInvComplete == ParseInv => CompleteUnlessCancelled
<1> SUFFICES ASSUME ParseInv, caller = "returned", ~cancelled
             PROVE  Delivered = Readable
  BY DEF CompleteUnlessCancelled
<1>1. ReadersDone /\ feeder = "closed" /\ fed = NumPaths
  BY ReadersAssumption DEF ParseInv, Ends, ReadersDone
<1>2. \A r \in Readers : rpath[r] = 0
  BY <1>1 DEF ReadersDone, ParseInv, ReaderPaths
<1>3. Readable \subseteq Delivered
  BY <1>1, <1>2, ReadableAssumption, NumPathsAssumption DEF ParseInv, NoneLost, Paths
<1>4. Delivered \subseteq Readable
  BY DEF ParseInv, EachFileOnce
<1> QED
  BY <1>3, <1>4

\* Files are missing from an answer only after a cancellation.
THEOREM Complete == Spec => []CompleteUnlessCancelled
  BY ParseInvComplete, ParseInductive, PTL

(***************************************************************************)
(* ParseFiles takes the steps of ParseCall                                 *)
(***************************************************************************)

\* Which outcome a call has: one that is stuck gives no answer.
OutcomeIs ==
    /\ Stuck => Outcome = "hung" /\ caller # "returned"
    /\ ~Stuck /\ caller = "returned" =>
            Outcome = IF Delivered = Readable THEN "all" ELSE "some"
    /\ ~Stuck /\ caller # "returned" => Outcome = "running"

LEMMA Outcomes == ParseInv => OutcomeIs
<1> SUFFICES ASSUME ParseInv PROVE OutcomeIs
  OBVIOUS
<1>1. Stuck => caller # "returned"
  BY DEF ParseInv, Ends, ReadersDone, Stuck
<1>2. CASE Stuck
  BY <1>1, <1>2 DEF Outcome, OutcomeIs
<1>3. CASE ~Stuck
  BY <1>3 DEF Outcome, OutcomeIs
<1> QED
  BY <1>2, <1>3

\* What holds of the state that a step leads to.
LEMMA AfterStep ==
  ParseInv /\ [Next]_vars => ParseInv' /\ OutcomeIs' /\ CompleteUnlessCancelled'
  BY NextParseInv, Outcomes, ParseInvComplete, PTL

\* Nobody can take a step in a stuck call, which has been cancelled already.
LEMMA StuckForEver ==
  ASSUME ParseInv, Stuck, [Next]_vars
  PROVE  UNCHANGED vars
<1>1. cancelled /\ ~ReadersDone /\ ~resultsClosed
  BY DEF Stuck, ParseInv, Ends, ReadersDone
<1> QED
  BY <1>1 DEF Stuck, Next, Step, Cancel, FeederCancelled, ClosePaths, Feed, Read, Deliver,
     ReaderCancelled, ReaderEnds, CloseResults, Return

\* An answer that has been given stays.
LEMMA AnswerStays ==
  ASSUME ParseInv, caller = "returned", [Next]_vars
  PROVE  caller' = "returned" /\ Delivered' = Delivered
<1>1. \A r \in Readers : rpc[r] = "returned"
  BY DEF ParseInv, Ends, ReadersDone
<1>2. caller' = "returned" /\ results' = results
  BY <1>1 DEF Next, Step, Cancel, FeederCancelled, ClosePaths, Feed, Read, Deliver,
     ReaderCancelled, ReaderEnds, CloseResults, Return, vars
<1> QED
  BY <1>2 DEF Delivered

LEMMA NextCall == ParseInv /\ [Next]_vars => [Call!Cancel \/ Call!Answer]_(Call!callVars)
<1> SUFFICES ASSUME ParseInv, [Next]_vars
             PROVE  Call!Cancel \/ Call!Answer \/ UNCHANGED Call!callVars
  OBVIOUS
<1>o. OutcomeIs /\ ParseInv' /\ OutcomeIs' /\ CompleteUnlessCancelled'
  BY Outcomes, AfterStep
<1>c. UNCHANGED cancelled \/ Cancel
  BY DEF Next, Step, FeederCancelled, ClosePaths, Feed, Read, Deliver, ReaderCancelled,
     ReaderEnds, CloseResults, Return, vars
<1>1. CASE Stuck
  <2>1. UNCHANGED vars
    BY <1>1, StuckForEver
  <2>2. Outcome' = Outcome
    BY <2>1 DEF Outcome, Stuck, Delivered, vars
  <2> QED
    BY <2>1, <2>2 DEF Call!callVars, vars
<1>2. CASE caller = "returned"
  <2>1. caller' = "returned" /\ Delivered' = Delivered
    BY <1>2, AnswerStays
  <2>2. ~Stuck /\ ~Stuck'
    BY <1>2, <2>1, <1>o DEF OutcomeIs
  <2>3. Outcome' = Outcome
    BY <1>2, <2>1, <2>2, <1>o DEF OutcomeIs
  <2> QED
    BY <1>c, <2>3 DEF Call!Cancel, Call!callVars, Cancel
<1>3. CASE Cancel
  <2>1. Outcome' = Outcome
    BY <1>3 DEF Cancel, Outcome, Stuck, Delivered
  <2> QED
    BY <1>3, <2>1 DEF Call!Cancel, Cancel
<1>4. CASE ~Stuck /\ caller # "returned" /\ UNCHANGED cancelled
  <2>1. Outcome = "running"
    BY <1>4, <1>o DEF OutcomeIs
  <2>2. CASE Stuck'
    <3>1. cancelled
      BY <1>4, <1>o, <2>2 DEF ParseInv, Ends, Stuck
    <3> QED
      BY <1>4, <1>o, <2>1, <2>2, <3>1 DEF Call!Answer, OutcomeIs
  <2>3. CASE ~Stuck' /\ caller' = "returned"
    <3>1. ~cancelled' => Delivered' = Readable
      BY <1>o, <2>3 DEF CompleteUnlessCancelled
    <3> QED
      BY <1>4, <1>o, <2>1, <2>3, <3>1 DEF Call!Answer, OutcomeIs
  <2>4. CASE ~Stuck' /\ caller' # "returned"
    BY <1>4, <1>o, <2>1, <2>4 DEF Call!callVars, OutcomeIs
  <2> QED
    BY <2>2, <2>3, <2>4
<1> QED
  BY <1>c, <1>1, <1>2, <1>3, <1>4

LEMMA InitCall == Init => Call!CallInit
<1>1. Init => ~Stuck /\ caller # "returned" /\ cancelled \in BOOLEAN
  BY DEF Init, Stuck
<1> QED
  BY <1>1, InitParseInv, Outcomes DEF Call!CallInit, OutcomeIs

\* Whatever the goroutines do, a caller sees one of the outcomes of ParseCall,
\* once, and misses files or an answer only when it has cancelled.  (That there
\* is an outcome at all is for TLC.)
THEOREM CallSteps == Spec => CallSpec
  BY InitCall, ParseInductive, NextCall, PTL DEF Spec, CallSpec, Call!CallSpec

=============================================================================
