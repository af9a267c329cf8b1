----------------------------- MODULE RepoProofs -----------------------------
(***************************************************************************)
(* The theorems about ParseFiles hold where it is used: between the scan   *)
(* of any clone and the batches, for any limit of files.  Those about the  *)
(* batches and the prompts hold for whatever it returns.                   *)
(***************************************************************************)
EXTENDS FileProofs, ParseFilesProofs

\* A step of processJob is a step of its call of ParseFiles, or leaves it alone.
LEMMA RepoStepsParse == RepoInit /\ [][RepoNext]_repoVars => Init /\ [][Next]_vars
<1>1. RepoInit => Init
  BY DEF RepoInit
<1>2. [RepoNext]_repoVars => [Next]_vars
  <2> SUFFICES ASSUME [RepoNext]_repoVars PROVE [Next]_vars
    OBVIOUS
  <2>1. CASE CancelRepo
    BY <2>1 DEF CancelRepo, Next
  <2>2. CASE ParseStep
    BY <2>2 DEF ParseStep, Next
  <2>3. CASE Scan \/ StartParse \/ Batch \/ Generating \/ Prompt
    BY <2>3 DEF Scan, StartParse, Batch, Generating, Prompt
  <2>4. CASE UNCHANGED repoVars
    BY <2>4 DEF repoVars
  <2> QED
    BY <2>1, <2>2, <2>3, <2>4 DEF RepoNext, RepoStep
<1> QED
  BY <1>1, <1>2, PTL

\* All that is proved of ParseFiles alone holds of its call in the pipeline
\* (worker.go:87-92, parser.go:18-68).
THEOREM RepoParses == RepoSpec => []ParseInv
<1>1. Init /\ [][Next]_vars => []ParseInv
  BY InitParseInv, NextParseInv, PTL
<1> QED
  BY <1>1, RepoStepsParse, PTL DEF RepoSpec

\* In the whole pipeline each path has one reader and each file is read once.
THEOREM RepoFilesOnce == RepoSpec => []EachFileOnce
<1>1. ParseInv => EachFileOnce
  BY DEF ParseInv
<1> QED
  BY <1>1, RepoParses, PTL

\* Whatever was cloned, files are missing from the answer of ParseFiles only
\* when the job was cancelled.
THEOREM RepoComplete == RepoSpec => []CompleteUnlessCancelled
  BY ParseInvComplete, RepoParses, PTL

\* The call of ParseFiles inside processJob takes the steps of ParseCall.
THEOREM RepoCalls == RepoSpec => CallSpec
<1>1. Init => Call!CallInit
  BY InitCall
<1> QED
  BY <1>1, RepoStepsParse, RepoParses, NextCall, PTL DEF RepoSpec, CallSpec, Call!CallSpec

-----------------------------------------------------------------------------
(***************************************************************************)
(* What reaches the generator                                              *)
(***************************************************************************)
\* The files that are packed are those that ParseFiles has returned.
FilesReturned ==
    stage \in {"batched", "generating", "prompt"} =>
        /\ caller = "returned"
        /\ DOMAIN files = DOMAIN results
        /\ \A i \in DOMAIN results : files[i].path = results[i]

\* An uncancelled job has all the readable files of the clone in front of it
\* when it builds its prompts, and each of them once (worker.go:78-121).
PromptsComplete ==
    stage = "prompt" /\ ~cancelled =>
        /\ {files[i].path : i \in DOMAIN files} = Readable
        /\ \A i, k \in DOMAIN files : files[i].path = files[k].path => i = k

\* They stay those files: nothing adds to, drops from or renames them.
LEMMA FilesReturnedStep ==
  ASSUME FilesReturned, [RepoNext]_repoVars
  PROVE  FilesReturned'
<1>1. CASE CancelRepo
  BY <1>1 DEF CancelRepo, Cancel, FilesReturned
<1>2. CASE ParseStep
  BY <1>2 DEF ParseStep, FilesReturned
<1>3. CASE Scan
  BY <1>3 DEF Scan, FilesReturned
<1>4. CASE StartParse
  BY <1>4 DEF StartParse, FilesReturned
<1>5. CASE Batch
  BY <1>5 DEF Batch, FilesReturned, vars
<1>6. CASE Generating
  BY <1>6 DEF Generating, FilesReturned, vars
<1>7. CASE Prompt
  BY <1>7 DEF Prompt, FilesReturned, vars
<1>8. CASE UNCHANGED repoVars
  BY <1>8 DEF repoVars, vars, FilesReturned
<1> QED
  BY <1>1, <1>2, <1>3, <1>4, <1>5, <1>6, <1>7, <1>8 DEF RepoNext, RepoStep

\* An uncancelled job never makes prompts without one of its readable files
\* (worker.go:78-121).
THEOREM RepoPromptsComplete == RepoSpec => []PromptsComplete
<1>1. RepoInit => FilesReturned
  BY DEF RepoInit, FilesReturned
<1>2. FilesReturned /\ [RepoNext]_repoVars => FilesReturned'
  BY FilesReturnedStep
<1>3. FilesReturned /\ ParseInv => PromptsComplete
  <2> SUFFICES ASSUME FilesReturned, ParseInv, stage = "prompt", ~cancelled
               PROVE  /\ {files[i].path : i \in DOMAIN files} = Readable
                      /\ \A i, k \in DOMAIN files : files[i].path = files[k].path => i = k
    BY DEF PromptsComplete
  <2>1. caller = "returned" /\ DOMAIN files = DOMAIN results
        /\ \A i \in DOMAIN results : files[i].path = results[i]
    BY DEF FilesReturned
  <2>2. Delivered = Readable
    BY <2>1, ParseInvComplete DEF CompleteUnlessCancelled
  <2>3. {files[i].path : i \in DOMAIN files} = Delivered
    BY <2>1 DEF Delivered
  <2>4. \A i, k \in DOMAIN results : results[i] = results[k] => i = k
    BY DEF ParseInv, EachFileOnce
  <2> QED
    BY <2>1, <2>2, <2>3, <2>4
<1> QED
  BY <1>1, <1>2, <1>3, RepoParses, PTL DEF RepoSpec

-----------------------------------------------------------------------------
(***************************************************************************)
(* What the batches and the prompts are made of                            *)
(***************************************************************************)
\* The files that the batches are made of, and why a job without batches fails.
BatchInv ==
    /\ stage = "batched" =>
         /\ files = [i \in DOMAIN results |-> files[i]]
         /\ \A i \in DOMAIN results : files[i].tier \in Nat /\ files[i].bytes \in Nat
         /\ batches = Batches(files, MaxTokens)
         /\ batches # << >>
    /\ stage = "failed" /\ tree = << >> => cancelled \/ Readable = {}

\* BatchFiles starts from all that ParseFiles has returned, and from nothing
\* only if nothing could be read or the job was cancelled.
LEMMA BatchStep ==
  ASSUME ParseInv, Batch
  PROVE  BatchInv'
<1>1. PICK bytes \in [DOMAIN results -> Sizes], tier \in [DOMAIN results -> Tiers] :
         files' = [i \in DOMAIN results |->
                     [path |-> results[i], bytes |-> bytes[i], tier |-> tier[i]]]
  BY DEF Batch
<1>2. /\ batches' = Batches(files', MaxTokens)
      /\ stage' = IF batches' = << >> THEN "failed" ELSE "batched"
      /\ results' = results /\ cancelled' = cancelled /\ caller = "returned"
  BY DEF Batch, vars
<1>3. /\ files' = [i \in DOMAIN results |-> files'[i]]
      /\ \A i \in DOMAIN results : files'[i].tier \in Nat /\ files'[i].bytes \in Nat
  BY <1>1, FilesAssumption
<1>4. PICK n \in Nat : DOMAIN results = 1..n
  <2>1. results \in Seq(Paths)
    BY DEF ParseInv, TypeOK
  <2> QED
    BY <2>1
<1>5. ASSUME batches' = << >>
      PROVE  cancelled \/ Readable = {}
  <2>1. n = 0
    <3>0. PICK max \in Nat : max = MaxTokens
      BY ConfigAssumption
    <3>1. PICK fs : fs = files'
      OBVIOUS
    <3>2. DOMAIN fs = 1..n /\ \A i \in 1..n : fs[i].tier \in Nat /\ fs[i].bytes \in Nat
      BY <1>3, <1>4, <3>1
    <3>3. Batches(fs, max) = << >>
      BY <1>2, <1>5, <3>0, <3>1
    <3>4. n > 0 => Len(Batches(fs, max)) > 0
      BY <3>2, BatchesRight
    <3>5. Len(<< >>) = 0
      OBVIOUS
    <3> QED
      BY <3>3, <3>4, <3>5
  <2>2. Delivered = {}
    BY <1>4, <2>1 DEF Delivered
  <2> QED
    BY <1>2, <2>2, ParseInvComplete DEF CompleteUnlessCancelled
<1> QED
  BY <1>2, <1>3, <1>5 DEF BatchInv

\* The other steps leave the batches alone, or drop them.
LEMMA NextBatchInv ==
  ASSUME BatchInv, ParseInv, ScanInv, [RepoNext]_repoVars
  PROVE  BatchInv'
<1>1. CASE CancelRepo
  BY <1>1 DEF CancelRepo, Cancel, BatchInv
<1>2. CASE ParseStep
  <2>1. stage = "parse" /\ stage' = stage
    BY <1>2 DEF ParseStep
  <2> QED
    BY <2>1 DEF BatchInv
<1>3. CASE Scan
  <2>1. stage' = "failed" /\ tree' = << >> => FALSE
    <3> SUFFICES ASSUME stage' = "failed", tree' = << >>
                 PROVE  FALSE
      OBVIOUS
    <3>1. Walk(tree, MaxFiles).end = "error" /\ tree = << >>
      BY <1>3 DEF Scan
    <3>2. tree \in Trees
      BY <1>3 DEF Scan, ScanInv
    <3>3. Unreadable # {}
      BY <3>1, <3>2, WalkTakesFirst
    <3>4. DOMAIN tree = {}
      BY <3>1
    <3> QED
      BY <3>3, <3>4 DEF Unreadable
  <2> QED
    BY <1>3, <2>1 DEF Scan, BatchInv
<1>4. CASE StartParse
  BY <1>4 DEF StartParse, BatchInv
<1>5. CASE Batch
  BY <1>5, BatchStep
<1>6. CASE Generating
  BY <1>6 DEF Generating, BatchInv
<1>7. CASE Prompt
  BY <1>7 DEF Prompt, BatchInv
<1>8. CASE UNCHANGED repoVars
  BY <1>8 DEF repoVars, vars, BatchInv
<1> QED
  BY <1>1, <1>2, <1>3, <1>4, <1>5, <1>6, <1>7, <1>8 DEF RepoNext, RepoStep

\* The batches of a job are a cut of its sorted files.
LEMMA BatchedFacts ==
  ASSUME BatchInv, FilesReturned, ParseInv, stage = "batched"
  PROVE  \E n \in Nat \ {0} : \E F : \E s \in Seq(F) : \E ends :
           /\ DOMAIN files = 1..n /\ Len(files) = n
           /\ files = [i \in 1..n |-> files[i]]
           /\ \A i \in 1..n : files[i].tier \in Nat
           /\ s = ByTier(files) /\ Len(s) = n
           /\ \A f \in F : EstimateTokens(f) \in Nat
           /\ batches \in Seq(BatchesOf(F))
           /\ Len(batches) > 0
           /\ CutInto(batches, ends, n, s, TokenSums(s, n), MaxTokens)
           /\ Packed = s
<1>1. PICK n \in Nat : DOMAIN results = 1..n
  <2>1. results \in Seq(Paths)
    BY DEF ParseInv, TypeOK
  <2> QED
    BY <2>1
<1>2. /\ files = [i \in 1..n |-> files[i]]
      /\ \A i \in 1..n : files[i].tier \in Nat /\ files[i].bytes \in Nat
      /\ batches = Batches(files, MaxTokens)
      /\ batches # << >>
  BY <1>1 DEF BatchInv
<1>3. DOMAIN files = 1..n /\ Len(files) = n
  BY <1>2
<1>4. MaxTokens \in Nat
  BY ConfigAssumption
<1>5. n # 0
  BY <1>2, <1>3, <1>4, BatchesRight
<1>6. PICK F : \E s \in Seq(F) : \E ends :
              /\ s = ByTier(files)
              /\ Len(s) = n
              /\ \A f \in F : EstimateTokens(f) \in Nat
              /\ batches \in Seq(BatchesOf(F))
              /\ Len(batches) > 0
              /\ CutInto(batches, ends, n, s, TokenSums(s, n), MaxTokens)
  <2>1. n > 0
    BY <1>5
  <2> QED
    BY <1>2, <1>3, <1>4, <2>1, BatchesRight
<1>8. PICK s \in Seq(F) : \E ends :
              /\ s = ByTier(files)
              /\ Len(s) = n
              /\ \A f \in F : EstimateTokens(f) \in Nat
              /\ batches \in Seq(BatchesOf(F))
              /\ Len(batches) > 0
              /\ CutInto(batches, ends, n, s, TokenSums(s, n), MaxTokens)
  BY <1>6, Zenon
<1>9. PICK ends :
              /\ s = ByTier(files)
              /\ Len(s) = n
              /\ \A f \in F : EstimateTokens(f) \in Nat
              /\ batches \in Seq(BatchesOf(F))
              /\ Len(batches) > 0
              /\ CutInto(batches, ends, n, s, TokenSums(s, n), MaxTokens)
  BY <1>8, Zenon
<1>7. Packed = s
  <2>1. PICK sums : sums = TokenSums(s, n)
    OBVIOUS
  <2> QED
    BY <1>9, <2>1, CutFlattens DEF Packed
<1> QED
  BY <1>2, <1>3, <1>5, <1>9, <1>7, Zenon

\* So every file is in a batch, once and in its place.
LEMMA BatchedComplete ==
  ASSUME BatchInv, FilesReturned, ParseInv
  PROVE  EachFileInABatch
<1>1. stage = "failed" /\ tree = << >> => cancelled \/ Readable = {}
  BY DEF BatchInv
<1> SUFFICES ASSUME stage = "batched"
             PROVE  /\ Len(Packed) = Len(files)
                    /\ \A i, k \in DOMAIN Packed : i < k =>
                         \E m, n \in DOMAIN files :
                           /\ Packed[i] = files[m] /\ Packed[k] = files[n]
                           /\ files[m].tier < files[n].tier
                                \/ (files[m].tier = files[n].tier /\ m < n)
                    /\ cancelled \/ {f.path : f \in ToSet(Packed)} = Readable
  BY <1>1 DEF EachFileInABatch
<1>2. PICK n \in Nat \ {0} : \E F : \E s \in Seq(F) :
           /\ DOMAIN files = 1..n /\ Len(files) = n
           /\ \A i \in 1..n : files[i].tier \in Nat
           /\ s = ByTier(files) /\ Len(s) = n
           /\ Packed = s
  BY BatchedFacts, Zenon
<1>3. PICK F : \E s \in Seq(F) :
           /\ DOMAIN files = 1..n /\ Len(files) = n
           /\ \A i \in 1..n : files[i].tier \in Nat
           /\ s = ByTier(files) /\ Len(s) = n
           /\ Packed = s
  BY <1>2, Zenon
<1>4. /\ DOMAIN files = 1..n /\ Len(files) = n
      /\ \A i \in 1..n : files[i].tier \in Nat
      /\ Packed = ByTier(files) /\ Len(Packed) = n /\ DOMAIN Packed = 1..n
  BY <1>3
<1>5. PICK from \in [1..n -> 1..n] :
           /\ ByTier(files) = [k \in 1..n |-> files[from[k]]]
           /\ \A i \in 1..n : \E k \in 1..n : from[k] = i
           /\ \A i, k \in 1..n : i < k => Sooner(files, from[i], from[k])
  <2>1. n \in Nat
    OBVIOUS
  <2> QED
    BY <1>4, <2>1, ByTierSorts
<1>6. \A k \in 1..n : Packed[k] = files[from[k]] /\ from[k] \in 1..n
  BY <1>4, <1>5
<1>7. ASSUME NEW i \in DOMAIN Packed, NEW k \in DOMAIN Packed, i < k
      PROVE  \E m, j \in DOMAIN files :
                /\ Packed[i] = files[m] /\ Packed[k] = files[j]
                /\ files[m].tier < files[j].tier
                     \/ (files[m].tier = files[j].tier /\ m < j)
  <2>1. Sooner(files, from[i], from[k])
    BY <1>4, <1>5, <1>7
  <2> QED
    BY <1>4, <1>6, <2>1, Zenon DEF Sooner
<1>8. ASSUME ~cancelled
      PROVE  {f.path : f \in ToSet(Packed)} = Readable
  <2>1. /\ caller = "returned"
        /\ DOMAIN files = DOMAIN results
        /\ \A i \in DOMAIN results : files[i].path = results[i]
    BY DEF FilesReturned
  <2>2. Delivered = Readable
    BY <1>8, <2>1, ParseInvComplete DEF CompleteUnlessCancelled
  <2>3. Delivered = {files[i].path : i \in 1..n}
    BY <1>4, <2>1 DEF Delivered
  <2>4. ToSet(Packed) = {Packed[k] : k \in 1..n}
    BY <1>4 DEF ToSet
  <2>5. ASSUME NEW i \in 1..n
        PROVE  files[i] \in ToSet(Packed)
    <3>1. PICK k \in 1..n : from[k] = i
      BY <1>5
    <3>2. Packed[k] = files[i]
      BY <1>6, <3>1
    <3> QED
      BY <2>4, <3>2
  <2>6. ASSUME NEW f \in ToSet(Packed)
        PROVE  \E i \in 1..n : f = files[i]
    BY <1>6, <2>4
  <2> QED
    BY <2>2, <2>3, <2>5, <2>6
<1> QED
  BY <1>4, <1>7, <1>8

\* So the batches keep to the budget, and there are no fewer that do.
LEMMA BatchedTight ==
  ASSUME BatchInv, FilesReturned, ParseInv
  PROVE  PackedTight
<1> SUFFICES ASSUME stage = "batched"
             PROVE  LET sizes == [b \in DOMAIN batches |-> Len(batches[b].files)]
                        ends == SumsOf(sizes)
                    IN /\ \A b \in DOMAIN batches :
                            /\ sizes[b] > 0
                            /\ batches[b].tokens = TokensBetween(ends[b - 1] + 1, ends[b])
                       /\ Legal({ends[b] : b \in 1..(Len(batches) - 1)})
                       /\ \A cut \in Cuts : Legal(cut) => Cardinality(cut) + 1 >= Len(batches)
  BY DEF PackedTight
<1>1. PICK n \in Nat \ {0} : \E F : \E s \in Seq(F) : \E places :
           /\ Len(s) = n
           /\ \A f \in F : EstimateTokens(f) \in Nat
           /\ batches \in Seq(BatchesOf(F))
           /\ Len(batches) > 0
           /\ CutInto(batches, places, n, s, TokenSums(s, n), MaxTokens)
           /\ Packed = s
  BY BatchedFacts, Zenon
<1>2. PICK F : \E s \in Seq(F) : \E places :
           /\ Len(s) = n
           /\ \A f \in F : EstimateTokens(f) \in Nat
           /\ batches \in Seq(BatchesOf(F))
           /\ Len(batches) > 0
           /\ CutInto(batches, places, n, s, TokenSums(s, n), MaxTokens)
           /\ Packed = s
  BY <1>1, Zenon
<1>3. PICK s \in Seq(F) : \E places :
           /\ Len(s) = n
           /\ \A f \in F : EstimateTokens(f) \in Nat
           /\ batches \in Seq(BatchesOf(F))
           /\ Len(batches) > 0
           /\ CutInto(batches, places, n, s, TokenSums(s, n), MaxTokens)
           /\ Packed = s
  BY <1>2, Zenon
<1>4. PICK places :
           /\ Len(s) = n
           /\ \A f \in F : EstimateTokens(f) \in Nat
           /\ batches \in Seq(BatchesOf(F))
           /\ Len(batches) > 0
           /\ CutInto(batches, places, n, s, TokenSums(s, n), MaxTokens)
           /\ Packed = s
  BY <1>3, Zenon
<1>5. PICK m \in Nat \ {0} : m = Len(batches) /\ DOMAIN batches = 1..m
  BY <1>4
<1>6. PICK sums : sums = TokenSums(s, n)
  OBVIOUS
<1>7. /\ \A k \in 0..n : sums[k] \in Nat
      /\ \A i \in 0..n, k \in 0..n : i <= k => sums[i] <= sums[k]
  <2>1. PICK numbers : numbers = [i \in 1..n |-> EstimateTokens(s[i])]
    OBVIOUS
  <2>2. n \in Nat /\ Len(numbers) = n /\ \A i \in 1..n : numbers[i] \in Nat
    BY <1>4, <2>1
  <2>3. sums = SumsOf(numbers)
    BY <1>6, <2>1 DEF TokenSums
  <2> QED
    BY <2>2, <2>3, SumsGrow
<1>8. \A from, to : TokensBetween(from, to) = sums[to] - sums[from - 1]
  <2>1. DOMAIN Packed = 1..n
    BY <1>4
  <2>2. [i \in DOMAIN Packed |-> EstimateTokens(Packed[i])] = [i \in 1..n |-> EstimateTokens(s[i])]
    BY <1>4, <2>1
  <2> QED
    BY <1>6, <2>2 DEF TokensBetween, TokenSums
<1>9. \A cut : Legal(cut) <=> LegalCut(cut, n, sums, MaxTokens)
  BY <1>4, <1>8 DEF Legal, LegalCut
<1> DEFINE sizes == SizesOf(batches)
           ends == SumsOf(sizes)
<1>10. /\ \A b \in 1..m : sizes[b] > 0
       /\ \A b \in 0..m : ends[b] = places[b]
  <2> HIDE DEF sizes, ends
  <2>1. n \in Nat /\ n = Len(s)
    BY <1>4
  <2>2. batches \in Seq(BatchesOf(F)) /\ CutInto(batches, places, n, s, sums, MaxTokens)
    BY <1>4, <1>6
  <2>3. /\ \A b \in 1..Len(batches) : SizesOf(batches)[b] > 0
        /\ \A b \in 0..Len(batches) : SumsOf(SizesOf(batches))[b] = places[b]
    BY <2>1, <2>2, CutEnds
  <2> QED
    BY <1>5, <2>3 DEF sizes, ends
<1> HIDE DEF sizes, ends
<1>11. /\ EndsOf(places, m, n)
       /\ \A b \in 1..m : BatchIs(batches[b], places[b - 1], places[b], s, sums, MaxTokens)
       /\ \A b \in 1..(m - 1) : sums[places[b] + 1] - sums[places[b - 1]] > MaxTokens
  BY <1>4, <1>5, <1>6 DEF CutInto, EndsOf
<1>12. \A b \in 1..m : batches[b].tokens = TokensBetween(ends[b - 1] + 1, ends[b])
  <2> SUFFICES ASSUME NEW b \in 1..m
               PROVE  batches[b].tokens = TokensBetween(ends[b - 1] + 1, ends[b])
    OBVIOUS
  <2>1. b - 1 \in 0..m /\ b \in 0..m
    BY <1>5
  <2>2. ends[b - 1] = places[b - 1] /\ ends[b] = places[b] /\ places[b - 1] \in Nat
    BY <1>10, <1>11, <2>1 DEF EndsOf
  <2>3. (ends[b - 1] + 1) - 1 = places[b - 1]
    BY <2>2
  <2>4. batches[b].tokens = sums[places[b]] - sums[places[b - 1]]
    BY <1>11 DEF BatchIs
  <2> QED
    BY <1>8, <2>2, <2>3, <2>4
<1>13. {ends[b] : b \in 1..(m - 1)} = {places[b] : b \in 1..(m - 1)}
  BY <1>5, <1>10
<1>14. LegalCut({places[b] : b \in 1..(m - 1)}, n, sums, MaxTokens)
  <2>1. \A b \in 1..m : sums[places[b]] - sums[places[b - 1]] <= MaxTokens \/ places[b] = places[b - 1] + 1
    BY <1>11 DEF BatchIs
  <2> QED
    BY <1>5, <1>11, <2>1, OwnCutLegal
<1>15. ASSUME NEW cut \in Cuts, Legal(cut)
       PROVE  Cardinality(cut) + 1 >= m
  <2>1. cut \in SUBSET (1..(n - 1)) /\ LegalCut(cut, n, sums, MaxTokens)
    BY <1>4, <1>9, <1>15 DEF Cuts
  <2>2. MaxTokens \in Nat /\ n \in Nat
    BY ConfigAssumption
  <2> QED
    BY <1>5, <1>7, <1>11, <2>1, <2>2, FewestBatches, Zenon
<1>16. Legal({ends[b] : b \in 1..(m - 1)})
  BY <1>9, <1>13, <1>14
<1> QED
  BY <1>5, <1>10, <1>12, <1>15, <1>16 DEF sizes, ends, SizesOf

\* The files that the prompts are made of.
PromptInv ==
    stage = "prompt" =>
        /\ files = [i \in DOMAIN results |-> files[i]]
        /\ \A i \in DOMAIN results : files[i].lines \in Sources

\* Only Prompt makes such files.
LEMMA NextPromptInv ==
  ASSUME PromptInv, FilesReturned, [RepoNext]_repoVars
  PROVE  PromptInv'
<1>1. CASE CancelRepo
  BY <1>1 DEF CancelRepo, Cancel, PromptInv
<1>2. CASE ParseStep
  <2>1. stage' = "parse"
    BY <1>2 DEF ParseStep
  <2> QED
    BY <2>1 DEF PromptInv
<1>3. CASE Scan \/ StartParse \/ Batch \/ Generating
  <2>1. stage' # "prompt"
    BY <1>3 DEF Scan, StartParse, Batch, Generating
  <2> QED
    BY <2>1 DEF PromptInv
<1>4. CASE Prompt
  <2>1. DOMAIN files = DOMAIN results /\ results' = results
    BY <1>4 DEF Prompt, FilesReturned, vars
  <2>2. PICK lines \in Sources, docs \in [DOMAIN files -> Audiences] :
          files' = [i \in DOMAIN files |-> [path |-> files[i].path, docs |-> docs[i], lines |-> lines]]
    BY <1>4 DEF Prompt
  <2> QED
    BY <2>1, <2>2 DEF PromptInv
<1>5. CASE UNCHANGED repoVars
  BY <1>5 DEF repoVars, vars, PromptInv
<1> QED
  BY <1>1, <1>2, <1>3, <1>4, <1>5 DEF RepoNext, RepoStep

\* The files of a job are as SectionsExact wants them.
LEMMA PromptInvExact ==
  ASSUME PromptInv, ParseInv
  PROVE  PromptsExact
<1> SUFFICES ASSUME stage = "prompt", NEW doc \in DocTypes
             PROVE  SectionsRight(files, doc)
  BY DEF PromptsExact, SectionsRight
<1>1. PICK n \in Nat : DOMAIN results = 1..n
  <2>1. results \in Seq(Paths)
    BY DEF ParseInv, TypeOK
  <2> QED
    BY <2>1
<1>2. /\ files = [i \in 1..n |-> files[i]]
      /\ \A i \in 1..n : files[i].lines \in Sources
  BY <1>1 DEF PromptInv
<1>3. DOMAIN files = 1..n /\ Len(files) = n
  BY <1>2
<1> QED
  BY <1>2, <1>3, SectionsExact

\* These four hold of every job.
LEMMA RepoInvs == RepoSpec => [](ScanInv /\ FilesReturned /\ BatchInv /\ PromptInv)
<1>1. RepoInit => ScanInv /\ FilesReturned /\ BatchInv /\ PromptInv
  BY DEF RepoInit, ScanInv, ScanTakesFirst, FilesReturned, BatchInv, PromptInv
<1>2. ScanInv /\ FilesReturned /\ BatchInv /\ PromptInv /\ ParseInv /\ [RepoNext]_repoVars
        => (ScanInv /\ FilesReturned /\ BatchInv /\ PromptInv)'
  BY NextScanInv, FilesReturnedStep, NextBatchInv, NextPromptInv
<1> QED
  BY <1>1, <1>2, RepoParses, PTL DEF RepoSpec

\* From the slice of paths to the batches no file is lost, doubled or out of
\* its tier, whatever the readers do (parser.go:18-68, batcher.go:22-49).
THEOREM RepoBatchesAll == RepoSpec => []EachFileInABatch
  BY BatchedComplete, RepoInvs, RepoParses, PTL

\* For any files and any budget the batches are legal, counted right, not empty,
\* and as few as this order allows (batcher.go:19-49).
THEOREM RepoBatchesTight == RepoSpec => []PackedTight
  BY BatchedTight, RepoInvs, RepoParses, PTL

\* For any files each document is asked for with its own files, in their order,
\* and the diagram with their imports alone (prompt.go:10-20, 73-102).
THEOREM RepoPromptsExact == RepoSpec => []PromptsExact
  BY PromptInvExact, RepoInvs, RepoParses, PTL

=============================================================================
