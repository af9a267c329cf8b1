----------------------------- MODULE BatchFiles -----------------------------
(***************************************************************************)
(* BatchFiles: packs files into batches under a token budget.  A file has  *)
(* a size in bytes and a tier; its path tells it from the others.          *)
(***************************************************************************)
EXTENDS Naturals, Sequences, FiniteSets

EmptyBatch == [files |-> << >>, tokens |-> 0]

\* len(s) / 4
EstimateTokens(file) == file.bytes \div 4

\* Where sort.SliceStable puts file i: behind the files of lower tiers and those
\* of its own tier that were in front of it.
Place(files, i) ==
    Cardinality({k \in DOMAIN files : \/ files[k].tier < files[i].tier
                                      \/ files[k].tier = files[i].tier /\ k <= i})

\* sort.SliceStable by tier.
ByTier(files) ==
    [n \in DOMAIN files |-> files[CHOOSE i \in DOMAIN files : Place(files, i) = n]]

\* Mutant of StartsBatch: a file that just fits is sent to the next batch.
StartsBatchEarly(batch, tokens, maxTokens) ==
    batch.files # << >> /\ batch.tokens + tokens >= maxTokens

\* The file does not fit any more.  The first file of a batch always does.
StartsBatch(batch, tokens, maxTokens) ==
    batch.files # << >> /\ batch.tokens + tokens > maxTokens

Pack(packing, file, maxTokens) ==
    LET tokens == EstimateTokens(file)
        full == StartsBatch(packing.current, tokens, maxTokens)
        open == IF full THEN EmptyBatch ELSE packing.current
    IN [result |-> IF full THEN Append(packing.result, packing.current)
                           ELSE packing.result,
        current |-> [files |-> Append(open.files, file),
                     tokens |-> open.tokens + tokens]]

\* Mutant of Drain: the batch that is open when the loop ends is dropped.
DrainNothing(packing) == packing.result

\* The batch that is open when the loop ends belongs to the result.
Drain(packing) ==
    IF packing.current.files = << >> THEN packing.result
                                     ELSE Append(packing.result, packing.current)

StartPacking == [result |-> << >>, current |-> EmptyBatch]

Batches(files, maxTokens) ==
    LET sorted == ByTier(files)
        packing[i \in 0..Len(sorted)] ==
          IF i = 0 THEN StartPacking ELSE Pack(packing[i - 1], sorted[i], maxTokens)
    IN Drain(packing[Len(sorted)])

=============================================================================
