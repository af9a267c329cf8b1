------------------------------ MODULE MCJobRun ------------------------------
(***************************************************************************)
(* A small instance of JobRun for TLC, and the claim that it refutes.      *)
(***************************************************************************)
EXTENDS JobRun, FiniteSets, TLC

WorkerSymmetry == Permutations(Workers)

\* The calls of the last minute, over all workers.
LastMinute ==
    {<<w, k>> \in Workers \X (1..MaxTime + 1) :
        k \in DOMAIN calls[w] /\ calls[w][k] > now - Minute}

\* prd.md:58: "a time.Ticker-based rate limiter ensures we never exceed 10 RPM".
\* There is one for each job, and several workers add up.
NeverExceedsRpm == Cardinality(LastMinute) <= Rpm

=============================================================================
