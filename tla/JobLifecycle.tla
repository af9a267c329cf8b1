---------------------------- MODULE JobLifecycle ----------------------------
(***************************************************************************)
(* What the pipeline promises about a job, whatever channels, sweeps,      *)
(* crashes and lost replies are underneath: it is claimed at most once, by *)
(* one worker; only that worker moves it, one stage at a time; documents   *)
(* appear together with "completed"; and a job that its worker has left    *)
(* in mid-pipeline is never moved again, only deleted.                     *)
(***************************************************************************)
EXTENDS Naturals

CONSTANTS Jobs, Workers, DocTypes

VARIABLES
    status,       \* "absent" before the job is submitted and once deleted
    documents,    \* the documents that can be read
    holders,      \* holders[j]: the workers that hold job j
    submitted     \* the jobs that have been submitted so far

lifecycleVars == <<status, documents, holders, submitted>>

\* The stages a holder takes its job through.
NextStage == [cloning |-> "parsing", parsing |-> "generating"]

LifecycleInit ==
    /\ status = [j \in Jobs |-> "absent"]
    /\ documents = [j \in Jobs |-> {}]
    /\ holders = [j \in Jobs |-> {}]
    /\ submitted = {}

Submit(j) ==
    /\ j \notin submitted
    /\ submitted' = submitted \cup {j}
    /\ status' = [status EXCEPT ![j] = "queued"]
    /\ UNCHANGED <<documents, holders>>

\* The holder keeps the job, or drops it for good without knowing that the
\* step took effect.
KeepOrDrop(j, w) == holders' \in {[holders EXCEPT ![j] = {w}],
                                  [holders EXCEPT ![j] = {}]}

Claim(j, w) ==
    /\ status[j] = "queued"
    /\ holders[j] = {}
    /\ status' = [status EXCEPT ![j] = "cloning"]
    /\ KeepOrDrop(j, w)
    /\ UNCHANGED <<documents, submitted>>

Advance(j, w) ==
    /\ holders[j] = {w}
    /\ status[j] \in DOMAIN NextStage
    /\ status' = [status EXCEPT ![j] = NextStage[@]]
    /\ KeepOrDrop(j, w)
    /\ UNCHANGED <<documents, submitted>>

Complete(j, w) ==
    /\ holders[j] = {w}
    /\ status[j] = "generating"
    /\ \E docs \in (SUBSET DocTypes) \ {{}} :
        documents' = [documents EXCEPT ![j] = docs]
    /\ status' = [status EXCEPT ![j] = "completed"]
    /\ holders' = [holders EXCEPT ![j] = {}]
    /\ UNCHANGED submitted

\* The holders of the jobs in S stop: a stage failed, or the process ended.
Abandon(S) ==
    /\ holders' = [j \in Jobs |-> IF j \in S THEN {} ELSE holders[j]]
    /\ UNCHANGED <<status, documents, submitted>>

Delete(j) ==
    /\ status[j] # "absent"
    /\ status' = [status EXCEPT ![j] = "absent"]
    /\ documents' = [documents EXCEPT ![j] = {}]
    /\ UNCHANGED <<holders, submitted>>

LifecycleNext ==
    \/ \E j \in Jobs : Submit(j) \/ Delete(j)
    \/ \E j \in Jobs, w \in Workers : Claim(j, w) \/ Advance(j, w) \/ Complete(j, w)
    \/ \E S \in SUBSET Jobs : Abandon(S)

LifecycleSpec == LifecycleInit /\ [][LifecycleNext]_lifecycleVars

=============================================================================
