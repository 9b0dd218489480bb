------------------------------ MODULE JobLedger ------------------------------
(***************************************************************************)
(* What job_run promises as a compliance record (models.py, JobRun): rows  *)
(* are only ever added, a job has at most one attempt in progress, and an  *)
(* attempt is given its outcome exactly once.  Scheduler implements this.  *)
(***************************************************************************)
EXTENDS Naturals, Sequences

CONSTANT Jobs

VARIABLE ledger   \* ledger[j]: the outcome of each attempt, oldest first

Outcomes == {"succeeded", "failed"}

Idle(j) == \A k \in 1..Len(ledger[j]) : ledger[j][k] \in Outcomes

Init == ledger = [j \in Jobs |-> <<>>]

\* A new attempt starts only when no other is in progress.
Begin(j) ==
    /\ Idle(j)
    /\ ledger' = [ledger EXCEPT ![j] = Append(@, "running")]

\* The attempt in progress is given its outcome, by the worker that ran it
\* or, as "failed", by the next one to find it orphaned.
Settle(j, k, o) ==
    /\ ledger[j][k] = "running"
    /\ ledger' = [ledger EXCEPT ![j][k] = o]

Next ==
    \E j \in Jobs :
        \/ Begin(j)
        \/ \E k \in 1..Len(ledger[j]), o \in Outcomes : Settle(j, k, o)

Spec == Init /\ [][Next]_ledger
=============================================================================
