----------------------------- MODULE MCScheduler -----------------------------
EXTENDS Scheduler, TLC

CONSTANTS w1, w2

MCWorkers == {w1, w2}

MCRegistry == <<"expire_stale_invites", "review_cycle_sweep">>

\* The hourly job and a daily one, scaled: the second is due half as often.
MCInterval == [expire_stale_invites |-> 1, review_cycle_sweep |-> 2]

OneJobRegistry == <<"review_cycle_sweep">>

OneJobInterval == [review_cycle_sweep |-> 1]

WorkerSymmetry == Permutations(MCWorkers)
=============================================================================
