------------------------------ MODULE Scheduler ------------------------------
(***************************************************************************)
(* The Postgres-backed job scheduler (backend/app/scheduler.py).           *)
(*                                                                         *)
(* Any number of worker processes (the `wingrc worker` container, or a     *)
(* host cron calling `wingrc jobs-run-due`) run the same function,         *)
(* run_due_jobs: it takes the time once, walks the registry in order, and  *)
(* for each job first decides on its own connection whether the job is     *)
(* due and then, separately, tries the job's advisory lock.  The holder    *)
(* reconciles orphaned rows, inserts its own `running` row, executes the   *)
(* job's body, records the outcome on that row and unlocks.  Each of these *)
(* is a transaction or a statement of its own, so the steps of two workers *)
(* interleave between them, and a worker may die between any two.          *)
(*                                                                         *)
(* What a job's body does is not modelled here: ReviewCycles models the    *)
(* two review-cycle jobs.                                                  *)
(***************************************************************************)
EXTENDS Integers, Sequences

CONSTANTS
    Workers,      \* worker processes
    Registry,     \* JOB_REGISTRY: the sequence of registered job names
    Interval,     \* JobSpec.interval of each job, in clock units
    MaxTime,      \* bound on the clock
    MaxCrashes,   \* bound on worker deaths
    MaxDrops,     \* bound on losses of a lock connection
    NoWorker      \* no session holds the lock

Jobs == {Registry[i] : i \in 1..Len(Registry)}

ASSUME SchedulerAssumption ==
    /\ Registry \in Seq(STRING)
    /\ Interval \in [Jobs -> Nat \ {0}]
    /\ MaxTime \in Nat
    /\ MaxCrashes \in Nat
    /\ MaxDrops \in Nat
    /\ NoWorker \notin Workers

VARIABLES
    clock,    \* wall-clock time
    runs,     \* job_run: the rows of each job in created_at order
    holder,   \* the session holding each job's advisory lock
    pc,       \* where each worker is in run_due_jobs / _run_one
    at,       \* position of the worker's loop in the registry
    now,      \* run_due_jobs' own `now`, taken once per call
    row,      \* position in runs of the row this worker inserted
    outcome,  \* what the body returned, until it is recorded
    crashes,  \* worker deaths so far
    drops     \* lock connections lost so far

ledgerVars == <<clock, runs, holder>>
workerVars == <<pc, at, now, row, outcome>>
faultVars == <<crashes, drops>>
vars == <<ledgerVars, workerVars, faultVars>>

Statuses == {"running", "succeeded", "failed"}
Finished == {"succeeded", "failed"}

\* finished_at is NULL while a row is running.
Null == -1

Rows == [status : Statuses, started : Nat, finished : Nat \cup {Null}]

Steps == {"sleep", "scan", "lock", "reconcile", "insert", "body", "record",
          "unlock"}

\* The steps _run_one takes between acquiring the lock and releasing it.
UnderLock == {"reconcile", "insert", "body", "record", "unlock"}

\* The steps at which the worker's own row exists and is not yet recorded.
Executing == {"body", "record"}

Job(w) == Registry[at[w]]

TypeOK ==
    /\ clock \in Nat
    /\ runs \in [Jobs -> Seq(Rows)]
    /\ holder \in [Jobs -> Workers \cup {NoWorker}]
    /\ pc \in [Workers -> Steps]
    /\ at \in [Workers -> 1..(Len(Registry) + 1)]
    /\ now \in [Workers -> Nat]
    /\ row \in [Workers -> Nat]
    /\ outcome \in [Workers -> Finished]
    /\ crashes \in Nat
    /\ drops \in Nat

Init ==
    /\ clock = 0
    /\ runs = [j \in Jobs |-> <<>>]
    /\ holder = [j \in Jobs |-> NoWorker]
    /\ pc = [w \in Workers |-> "sleep"]
    /\ at = [w \in Workers |-> 1]
    /\ now = [w \in Workers |-> 0]
    /\ row = [w \in Workers |-> 0]
    /\ outcome = [w \in Workers |-> "failed"]
    /\ crashes = 0
    /\ drops = 0

(***************************************************************************)
(* run_due_jobs                                                            *)
(***************************************************************************)

\* A call of run_due_jobs ends, or its process dies: its locals are gone.
Return(w) ==
    /\ pc' = [pc EXCEPT ![w] = "sleep"]
    /\ at' = [at EXCEPT ![w] = 1]
    /\ now' = [now EXCEPT ![w] = 0]
    /\ row' = [row EXCEPT ![w] = 0]
    /\ outcome' = [outcome EXCEPT ![w] = "failed"]

\* A call of run_due_jobs begins: the time is taken once for the whole walk.
BeginTick(w) ==
    /\ pc[w] = "sleep"
    /\ pc' = [pc EXCEPT ![w] = "scan"]
    /\ now' = [now EXCEPT ![w] = clock]
    /\ UNCHANGED <<ledgerVars, at, row, outcome, faultVars>>

\* The registry is exhausted; the worker sleeps until its next poll.
EndTick(w) ==
    /\ pc[w] = "scan"
    /\ at[w] > Len(Registry)
    /\ Return(w)
    /\ UNCHANGED <<ledgerVars, faultVars>>

\* _is_due: measured from the newest row's finished_at, or from its
\* started_at while it has none.
Reference(r) == IF r.finished = Null THEN r.started ELSE r.finished

\* Mutant: a job whose newest row is still running is never due again.
IsDueOnlyOnceFinished(j, t) ==
    runs[j] # <<>> =>
       /\ runs[j][Len(runs[j])].finished # Null
       /\ t - Reference(runs[j][Len(runs[j])]) >= Interval[j]

IsDue(j, t) ==
    runs[j] # <<>> => t - Reference(runs[j][Len(runs[j])]) >= Interval[j]

NotDue(w) ==
    /\ pc[w] = "scan"
    /\ at[w] <= Len(Registry)
    /\ ~IsDue(Job(w), now[w])
    /\ at' = [at EXCEPT ![w] = @ + 1]
    /\ UNCHANGED <<ledgerVars, pc, now, row, outcome, faultVars>>

FindDue(w) ==
    /\ pc[w] = "scan"
    /\ at[w] <= Len(Registry)
    /\ IsDue(Job(w), now[w])
    /\ pc' = [pc EXCEPT ![w] = "lock"]
    /\ UNCHANGED <<ledgerVars, at, now, row, outcome, faultVars>>

(***************************************************************************)
(* _run_one                                                                *)
(***************************************************************************)

\* pg_try_advisory_lock failed: skipped_running_elsewhere, never queued.
SkipRunningElsewhere(w) ==
    /\ pc[w] = "lock"
    /\ holder[Job(w)] # NoWorker
    /\ pc' = [pc EXCEPT ![w] = "scan"]
    /\ at' = [at EXCEPT ![w] = @ + 1]
    /\ UNCHANGED <<ledgerVars, now, row, outcome, faultVars>>

\* Mutant: the lock is taken whoever holds it.
AcquireRegardless(w) ==
    /\ pc[w] = "lock"
    /\ holder' = [holder EXCEPT ![Job(w)] = w]
    /\ pc' = [pc EXCEPT ![w] = "reconcile"]
    /\ UNCHANGED <<clock, runs, at, now, row, outcome, faultVars>>

Acquire(w) ==
    /\ pc[w] = "lock"
    /\ holder[Job(w)] = NoWorker
    /\ holder' = [holder EXCEPT ![Job(w)] = w]
    /\ pc' = [pc EXCEPT ![w] = "reconcile"]
    /\ UNCHANGED <<clock, runs, at, now, row, outcome, faultVars>>

\* Mutant: the UPDATE is not restricted to rows that are still running.
ReconciledAll(rs, t) ==
    [k \in 1..Len(rs) |-> [rs[k] EXCEPT !.status = "failed", !.finished = t]]

\* Mutant: nothing is reconciled.
ReconciledNone(rs, t) == rs

\* _reconcile_orphan: every row still running is failed, in one commit.
Reconciled(rs, t) ==
    [k \in 1..Len(rs) |->
        IF rs[k].status = "running"
        THEN [rs[k] EXCEPT !.status = "failed", !.finished = t]
        ELSE rs[k]]

ReconcileOrphan(w) ==
    /\ pc[w] = "reconcile"
    /\ runs' = [runs EXCEPT ![Job(w)] = Reconciled(@, clock)]
    /\ pc' = [pc EXCEPT ![w] = "insert"]
    /\ UNCHANGED <<clock, holder, at, now, row, outcome, faultVars>>

InsertRun(w) ==
    /\ pc[w] = "insert"
    /\ runs' = [runs EXCEPT ![Job(w)] =
                    Append(@, [status |-> "running", started |-> clock,
                               finished |-> Null])]
    /\ row' = [row EXCEPT ![w] = Len(runs[Job(w)]) + 1]
    /\ pc' = [pc EXCEPT ![w] = "body"]
    /\ UNCHANGED <<clock, holder, at, now, outcome, faultVars>>

\* spec.run(session) returns, or raises and is rolled back.
FinishBody(w) ==
    /\ pc[w] = "body"
    /\ \E o \in Finished : outcome' = [outcome EXCEPT ![w] = o]
    /\ pc' = [pc EXCEPT ![w] = "record"]
    /\ UNCHANGED <<ledgerVars, at, now, row, faultVars>>

\* UPDATE job_run ... WHERE id = run_id, whatever the row says by now.
Recorded(rs, k, o, t) == [rs EXCEPT ![k] = [@ EXCEPT !.status = o, !.finished = t]]

RecordOutcome(w) ==
    /\ pc[w] = "record"
    /\ runs' = [runs EXCEPT ![Job(w)] = Recorded(@, row[w], outcome[w], clock)]
    /\ pc' = [pc EXCEPT ![w] = "unlock"]
    /\ UNCHANGED <<clock, holder, at, now, row, outcome, faultVars>>

\* The session that opened the lock connection closes it.
Released(w) == [j \in Jobs |-> IF holder[j] = w THEN NoWorker ELSE holder[j]]

Unlock(w) ==
    /\ pc[w] = "unlock"
    /\ holder[Job(w)] = w
    /\ holder' = Released(w)
    /\ pc' = [pc EXCEPT ![w] = "scan"]
    /\ at' = [at EXCEPT ![w] = @ + 1]
    /\ row' = [row EXCEPT ![w] = 0]
    /\ outcome' = [outcome EXCEPT ![w] = "failed"]
    /\ UNCHANGED <<clock, runs, now, faultVars>>

\* pg_advisory_unlock on a connection that was lost raises out of _run_one
\* and of run_due_jobs: the process ends and is started again.
UnlockRaises(w) ==
    /\ pc[w] = "unlock"
    /\ holder[Job(w)] # w
    /\ Return(w)
    /\ UNCHANGED <<ledgerVars, faultVars>>

(***************************************************************************)
(* Faults and time                                                         *)
(***************************************************************************)

\* A worker dies between two steps (killed, or an exception outside the
\* body's own try leaves run_due_jobs).  Postgres releases its lock; the
\* row it inserted stays as it is.
Crash(w) ==
    /\ crashes < MaxCrashes
    /\ pc[w] # "sleep"
    /\ crashes' = crashes + 1
    /\ holder' = Released(w)
    /\ Return(w)
    /\ UNCHANGED <<clock, runs, drops>>

\* The lock's own connection is lost while the worker, whose work runs on
\* another connection, carries on.
LoseLockConnection(w) ==
    /\ drops < MaxDrops
    /\ pc[w] \in UnderLock
    /\ holder[Job(w)] = w
    /\ drops' = drops + 1
    /\ holder' = Released(w)
    /\ UNCHANGED <<clock, runs, workerVars, crashes>>

Tick ==
    /\ clock < MaxTime
    /\ clock' = clock + 1
    /\ UNCHANGED <<runs, holder, workerVars, faultVars>>

Step(w) ==
    \/ BeginTick(w)
    \/ EndTick(w)
    \/ NotDue(w)
    \/ FindDue(w)
    \/ SkipRunningElsewhere(w)
    \/ Acquire(w)
    \/ ReconcileOrphan(w)
    \/ InsertRun(w)
    \/ FinishBody(w)
    \/ RecordOutcome(w)
    \/ Unlock(w)
    \/ UnlockRaises(w)

Next ==
    \/ Tick
    \/ \E w \in Workers : Step(w) \/ Crash(w) \/ LoseLockConnection(w)

Spec == Init /\ [][Next]_vars

\* A worker container is restarted and keeps polling, a job's body returns
\* or raises, and time passes.
Fairness == WF_vars(Tick) /\ \A w \in Workers : WF_vars(Step(w))

FairSpec == Spec /\ Fairness

(***************************************************************************)
(* Properties                                                              *)
(***************************************************************************)

\* Two workers never execute the body of one job at the same time: the
\* advisory lock is taken on a connection that lives exactly as long as the
\* run (_lock_engine, _run_one).
MutualExclusion ==
    \A v, w \in Workers :
        (pc[v] \in Executing /\ pc[w] \in Executing /\ Job(v) = Job(w)) => v = w

\* A job has at most one row in progress, and only its newest row can be
\* one: a row orphaned by a crash is failed before the next is inserted
\* (_reconcile_orphan), so the history never shows two attempts at once.
OneRunningRow ==
    \A j \in Jobs : \A k \in 1..Len(runs[j]) :
        runs[j][k].status = "running" => k = Len(runs[j])

\* The inductive strengthening of the two above, for lock connections that
\* are not lost: a worker between acquire and release holds the lock of the
\* job it is at and no other; the row it inserted is the one in progress;
\* and between reconciliation and insertion there is none.
LockInv ==
    /\ \A w \in Workers :
          /\ pc[w] \in UnderLock \cup {"lock"} => at[w] <= Len(Registry)
          /\ pc[w] \in UnderLock => holder[Job(w)] = w
    /\ \A j \in Jobs, w \in Workers :
          holder[j] = w => pc[w] \in UnderLock /\ Job(w) = j

RowInv ==
    \A w \in Workers :
        /\ pc[w] = "insert" =>
              \A k \in 1..Len(runs[Job(w)]) : runs[Job(w)][k].status \in Finished
        /\ pc[w] \in Executing =>
              /\ row[w] \in 1..Len(runs[Job(w)])
              /\ runs[Job(w)][row[w]].status = "running"

SchedulerInv == TypeOK /\ LockInv /\ RowInv /\ OneRunningRow

\* job_run is append-only and a finished row is never rewritten: no crash,
\* reconciliation or late worker changes an outcome already recorded.
HistoryIsFinal ==
    [][\A j \in Jobs :
          /\ Len(runs'[j]) >= Len(runs[j])
          /\ \A k \in 1..Len(runs[j]) :
                runs[j][k].status \in Finished => runs'[j][k] = runs[j][k]]_vars

\* The rows of job_run, as the abstract ledger sees them.
Outcome(rs) == [k \in 1..Len(rs) |-> rs[k].status]

Ledger == INSTANCE JobLedger WITH ledger <- [j \in Jobs |-> Outcome(runs[j])]

\* The scheduler implements the compliance record JobRun describes.
ImplementsLedger == Ledger!Spec

\* The job's interval has passed since its newest row.
Overdue(j) ==
    /\ runs[j] # <<>>
    /\ clock - Reference(runs[j][Len(runs[j])]) >= Interval[j]

InProgress(j) == \E k \in 1..Len(runs[j]) : runs[j][k].status = "running"

\* A row that a crash left running does not stay so: a job is never overdue
\* with a row in progress for ever, whatever worker died and whatever lock
\* connection was lost (_is_due falls back on started_at, _reconcile_orphan).
OrphanReconciled == \A j \in Jobs : []<>~(Overdue(j) /\ InProgress(j))

\* "Running it exactly once": a job is not run again before its interval
\* has passed since its previous run.
NoDoubleRun ==
    \A j \in Jobs : \A k \in 2..Len(runs[j]) :
        runs[j][k].started - Reference(runs[j][k - 1]) >= Interval[j]
=============================================================================
