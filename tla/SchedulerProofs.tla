--------------------------- MODULE SchedulerProofs ---------------------------
(***************************************************************************)
(* For any number of workers, jobs and crashes, and lock connections that  *)
(* are not lost: one executor per job, one row in progress, a history that *)
(* is never rewritten, and the abstract ledger implemented.                *)
(*                                                                         *)
(* MutualExclusion and OneRunningRow are not inductive: a worker past its  *)
(* lock must be known to hold it, and the row it records on must be known  *)
(* to be the one in progress.  SchedulerInv adds both.                     *)
(***************************************************************************)
EXTENDS Scheduler, TLAPS

\* A job's registry position names a job.
LEMMA JobAtPosition ==
    ASSUME NEW i \in 1..Len(Registry)
    PROVE  Registry[i] \in Jobs
BY DEF Jobs

\* What _reconcile_orphan leaves: as many rows, none of them running, and
\* every row that was finished as it was.
LEMMA ReconciledRows ==
    ASSUME NEW rs \in Seq(Rows), NEW t \in Nat
    PROVE  /\ Reconciled(rs, t) \in Seq(Rows)
           /\ Len(Reconciled(rs, t)) = Len(rs)
           /\ \A k \in 1..Len(rs) :
                 /\ Reconciled(rs, t)[k].status \in Finished
                 /\ rs[k].status \in Finished => Reconciled(rs, t)[k] = rs[k]
<1> DEFINE new == Reconciled(rs, t)
<1>1. \A k \in 1..Len(rs) : rs[k] \in Rows
  OBVIOUS
<1>2. \A k \in 1..Len(rs) :
         /\ new[k] \in Rows
         /\ new[k].status \in Finished
         /\ rs[k].status \in Finished => new[k] = rs[k]
  BY <1>1 DEF Reconciled, Rows, Statuses, Finished
<1>3. new \in [1..Len(rs) -> Rows]
  BY <1>2 DEF Reconciled
<1>4. Len(rs) \in Nat
  OBVIOUS
<1>5. new \in Seq(Rows) /\ Len(new) = Len(rs)
  BY <1>3, <1>4
<1> QED
  BY <1>2, <1>5

\* What recording an outcome leaves: as many rows, and all but the recorded
\* one as they were.
LEMMA RecordedRows ==
    ASSUME NEW rs \in Seq(Rows), NEW k \in 1..Len(rs), NEW o \in Finished,
           NEW t \in Nat
    PROVE  /\ Recorded(rs, k, o, t) \in Seq(Rows)
           /\ Len(Recorded(rs, k, o, t)) = Len(rs)
           /\ Recorded(rs, k, o, t)[k].status = o
           /\ \A l \in 1..Len(rs) : l # k => Recorded(rs, k, o, t)[l] = rs[l]
<1>1. rs[k] \in Rows
  OBVIOUS
<1>2. [rs[k] EXCEPT !.status = o, !.finished = t] \in Rows
  BY <1>1 DEF Rows, Statuses, Finished
<1>3. [rs[k] EXCEPT !.status = o, !.finished = t].status = o
  BY <1>1 DEF Rows
<1> QED
  BY <1>2, <1>3 DEF Recorded

\* Inserting a row adds it at the end.
LEMMA InsertedRow ==
    ASSUME NEW rs \in Seq(Rows), NEW t \in Nat
    PROVE  LET r == [status |-> "running", started |-> t, finished |-> Null]
           IN  /\ Append(rs, r) \in Seq(Rows)
               /\ Len(Append(rs, r)) = Len(rs) + 1
               /\ Append(rs, r)[Len(rs) + 1] = r
               /\ \A l \in 1..Len(rs) : Append(rs, r)[l] = rs[l]
<1>1. [status |-> "running", started |-> t, finished |-> Null] \in Rows
  BY DEF Rows, Statuses
<1> QED
  BY <1>1

\* No run, no lock and no worker on the way.
LEMMA InitInv == Init => SchedulerInv
<1> SUFFICES ASSUME Init PROVE SchedulerInv
  OBVIOUS
<1>1. TypeOK
  BY SchedulerAssumption DEF Init, TypeOK, Steps, Finished
<1>2. LockInv
  BY SchedulerAssumption DEF Init, LockInv, UnderLock
<1>3. RowInv
  BY DEF Init, RowInv, Executing
<1>4. OneRunningRow
  BY DEF Init, OneRunningRow
<1> QED
  BY <1>1, <1>2, <1>3, <1>4 DEF SchedulerInv

\* While a worker holds the lock of the job it is at, no other worker is
\* under that lock: what a step does to that job's rows disturbs nobody.
LEMMA SoleHolder ==
    ASSUME LockInv, NEW v \in Workers, NEW w \in Workers,
           pc[v] \in UnderLock, pc[w] \in UnderLock, Job(v) = Job(w)
    PROVE  v = w
BY DEF LockInv

\* The worker at a step under the lock is at a registered job.
LEMMA JobOfHolder ==
    ASSUME TypeOK, LockInv, NEW w \in Workers,
           pc[w] \in UnderLock \cup {"lock"}
    PROVE  Job(w) \in Jobs
<1>1. at[w] \in 1..Len(Registry)
  BY SchedulerAssumption DEF TypeOK, LockInv
<1> QED
  BY <1>1, JobAtPosition DEF Job

\* Releasing gives up exactly the locks the worker held.
LEMMA ReleasedHolder ==
    ASSUME TypeOK, NEW w \in Workers
    PROVE  /\ Released(w) \in [Jobs -> Workers \cup {NoWorker}]
           /\ \A j \in Jobs : Released(w)[j] # w
           /\ \A j \in Jobs : holder[j] # w => Released(w)[j] = holder[j]
           /\ \A j \in Jobs : Released(w)[j] = NoWorker \/ Released(w)[j] = holder[j]
BY SchedulerAssumption DEF Released, TypeOK

\* Every step keeps the types.
LEMMA TypeStep == SchedulerInv /\ [Next]_vars => TypeOK'
<1> SUFFICES ASSUME SchedulerInv, [Next]_vars PROVE TypeOK'
  OBVIOUS
<1> USE DEF SchedulerInv
<1>1. ASSUME UNCHANGED vars PROVE TypeOK'
  BY <1>1 DEF vars, ledgerVars, workerVars, faultVars, TypeOK
<1>2. ASSUME Tick PROVE TypeOK'
  BY <1>2 DEF Tick, workerVars, faultVars, TypeOK
<1>3. ASSUME NEW w \in Workers, Crash(w) PROVE TypeOK'
  BY <1>3, ReleasedHolder DEF Crash, Return, TypeOK, Steps, Finished
<1>4. ASSUME NEW w \in Workers, LoseLockConnection(w) PROVE TypeOK'
  BY <1>4, ReleasedHolder DEF LoseLockConnection, workerVars, TypeOK
<1>5. ASSUME NEW w \in Workers, Step(w) PROVE TypeOK'
  <2>1. CASE BeginTick(w)
    BY <2>1 DEF BeginTick, ledgerVars, faultVars, TypeOK, Steps
  <2>2. CASE EndTick(w)
    BY <2>2, SchedulerAssumption
    DEF EndTick, Return, ledgerVars, faultVars, TypeOK, Steps, Finished
  <2>3. CASE NotDue(w)
    BY <2>3, SchedulerAssumption DEF NotDue, ledgerVars, faultVars, TypeOK
  <2>4. CASE FindDue(w)
    BY <2>4 DEF FindDue, ledgerVars, faultVars, TypeOK, Steps
  <2>5. CASE SkipRunningElsewhere(w)
    BY <2>5, SchedulerAssumption
    DEF SkipRunningElsewhere, ledgerVars, faultVars, TypeOK, Steps, LockInv
  <2>6. CASE Acquire(w)
    BY <2>6 DEF Acquire, faultVars, TypeOK, Steps
  <2>7. CASE ReconcileOrphan(w)
    <3>1. Job(w) \in Jobs
      BY <2>7, JobOfHolder DEF ReconcileOrphan, UnderLock
    <3>2. Reconciled(runs[Job(w)], clock) \in Seq(Rows)
      BY <3>1, ReconciledRows DEF TypeOK
    <3> QED
      BY <2>7, <3>2 DEF ReconcileOrphan, faultVars, TypeOK, Steps
  <2>8. CASE InsertRun(w)
    <3>1. Job(w) \in Jobs
      BY <2>8, JobOfHolder DEF InsertRun, UnderLock
    <3>2. Append(runs[Job(w)], [status |-> "running", started |-> clock,
                                finished |-> Null]) \in Seq(Rows)
      BY <3>1, InsertedRow DEF TypeOK
    <3>3. Len(runs[Job(w)]) + 1 \in Nat
      BY <3>1 DEF TypeOK
    <3> QED
      BY <2>8, <3>2, <3>3 DEF InsertRun, faultVars, TypeOK, Steps
  <2>9. CASE FinishBody(w)
    BY <2>9 DEF FinishBody, ledgerVars, faultVars, TypeOK, Steps
  <2>10. CASE RecordOutcome(w)
    <3>1. Job(w) \in Jobs
      BY <2>10, JobOfHolder DEF RecordOutcome, UnderLock
    <3>2. row[w] \in 1..Len(runs[Job(w)])
      BY <2>10 DEF RecordOutcome, RowInv, Executing
    <3>3. Recorded(runs[Job(w)], row[w], outcome[w], clock) \in Seq(Rows)
      BY <3>1, <3>2, RecordedRows DEF TypeOK
    <3> QED
      BY <2>10, <3>3 DEF RecordOutcome, faultVars, TypeOK, Steps
  <2>11. CASE Unlock(w)
    BY <2>11, ReleasedHolder, SchedulerAssumption
    DEF Unlock, faultVars, TypeOK, Steps, LockInv, UnderLock, Finished
  <2>12. CASE UnlockRaises(w)
    BY <2>12, SchedulerAssumption
    DEF UnlockRaises, Return, ledgerVars, faultVars, TypeOK, Steps, Finished
  <2> QED
    BY <1>5, <2>1, <2>2, <2>3, <2>4, <2>5, <2>6, <2>7, <2>8, <2>9, <2>10,
       <2>11, <2>12 DEF Step
<1> QED
  BY <1>1, <1>2, <1>3, <1>4, <1>5 DEF Next

\* A worker that releases its lock and leaves the locked section takes no
\* other worker's lock away.
LEMMA ReleaseKeepsLocks ==
    ASSUME TypeOK, LockInv, NEW w \in Workers, holder' = Released(w),
           NEW p \in Steps \ (UnderLock \cup {"lock"}), NEW n,
           pc' = [pc EXCEPT ![w] = p], at' = [at EXCEPT ![w] = n]
    PROVE  LockInv'
<1>1. pc'[w] = p
  BY DEF TypeOK
<1>2. \A v \in Workers : v # w => pc'[v] = pc[v] /\ at'[v] = at[v]
  BY DEF TypeOK
<1>3. \A v \in Workers : v # w /\ pc[v] \in UnderLock => holder'[Job(v)] = v
  BY ReleasedHolder, JobOfHolder DEF LockInv
<1>4. \A j \in Jobs, v \in Workers : holder'[j] = v => v # w /\ holder[j] = v
  BY ReleasedHolder, SchedulerAssumption
<1> QED
  BY <1>1, <1>2, <1>3, <1>4 DEF LockInv, Job

\* Without lost connections, every step keeps the locks where LockInv says.
LEMMA LockStep ==
    ASSUME MaxDrops = 0, SchedulerInv, [Next]_vars
    PROVE  LockInv'
<1> USE DEF SchedulerInv
<1>1. ASSUME UNCHANGED vars PROVE LockInv'
  BY <1>1 DEF vars, ledgerVars, workerVars, faultVars, LockInv, Job
<1>2. ASSUME Tick PROVE LockInv'
  BY <1>2 DEF Tick, workerVars, faultVars, LockInv, Job
<1>3. ASSUME NEW w \in Workers, Crash(w) PROVE LockInv'
  <2>1. /\ holder' = Released(w)
        /\ pc' = [pc EXCEPT ![w] = "sleep"]
        /\ at' = [at EXCEPT ![w] = 1]
    BY <1>3 DEF Crash, Return
  <2> QED
    BY <2>1, ReleaseKeepsLocks DEF UnderLock, Steps, SchedulerInv
<1>4. ASSUME NEW w \in Workers, LoseLockConnection(w) PROVE LockInv'
  BY <1>4 DEF LoseLockConnection, TypeOK
<1>5. ASSUME NEW w \in Workers, Step(w) PROVE LockInv'
  <2>1. CASE BeginTick(w)
    BY <2>1 DEF BeginTick, ledgerVars, LockInv, Job, UnderLock, TypeOK
  <2>2. CASE EndTick(w)
    BY <2>2 DEF EndTick, Return, ledgerVars, LockInv, Job, UnderLock, TypeOK
  <2>3. CASE NotDue(w)
    BY <2>3 DEF NotDue, ledgerVars, LockInv, Job, UnderLock, TypeOK
  <2>4. CASE FindDue(w)
    BY <2>4 DEF FindDue, ledgerVars, LockInv, Job, UnderLock, TypeOK
  <2>5. CASE SkipRunningElsewhere(w)
    BY <2>5 DEF SkipRunningElsewhere, ledgerVars, LockInv, Job, UnderLock, TypeOK
  <2>6. CASE Acquire(w)
    <3>1. Job(w) \in Jobs
      BY <2>6, JobOfHolder DEF Acquire
    <3> QED
      BY <2>6, <3>1, SchedulerAssumption DEF Acquire, LockInv, Job, UnderLock, TypeOK
  <2>7. CASE ReconcileOrphan(w)
    BY <2>7 DEF ReconcileOrphan, LockInv, Job, UnderLock, TypeOK
  <2>8. CASE InsertRun(w)
    BY <2>8 DEF InsertRun, LockInv, Job, UnderLock, TypeOK
  <2>9. CASE FinishBody(w)
    BY <2>9 DEF FinishBody, ledgerVars, LockInv, Job, UnderLock, TypeOK
  <2>10. CASE RecordOutcome(w)
    BY <2>10 DEF RecordOutcome, LockInv, Job, UnderLock, TypeOK
  <2>11. CASE Unlock(w)
    <3>1. /\ holder' = Released(w)
          /\ pc' = [pc EXCEPT ![w] = "scan"]
          /\ at' = [at EXCEPT ![w] = @ + 1]
      BY <2>11 DEF Unlock
    <3> QED
      BY <3>1, ReleaseKeepsLocks DEF UnderLock, Steps, SchedulerInv
  <2>12. CASE UnlockRaises(w)
    BY <2>12 DEF UnlockRaises, LockInv, UnderLock
  <2> QED
    BY <1>5, <2>1, <2>2, <2>3, <2>4, <2>5, <2>6, <2>7, <2>8, <2>9, <2>10,
       <2>11, <2>12 DEF Step
<1> QED
  BY <1>1, <1>2, <1>3, <1>4, <1>5 DEF Next

\* A step that leaves the rows alone and brings no worker to "insert" or
\* into the body keeps RowInv.
LEMMA RowInvQuiet ==
    ASSUME RowInv, UNCHANGED runs,
           \A v \in Workers :
              /\ pc'[v] = "insert" => pc[v] = "insert"
              /\ pc'[v] \in Executing => pc[v] \in Executing
              /\ pc'[v] \in Executing \cup {"insert"} => at'[v] = at[v]
              /\ pc'[v] \in Executing => row'[v] = row[v]
    PROVE  RowInv'
BY DEF RowInv, Job

\* Rows are written by the holder of the job's lock alone.
LEMMA RowStep ==
    ASSUME MaxDrops = 0, SchedulerInv, [Next]_vars
    PROVE  RowInv' /\ OneRunningRow'
<1> USE DEF SchedulerInv
<1>1. ASSUME UNCHANGED vars PROVE RowInv' /\ OneRunningRow'
  BY <1>1 DEF vars, ledgerVars, workerVars, faultVars, RowInv, OneRunningRow, Job
<1>2. ASSUME Tick PROVE RowInv' /\ OneRunningRow'
  BY <1>2 DEF Tick, workerVars, RowInv, OneRunningRow, Job
<1>3. ASSUME NEW w \in Workers, Crash(w) PROVE RowInv' /\ OneRunningRow'
  BY <1>3, RowInvQuiet DEF Crash, Return, OneRunningRow, TypeOK, Executing
<1>4. ASSUME NEW w \in Workers, LoseLockConnection(w) PROVE RowInv' /\ OneRunningRow'
  BY <1>4 DEF LoseLockConnection, TypeOK
<1>5. ASSUME NEW w \in Workers, Step(w) PROVE RowInv' /\ OneRunningRow'
  <2>1. CASE BeginTick(w)
    BY <2>1, RowInvQuiet DEF BeginTick, ledgerVars, OneRunningRow, TypeOK, Executing
  <2>2. CASE EndTick(w)
    BY <2>2, RowInvQuiet DEF EndTick, Return, ledgerVars, OneRunningRow, TypeOK, Executing
  <2>3. CASE NotDue(w)
    BY <2>3, RowInvQuiet DEF NotDue, ledgerVars, OneRunningRow, TypeOK, Executing
  <2>4. CASE FindDue(w)
    BY <2>4, RowInvQuiet DEF FindDue, ledgerVars, OneRunningRow, TypeOK, Executing
  <2>5. CASE SkipRunningElsewhere(w)
    BY <2>5, RowInvQuiet
    DEF SkipRunningElsewhere, ledgerVars, OneRunningRow, TypeOK, Executing
  <2>6. CASE Acquire(w)
    BY <2>6, RowInvQuiet DEF Acquire, OneRunningRow, TypeOK, Executing
  <2>7. CASE ReconcileOrphan(w)
    <3> DEFINE j == Job(w)
    <3>1. j \in Jobs /\ runs[j] \in Seq(Rows)
      BY <2>7, JobOfHolder DEF ReconcileOrphan, UnderLock, TypeOK
    <3>2. /\ runs' = [runs EXCEPT ![j] = Reconciled(@, clock)]
          /\ runs'[j] = Reconciled(runs[j], clock)
          /\ pc' = [pc EXCEPT ![w] = "insert"]
          /\ at' = at /\ row' = row
      BY <2>7, <3>1 DEF ReconcileOrphan, TypeOK
    <3>3. /\ Len(runs'[j]) = Len(runs[j])
          /\ \A k \in 1..Len(runs[j]) : runs'[j][k].status \in Finished
      BY <3>1, <3>2, ReconciledRows DEF TypeOK
    <3>4. \A v \in Workers : v # w /\ pc[v] \in UnderLock => Job(v) # j
      BY <2>7, SoleHolder DEF ReconcileOrphan, UnderLock
    <3>5. RowInv'
      BY <3>1, <3>2, <3>3, <3>4 DEF RowInv, Job, TypeOK, UnderLock, Executing
    <3>6. OneRunningRow'
      BY <3>1, <3>2, <3>3 DEF OneRunningRow, TypeOK, Finished
    <3> QED
      BY <3>5, <3>6
  <2>8. CASE InsertRun(w)
    <3> DEFINE j == Job(w)
               r == [status |-> "running", started |-> clock, finished |-> Null]
    <3>1. j \in Jobs /\ runs[j] \in Seq(Rows)
      BY <2>8, JobOfHolder DEF InsertRun, UnderLock, TypeOK
    <3>2. /\ runs' = [runs EXCEPT ![j] = Append(@, r)]
          /\ runs'[j] = Append(runs[j], r)
          /\ pc' = [pc EXCEPT ![w] = "body"]
          /\ row' = [row EXCEPT ![w] = Len(runs[j]) + 1]
          /\ at' = at
      BY <2>8, <3>1 DEF InsertRun, TypeOK
    <3>3. /\ Len(runs'[j]) = Len(runs[j]) + 1
          /\ runs'[j][Len(runs[j]) + 1].status = "running"
          /\ \A k \in 1..Len(runs[j]) : runs'[j][k] = runs[j][k]
      BY <3>1, <3>2, InsertedRow DEF TypeOK
    <3>4. \A v \in Workers : v # w /\ pc[v] \in UnderLock => Job(v) # j
      BY <2>8, SoleHolder DEF InsertRun, UnderLock
    <3>5. RowInv'
      BY <3>1, <3>2, <3>3, <3>4 DEF RowInv, Job, TypeOK, UnderLock, Executing
    <3>6. \A k \in 1..Len(runs[j]) : runs[j][k].status \in Finished
      BY <2>8 DEF InsertRun, RowInv
    <3>7. \A k \in 1..Len(runs'[j]) :
             runs'[j][k].status = "running" => k = Len(runs'[j])
      <4> SUFFICES ASSUME NEW k \in 1..Len(runs[j]) PROVE runs'[j][k].status # "running"
        BY <3>1, <3>3
      <4> QED
        BY <3>3, <3>6 DEF Finished
    <3>8. \A i \in Jobs \ {j} : runs'[i] = runs[i]
      BY <3>1, <3>2 DEF TypeOK
    <3>9. OneRunningRow'
      BY <3>7, <3>8 DEF OneRunningRow
    <3> QED
      BY <3>5, <3>9
  <2>9. CASE FinishBody(w)
    BY <2>9, RowInvQuiet DEF FinishBody, ledgerVars, OneRunningRow, TypeOK, Executing
  <2>10. CASE RecordOutcome(w)
    <3> DEFINE j == Job(w)
    <3>1. j \in Jobs /\ runs[j] \in Seq(Rows)
      BY <2>10, JobOfHolder DEF RecordOutcome, UnderLock, TypeOK
    <3>2. /\ runs' = [runs EXCEPT ![j] = Recorded(@, row[w], outcome[w], clock)]
          /\ runs'[j] = Recorded(runs[j], row[w], outcome[w], clock)
          /\ pc' = [pc EXCEPT ![w] = "unlock"]
          /\ at' = at /\ row' = row
      BY <2>10, <3>1 DEF RecordOutcome, TypeOK
    <3>3. row[w] \in 1..Len(runs[j])
      BY <2>10 DEF RecordOutcome, RowInv, Executing
    <3>. outcome[w] \in Finished /\ clock \in Nat
      BY DEF TypeOK
    <3>4. /\ Len(runs'[j]) = Len(runs[j])
          /\ runs'[j][row[w]].status \in Finished
          /\ \A k \in 1..Len(runs[j]) : k # row[w] => runs'[j][k] = runs[j][k]
      BY <3>1, <3>2, <3>3, RecordedRows
    <3>5. \A v \in Workers : v # w /\ pc[v] \in UnderLock => Job(v) # j
      BY <2>10, SoleHolder DEF RecordOutcome, UnderLock
    <3>6. RowInv'
      BY <3>1, <3>2, <3>5 DEF RowInv, Job, TypeOK, UnderLock, Executing
    <3>7. OneRunningRow'
      BY <3>1, <3>2, <3>4 DEF OneRunningRow, TypeOK, Finished
    <3> QED
      BY <3>6, <3>7
  <2>11. CASE Unlock(w)
    BY <2>11, RowInvQuiet DEF Unlock, OneRunningRow, TypeOK, Executing
  <2>12. CASE UnlockRaises(w)
    BY <2>12, RowInvQuiet
    DEF UnlockRaises, Return, ledgerVars, OneRunningRow, TypeOK, Executing
  <2> QED
    BY <1>5, <2>1, <2>2, <2>3, <2>4, <2>5, <2>6, <2>7, <2>8, <2>9, <2>10,
       <2>11, <2>12 DEF Step
<1> QED
  BY <1>1, <1>2, <1>3, <1>4, <1>5 DEF Next

\* SchedulerInv is inductive when no lock connection is lost.
THEOREM SchedulerInvariant ==
    ASSUME MaxDrops = 0
    PROVE  Spec => []SchedulerInv
<1>1. Init => SchedulerInv
  BY InitInv
<1>2. SchedulerInv /\ [Next]_vars => SchedulerInv'
  BY TypeStep, LockStep, RowStep DEF SchedulerInv
<1> QED
  BY <1>1, <1>2, PTL DEF Spec

\* One executor per job (_run_one under _lock_engine's advisory lock).
THEOREM SchedulerMutualExclusion ==
    ASSUME MaxDrops = 0
    PROVE  Spec => []MutualExclusion
<1>1. SchedulerInv => MutualExclusion
  BY SoleHolder DEF SchedulerInv, MutualExclusion, Executing, UnderLock
<1> QED
  BY <1>1, SchedulerInvariant, PTL

\* Every request, lock and row of the scheduler has its type.
THEOREM SchedulerTypes ==
    ASSUME MaxDrops = 0
    PROVE  Spec => []TypeOK
<1>1. SchedulerInv => TypeOK
  BY DEF SchedulerInv
<1> QED
  BY <1>1, SchedulerInvariant, PTL

\* One row in progress per job, the newest (_reconcile_orphan).
THEOREM SchedulerOneRunningRow ==
    ASSUME MaxDrops = 0
    PROVE  Spec => []OneRunningRow
<1>1. SchedulerInv => OneRunningRow
  BY DEF SchedulerInv
<1> QED
  BY <1>1, SchedulerInvariant, PTL

\* Only three steps write job_run.
LEMMA RunsWriters ==
    ASSUME [Next]_vars
    PROVE  \/ UNCHANGED runs
           \/ \E w \in Workers :
                 ReconcileOrphan(w) \/ InsertRun(w) \/ RecordOutcome(w)
BY DEF Next, Step, vars, ledgerVars, Tick, Crash, LoseLockConnection, BeginTick,
       EndTick, NotDue, FindDue, SkipRunningElsewhere, Acquire, FinishBody,
       Unlock, UnlockRaises

\* What each of the three does to the rows of the worker's job.
LEMMA ReconcileEffect ==
    ASSUME SchedulerInv, NEW w \in Workers, ReconcileOrphan(w)
    PROVE  /\ Job(w) \in Jobs
           /\ \A i \in Jobs \ {Job(w)} : runs'[i] = runs[i]
           /\ runs'[Job(w)] \in Seq(Rows)
           /\ Len(runs'[Job(w)]) = Len(runs[Job(w)])
           /\ \A k \in 1..Len(runs[Job(w)]) :
                 IF runs[Job(w)][k].status \in Finished
                 THEN runs'[Job(w)][k] = runs[Job(w)][k]
                 ELSE runs'[Job(w)][k].status = "failed"
<1> DEFINE j == Job(w)
<1>1. j \in Jobs /\ runs[j] \in Seq(Rows) /\ clock \in Nat
  BY JobOfHolder DEF SchedulerInv, ReconcileOrphan, UnderLock, TypeOK
<1>2. /\ runs'[j] = Reconciled(runs[j], clock)
      /\ \A i \in Jobs \ {j} : runs'[i] = runs[i]
  BY <1>1 DEF ReconcileOrphan, SchedulerInv, TypeOK
<1>3. /\ Reconciled(runs[j], clock) \in Seq(Rows)
      /\ Len(Reconciled(runs[j], clock)) = Len(runs[j])
      /\ \A k \in 1..Len(runs[j]) :
            runs[j][k].status \in Finished =>
               Reconciled(runs[j], clock)[k] = runs[j][k]
  BY <1>1, ReconciledRows
<1>4. ASSUME NEW k \in 1..Len(runs[j]), runs[j][k].status \notin Finished
      PROVE  Reconciled(runs[j], clock)[k].status = "failed"
  <2>1. runs[j][k] \in Rows
    BY <1>1
  <2>2. runs[j][k].status = "running"
    BY <1>4, <2>1 DEF Rows, Statuses, Finished
  <2>3. Reconciled(runs[j], clock)[k] =
           [runs[j][k] EXCEPT !.status = "failed", !.finished = clock]
    BY <2>2 DEF Reconciled
  <2> QED
    BY <2>1, <2>3 DEF Rows
<1> QED
  BY <1>1, <1>2, <1>3, <1>4

\* What InsertRun leaves: one more row of the job, in progress, and the
\* others as they were.
LEMMA InsertEffect ==
    ASSUME SchedulerInv, NEW w \in Workers, InsertRun(w)
    PROVE  /\ Job(w) \in Jobs
           /\ \A i \in Jobs \ {Job(w)} : runs'[i] = runs[i]
           /\ runs'[Job(w)] \in Seq(Rows)
           /\ Len(runs'[Job(w)]) = Len(runs[Job(w)]) + 1
           /\ runs'[Job(w)][Len(runs[Job(w)]) + 1].status = "running"
           /\ \A k \in 1..Len(runs[Job(w)]) :
                 /\ runs'[Job(w)][k] = runs[Job(w)][k]
                 /\ runs[Job(w)][k].status \in Finished
<1> DEFINE j == Job(w)
           r == [status |-> "running", started |-> clock, finished |-> Null]
<1>1. j \in Jobs /\ runs[j] \in Seq(Rows) /\ clock \in Nat
  BY JobOfHolder DEF SchedulerInv, InsertRun, UnderLock, TypeOK
<1>2. /\ runs'[j] = Append(runs[j], r)
      /\ \A i \in Jobs \ {j} : runs'[i] = runs[i]
  BY <1>1 DEF InsertRun, SchedulerInv, TypeOK
<1>3. \A k \in 1..Len(runs[j]) : runs[j][k].status \in Finished
  BY DEF InsertRun, SchedulerInv, RowInv
<1> QED
  BY <1>1, <1>2, <1>3, InsertedRow

\* What RecordOutcome leaves: the worker's own row settled, and the others
\* as they were.
LEMMA RecordEffect ==
    ASSUME SchedulerInv, NEW w \in Workers, RecordOutcome(w)
    PROVE  /\ Job(w) \in Jobs
           /\ \A i \in Jobs \ {Job(w)} : runs'[i] = runs[i]
           /\ runs'[Job(w)] \in Seq(Rows)
           /\ Len(runs'[Job(w)]) = Len(runs[Job(w)])
           /\ row[w] \in 1..Len(runs[Job(w)])
           /\ runs[Job(w)][row[w]].status = "running"
           /\ runs'[Job(w)][row[w]].status = outcome[w]
           /\ outcome[w] \in Finished
           /\ \A k \in 1..Len(runs[Job(w)]) :
                 k # row[w] => runs'[Job(w)][k] = runs[Job(w)][k]
<1> DEFINE j == Job(w)
<1>1. j \in Jobs /\ runs[j] \in Seq(Rows) /\ clock \in Nat /\ outcome[w] \in Finished
  BY JobOfHolder DEF SchedulerInv, RecordOutcome, UnderLock, TypeOK
<1>2. /\ runs'[j] = Recorded(runs[j], row[w], outcome[w], clock)
      /\ \A i \in Jobs \ {j} : runs'[i] = runs[i]
  BY <1>1 DEF RecordOutcome, SchedulerInv, TypeOK
<1>3. row[w] \in 1..Len(runs[j]) /\ runs[j][row[w]].status = "running"
  BY DEF RecordOutcome, SchedulerInv, RowInv, Executing
<1> QED
  BY <1>1, <1>2, <1>3, RecordedRows

\* No outcome already recorded is ever rewritten (JobRun).
THEOREM SchedulerHistoryIsFinal ==
    ASSUME MaxDrops = 0
    PROVE  Spec => HistoryIsFinal
<1> DEFINE Final ==
        \A j \in Jobs :
          /\ Len(runs'[j]) >= Len(runs[j])
          /\ \A k \in 1..Len(runs[j]) :
                runs[j][k].status \in Finished => runs'[j][k] = runs[j][k]
<1>1. ASSUME SchedulerInv, [Next]_vars PROVE Final
  <2> USE <1>1
  <2>1. \A j \in Jobs : Len(runs[j]) \in Nat
    BY DEF SchedulerInv, TypeOK
  <2>2. CASE UNCHANGED runs
    BY <2>1, <2>2
  <2>3. ASSUME NEW w \in Workers, ReconcileOrphan(w) PROVE Final
    BY <2>1, <2>3, ReconcileEffect
  <2>4. ASSUME NEW w \in Workers, InsertRun(w) PROVE Final
    BY <2>1, <2>4, InsertEffect
  <2>5. ASSUME NEW w \in Workers, RecordOutcome(w) PROVE Final
    <3>1. "running" \notin Finished
      BY DEF Finished
    <3> QED
      BY <2>1, <2>5, <3>1, RecordEffect
  <2> QED
    BY <2>2, <2>3, <2>4, <2>5, RunsWriters
<1>2. SchedulerInv /\ [Next]_vars => [Final]_vars
  BY <1>1
<1> QED
  BY <1>2, SchedulerInvariant, PTL DEF Spec, HistoryIsFinal

\* Every step of the scheduler is a step of the ledger, or leaves it alone:
\* reconciliation settles the one orphan there may be, insertion begins an
\* attempt when none is in progress, recording settles the worker's own.
LEMMA LedgerStep ==
    ASSUME SchedulerInv, [Next]_vars
    PROVE  [Ledger!Next]_[j \in Jobs |-> Outcome(runs[j])]
<1> DEFINE led == [j \in Jobs |-> Outcome(runs[j])]
<1>1. ASSUME NEW j \in Jobs
      PROVE  /\ Len(runs[j]) \in Nat
             /\ Len(led[j]) = Len(runs[j])
             /\ led[j] = Outcome(runs[j])
             /\ \A k \in 1..Len(runs[j]) : led[j][k] = runs[j][k].status
             /\ DOMAIN led[j] = 1..Len(runs[j])
  BY DEF SchedulerInv, TypeOK, Outcome
<1>2. CASE UNCHANGED runs
  BY <1>2
<1>3. ASSUME NEW w \in Workers, ReconcileOrphan(w)
      PROVE  Ledger!Next \/ led' = led
  <2> DEFINE j == Job(w)
             n == Len(runs[j])
  <2>1. /\ j \in Jobs
        /\ \A i \in Jobs \ {j} : runs'[i] = runs[i]
        /\ Len(runs'[j]) = n
        /\ n \in Nat
        /\ \A k \in 1..n : IF runs[j][k].status \in Finished
                           THEN runs'[j][k] = runs[j][k]
                           ELSE runs'[j][k].status = "failed"
    BY <1>1, <1>3, ReconcileEffect
  <2>2. Outcome(runs'[j]) = [k \in 1..n |-> runs'[j][k].status]
    BY <2>1 DEF Outcome
  <2>3. CASE \A k \in 1..n : runs[j][k].status \in Finished
    <3>1. Outcome(runs'[j]) = Outcome(runs[j])
      BY <2>1, <2>2, <2>3 DEF Outcome
    <3> QED
      BY <2>1, <3>1
  <2>4. CASE \E k \in 1..n : runs[j][k].status \notin Finished
    <3>1. PICK k \in 1..n : runs[j][k].status \notin Finished
      BY <2>4
    <3>2. \A l \in 1..n : runs[j][l] \in Rows
      BY <2>1 DEF SchedulerInv, TypeOK
    <3>3. \A l \in 1..n : runs[j][l].status \notin Finished =>
                             runs[j][l].status = "running"
      BY <3>2 DEF Rows, Statuses, Finished
    <3>4. \A l \in 1..n : l # k => runs[j][l].status \in Finished
      BY <2>1, <3>1, <3>3 DEF SchedulerInv, OneRunningRow
    <3>5. led[j][k] = "running"
      BY <1>1, <2>1, <3>1, <3>3
    <3>6. Outcome(runs'[j]) = [led[j] EXCEPT ![k] = "failed"]
      BY <1>1, <2>1, <2>2, <3>1, <3>4
    <3>7. led' = [led EXCEPT ![j][k] = "failed"]
      BY <2>1, <3>6
    <3> QED
      BY <1>1, <2>1, <3>1, <3>5, <3>7
      DEF Ledger!Next, Ledger!Settle, Ledger!Outcomes
  <2> QED
    BY <2>3, <2>4
<1>4. ASSUME NEW w \in Workers, InsertRun(w)
      PROVE  Ledger!Next
  <2> DEFINE j == Job(w)
             n == Len(runs[j])
  <2>1. /\ j \in Jobs
        /\ \A i \in Jobs \ {j} : runs'[i] = runs[i]
        /\ Len(runs'[j]) = n + 1
        /\ n \in Nat
        /\ runs'[j][n + 1].status = "running"
        /\ \A k \in 1..n : /\ runs'[j][k] = runs[j][k]
                           /\ runs[j][k].status \in Finished
    BY <1>1, <1>4, InsertEffect
  <2>2. Outcome(runs'[j]) = Append(led[j], "running")
    <3>1. Outcome(runs'[j]) = [k \in 1..(n + 1) |-> runs'[j][k].status]
      BY <2>1 DEF Outcome
    <3>2. led[j] = [k \in 1..n |-> runs[j][k].status]
      BY <1>1, <2>1 DEF Outcome
    <3> QED
      BY <2>1, <3>1, <3>2
  <2>3. led' = [led EXCEPT ![j] = Append(@, "running")]
    BY <2>1, <2>2
  <2>4. Ledger!Idle(j)
    BY <1>1, <2>1 DEF Ledger!Idle, Ledger!Outcomes, Finished
  <2> QED
    BY <2>1, <2>3, <2>4 DEF Ledger!Next, Ledger!Begin
<1>5. ASSUME NEW w \in Workers, RecordOutcome(w)
      PROVE  Ledger!Next
  <2> DEFINE j == Job(w)
             n == Len(runs[j])
             k == row[w]
             o == outcome[w]
  <2>1. /\ j \in Jobs
        /\ \A i \in Jobs \ {j} : runs'[i] = runs[i]
        /\ Len(runs'[j]) = n
        /\ n \in Nat
        /\ k \in 1..n
        /\ runs[j][k].status = "running"
        /\ runs'[j][k].status = o
        /\ o \in Finished
        /\ \A l \in 1..n : l # k => runs'[j][l] = runs[j][l]
    BY <1>1, <1>5, RecordEffect
  <2>2. Outcome(runs'[j]) = [led[j] EXCEPT ![k] = o]
    <3>1. Outcome(runs'[j]) = [l \in 1..n |-> runs'[j][l].status]
      BY <2>1 DEF Outcome
    <3> QED
      BY <1>1, <2>1, <3>1
  <2>3. led' = [led EXCEPT ![j][k] = o]
    BY <2>1, <2>2
  <2>4. led[j][k] = "running" /\ k \in 1..Len(led[j])
    BY <1>1, <2>1
  <2>5. Ledger!Settle(j, k, o)
    BY <2>3, <2>4 DEF Ledger!Settle
  <2>6. o \in Ledger!Outcomes
    BY <2>1 DEF Ledger!Outcomes, Finished
  <2> HIDE DEF j, k, o
  <2> QED
    BY <2>1, <2>4, <2>5, <2>6 DEF Ledger!Next
<1> QED
  BY <1>2, <1>3, <1>4, <1>5, RunsWriters

\* The scheduler implements the abstract ledger.
THEOREM SchedulerImplementsLedger ==
    ASSUME MaxDrops = 0
    PROVE  Spec => ImplementsLedger
<1>1. Init => Ledger!Init
  BY DEF Init, Ledger!Init, Outcome
<1>2. SchedulerInv /\ [Next]_vars => [Ledger!Next]_[j \in Jobs |-> Outcome(runs[j])]
  BY LedgerStep
<1> QED
  BY <1>1, <1>2, SchedulerInvariant, PTL DEF Spec, ImplementsLedger, Ledger!Spec

=============================================================================
