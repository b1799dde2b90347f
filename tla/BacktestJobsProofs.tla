------------------------- MODULE BacktestJobsProofs -------------------------
(***************************************************************************)
(* What the backtest job queue guarantees for any number of jobs, workers, *)
(* customers and retries.                                                  *)
(***************************************************************************)
EXTENDS BacktestJobs, FiniteSetTheorems, TLAPS

(* The total a worker reports is a natural number: UpdateProgress is       *)
(* called with the length of a finite customer list.                       *)
LEMMA PopulationSize ==
    ASSUME NEW P \in Populations
    PROVE  /\ IsFiniteSet(P)
           /\ Cardinality(P) \in Nat
BY BacktestAssumption, FS_Subset, FS_CardinalityType DEF Populations

(* A write of one row leaves the jobs table well typed.                    *)
LEMMA JobWritten ==
    ASSUME TypeOK, NEW j \in Jobs, NEW new \in Job, job' = [job EXCEPT ![j] = new]
    PROVE  job' \in [Jobs -> Job]
BY DEF TypeOK

(* A guarded write of one row does, too.                                   *)
LEMMA JobWrittenIfRunning ==
    ASSUME TypeOK, NEW j \in Jobs, NEW new \in Job, IfRunning(j, new)
    PROVE  job' \in [Jobs -> Job]
BY DEF TypeOK, IfRunning

(* What TypeOK says of the workers.                                        *)
WorkersOK ==
    /\ worker \in [Workers -> Worker]
    /\ \A w \in Workers : worker[w].pc # "idle" => worker[w].job \in Jobs

(* A step of one worker that names a job unless it is idle keeps that.     *)
LEMMA WorkerMoved ==
    ASSUME TypeOK, NEW w \in Workers, NEW new \in Worker,
           new.pc # "idle" => new.job \in Jobs,
           worker' = [worker EXCEPT ![w] = new]
    PROVE  WorkersOK'
<1>1. worker' \in [Workers -> Worker]
    BY DEF TypeOK
<1>2. ASSUME NEW v \in Workers, worker'[v].pc # "idle" PROVE worker'[v].job \in Jobs
    BY <1>2 DEF TypeOK
<1>3. QED
    BY <1>1, <1>2 DEF WorkersOK

LEMMA IdleWorkerType == IdleWorker \in Worker
BY DEF IdleWorker, Worker, Populations, Executing

LEMMA TypeInit == Init => TypeOK
BY BacktestAssumption, IdleWorkerType
   DEF Init, TypeOK, AbsentJob, IdleWorker, Job, Status, Populations, AuditActions

LEMMA TypeStep == TypeOK /\ [Next]_vars => TypeOK'
<1> SUFFICES ASSUME TypeOK, [Next]_vars PROVE TypeOK'
    OBVIOUS
<1>a. \A j \in Jobs : job[j] \in Job
    BY DEF TypeOK
<1>b. \A w \in Workers : /\ worker[w] \in Worker
                         /\ worker[w].pc # "idle" => worker[w].job \in Jobs
    BY DEF TypeOK
<1>1. CASE UNCHANGED vars
    BY <1>1 DEF vars, TypeOK
<1>2. ASSUME NEW j \in Jobs, Create(j) PROVE TypeOK'
  <2>1. PICK ids \in Selections :
            job' = [job EXCEPT ![j] = [job[j] EXCEPT !.status = "queued",
                                                     !.customer_ids = ids]]
    BY <1>2 DEF Create
  <2> DEFINE new == [job[j] EXCEPT !.status = "queued", !.customer_ids = ids]
  <2>2. ids \in Populations
    BY BacktestAssumption DEF Populations
  <2>3. new \in Job
    BY <1>a, <2>2 DEF Job, Status
  <2>4. job' = [job EXCEPT ![j] = new]
    BY <2>1
  <2> HIDE DEF new
  <2>5. job' \in [Jobs -> Job]
    BY <2>3, <2>4, JobWritten
  <2>6. QED
    BY <1>2, <2>5 DEF Create, TypeOK
<1>3. ASSUME NEW j \in Jobs, Cancel(j) PROVE TypeOK'
  <2>1. [job[j] EXCEPT !.status = "cancelled", !.overdue = FALSE] \in Job
    BY <1>a DEF Job, Status
  <2>2. QED
    BY <1>3, <2>1, JobWritten DEF Cancel, TypeOK
<1>4. ASSUME NEW j \in Jobs, Retry(j) PROVE TypeOK'
  <2> DEFINE new == [AbsentJob EXCEPT !.status = "queued",
                                      !.customer_ids = job[j].customer_ids,
                                      !.retry_count = job[j].retry_count + 1]
  <2>1. /\ {} \in Populations
        /\ job[j].customer_ids \in Populations
        /\ job[j].retry_count + 1 \in Nat
    BY <1>a DEF Populations, Job
  <2>2. new \in Job
    BY <2>1 DEF Job, Status, AbsentJob
  <2>3. job' = [job EXCEPT ![j] = new]
    BY <1>4 DEF Retry
  <2> HIDE DEF new
  <2>4. job' \in [Jobs -> Job]
    BY <2>2, <2>3, JobWritten
  <2>5. QED
    BY <1>4, <2>4 DEF Retry, TypeOK
<1>5. ASSUME NEW w \in Workers, ClaimNext(w) PROVE TypeOK'
  <2>1. PICK j \in Jobs :
          /\ job' = [job EXCEPT ![j] = [job[j] EXCEPT !.status = "running", !.lease = "held",
                                                      !.overdue = FALSE]]
          /\ worker' = [worker EXCEPT ![w] = [IdleWorker EXCEPT !.pc = "audit", !.job = j]]
          /\ UNCHANGED <<snapshot, matching, expiring, audit, stops>>
    BY <1>5 DEF ClaimNext
  <2>2. [job[j] EXCEPT !.status = "running", !.lease = "held", !.overdue = FALSE] \in Job
    BY <1>a DEF Job, Status
  <2>3. job' \in [Jobs -> Job]
    BY <2>1, <2>2, JobWritten
  <2>4. [IdleWorker EXCEPT !.pc = "audit", !.job = j] \in Worker
    BY DEF Worker, IdleWorker, Populations
  <2>5. WorkersOK'
    BY <2>1, <2>4, WorkerMoved DEF IdleWorker
  <2>6. QED
    BY <2>1, <2>3, <2>5 DEF TypeOK, WorkersOK
<1>6. ASSUME NEW w \in Workers, RecordLifecycle(w) PROVE TypeOK'
  <2>1. [worker[w] EXCEPT !.pc = "read"] \in Worker
    BY <1>b DEF Worker, Executing
  <2>2. WorkersOK'
    BY <1>6, <1>b, <2>1, IdleWorkerType, WorkerMoved DEF RecordLifecycle, IdleWorker, Worker
  <2>3. audit' \in [Jobs -> SUBSET AuditActions]
    BY <1>6, <1>b DEF RecordLifecycle, Worker, AuditActions, TypeOK
  <2>4. QED
    BY <1>6, <2>2, <2>3 DEF RecordLifecycle, TypeOK, WorkersOK
<1>7. ASSUME NEW w \in Workers, GetCustomerSnapshot(w) PROVE TypeOK'
  <2> DEFINE saved == snapshot[worker[w].job]
  <2>1. saved = None \/ saved \in Populations
    BY <1>7, <1>b DEF GetCustomerSnapshot, TypeOK
  <2>2. /\ [worker[w] EXCEPT !.pc = "scan"] \in Worker
        /\ saved # None => [worker[w] EXCEPT !.pc = "progress", !.customers = saved] \in Worker
    BY <1>b, <2>1 DEF Worker, Executing
  <2>3. WorkersOK'
    BY <1>7, <1>b, <2>2, WorkerMoved DEF GetCustomerSnapshot, Worker
  <2>4. QED
    BY <1>7, <2>3 DEF GetCustomerSnapshot, TypeOK, WorkersOK
<1>8. ASSUME NEW w \in Workers, ResolveCustomers(w) PROVE TypeOK'
  <2> DEFINE selected == job[worker[w].job].customer_ids
             new == [worker[w] EXCEPT !.pc = "save",
                        !.customers = IF selected # {} THEN selected ELSE matching]
  <2>1. selected \in Populations /\ matching \in Populations
    BY <1>8, <1>a, <1>b DEF ResolveCustomers, TypeOK, Job
  <2>2. new \in Worker /\ new.job = worker[w].job
    BY <1>b, <2>1 DEF Worker, Executing
  <2>3. WorkersOK'
    BY <1>8, <1>b, <2>2, WorkerMoved DEF ResolveCustomers
  <2>4. QED
    BY <1>8, <2>3 DEF ResolveCustomers, TypeOK, WorkersOK
<1>9. ASSUME NEW w \in Workers, SaveCustomerSnapshot(w) PROVE TypeOK'
  <2>1. snapshot' \in [Jobs -> Populations \cup {None}]
    BY <1>9, <1>b DEF SaveCustomerSnapshot, Worker, TypeOK
  <2>2. [worker[w] EXCEPT !.pc = "progress"] \in Worker
    BY <1>b DEF Worker, Executing
  <2>3. WorkersOK'
    BY <1>9, <1>b, <2>2, WorkerMoved DEF SaveCustomerSnapshot, Worker
  <2>4. QED
    BY <1>9, <2>1, <2>3 DEF SaveCustomerSnapshot, TypeOK, WorkersOK
<1>10. ASSUME NEW w \in Workers, UpdateProgress(w) PROVE TypeOK'
  <2> DEFINE j == worker[w].job
             total == Cardinality(worker[w].customers)
             new == [job[j] EXCEPT !.processed = worker[w].i, !.total = total,
                                   !.lease = "held", !.overdue = FALSE]
  <2>1. j \in Jobs /\ worker[w].i \in Nat /\ total \in Nat
    BY <1>10, <1>b, PopulationSize DEF UpdateProgress, Worker
  <2>2. new \in Job
    BY <1>a, <2>1 DEF Job
  <2>3. job' \in [Jobs -> Job]
    BY <1>10, <2>1, <2>2, JobWrittenIfRunning DEF UpdateProgress
  <2>4. /\ [worker[w] EXCEPT !.pc = "outcome"] \in Worker
        /\ [worker[w] EXCEPT !.i = worker[w].i + 1] \in Worker
    BY <1>b, <2>1 DEF Worker, Executing
  <2>5. WorkersOK'
    BY <1>10, <1>b, <2>4, WorkerMoved DEF UpdateProgress, Worker
  <2>6. QED
    BY <1>10, <2>3, <2>5 DEF UpdateProgress, TypeOK, WorkersOK
<1>11. ASSUME NEW w \in Workers, SaveOutcomeAnalysis(w) PROVE TypeOK'
  <2> DEFINE j == worker[w].job
  <2>1. j \in Jobs /\ worker[w].customers \in Populations
    BY <1>11, <1>b DEF SaveOutcomeAnalysis, Worker
  <2>2. [job[j] EXCEPT !.analysis = worker[w].customers, !.overdue = FALSE] \in Job
    BY <1>a, <2>1 DEF Job
  <2>3. job' \in [Jobs -> Job]
    BY <1>11, <2>1, <2>2, JobWritten DEF SaveOutcomeAnalysis
  <2>4. [worker[w] EXCEPT !.pc = "complete"] \in Worker
    BY <1>b DEF Worker, Executing
  <2>5. WorkersOK'
    BY <1>11, <1>b, <2>4, WorkerMoved DEF SaveOutcomeAnalysis, Worker
  <2>6. QED
    BY <1>11, <2>3, <2>5 DEF SaveOutcomeAnalysis, TypeOK, WorkersOK
<1>12. ASSUME NEW w \in Workers, Complete(w) PROVE TypeOK'
  <2> DEFINE j == worker[w].job
             new == [job[j] EXCEPT !.status = "completed", !.results = worker[w].customers,
                                   !.affected = worker[w].customers]
  <2>1. j \in Jobs /\ worker[w].customers \in Populations
    BY <1>12, <1>b DEF Complete, Worker
  <2>2. new \in Job
    BY <1>a, <2>1 DEF Job, Status
  <2>3. job' \in [Jobs -> Job]
    BY <1>12, <2>1, <2>2, JobWrittenIfRunning DEF Complete
  <2>4. /\ [worker[w] EXCEPT !.pc = "readback", !.report = "completed"] \in Worker
        /\ [worker[w] EXCEPT !.pc = "fail"] \in Worker
    BY <1>b DEF Worker
  <2>5. WorkersOK'
    BY <1>12, <1>b, <2>4, WorkerMoved DEF Complete, Worker
  <2>6. QED
    BY <1>12, <2>3, <2>5 DEF Complete, TypeOK, WorkersOK
<1>13. ASSUME NEW w \in Workers, Fail(w) PROVE TypeOK'
  <2> DEFINE j == worker[w].job
  <2>1. j \in Jobs
    BY <1>13, <1>b DEF Fail
  <2>2. [job[j] EXCEPT !.status = "failed"] \in Job
    BY <1>a, <2>1 DEF Job, Status
  <2>3. job' \in [Jobs -> Job]
    BY <1>13, <2>1, <2>2, JobWrittenIfRunning DEF Fail
  <2>4. [worker[w] EXCEPT !.pc = "readback", !.report = "failed"] \in Worker
    BY <1>b DEF Worker
  <2>5. WorkersOK'
    BY <1>13, <1>b, <2>4, WorkerMoved DEF Fail, Worker
  <2>6. QED
    BY <1>13, <2>3, <2>5 DEF Fail, TypeOK, WorkersOK
<1>14. ASSUME NEW w \in Workers, ReadBack(w) PROVE TypeOK'
  <2>1. [worker[w] EXCEPT !.pc = "audit"] \in Worker
    BY <1>b DEF Worker
  <2>2. WorkersOK'
    BY <1>14, <1>b, <2>1, IdleWorkerType, WorkerMoved DEF ReadBack, IdleWorker, Worker
  <2>3. QED
    BY <1>14, <2>2 DEF ReadBack, TypeOK, WorkersOK
<1>15. ASSUME NEW w \in Workers, ExecuteFails(w) \/ MonitorCancellation(w) PROVE TypeOK'
  <2>1. [worker[w] EXCEPT !.pc = "fail"] \in Worker
    BY <1>b DEF Worker
  <2>2. WorkersOK'
    BY <1>15, <1>b, <2>1, WorkerMoved DEF ExecuteFails, MonitorCancellation, Worker, Executing
  <2>3. QED
    BY <1>15, <2>2 DEF ExecuteFails, MonitorCancellation, TypeOK, WorkersOK
<1>16. ASSUME NEW w \in Workers, Stop(w) PROVE TypeOK'
  <2>1. WorkersOK'
    BY <1>16, IdleWorkerType, WorkerMoved DEF Stop, IdleWorker
  <2>2. stops' \in 0..MaxStops
    BY <1>16, BacktestAssumption DEF Stop, TypeOK
  <2>3. QED
    BY <1>16, <2>1, <2>2 DEF Stop, TypeOK, WorkersOK
<1>17. CASE ExpireQueued
  <2>1. \A j \in Jobs : [job[j] EXCEPT !.status = "failed", !.overdue = FALSE] \in Job
    BY <1>a DEF Job, Status
  <2>2. QED
    BY <1>17, <1>a, <2>1 DEF ExpireQueued, TypeOK
<1>18. ASSUME NEW j \in Jobs, RecordExpiration(j) PROVE TypeOK'
    BY <1>18 DEF RecordExpiration, AuditActions, TypeOK
<1>19. ASSUME NEW j \in Jobs, Tick(j) PROVE TypeOK'
  <2>1. /\ [job[j] EXCEPT !.lease = "expired"] \in Job
        /\ [job[j] EXCEPT !.overdue = TRUE] \in Job
    BY <1>a DEF Job
  <2>2. QED
    BY <1>19, <2>1, JobWritten DEF Tick, LeaseExpires, QueueDeadlinePasses, TypeOK
<1>20. CASE CustomerChanges
    BY <1>20 DEF CustomerChanges, TypeOK
<1>21. QED
    BY <1>1, <1>2, <1>3, <1>4, <1>5, <1>6, <1>7, <1>8, <1>9, <1>10, <1>11, <1>12,
       <1>13, <1>14, <1>15, <1>16, <1>17, <1>18, <1>19, <1>20
       DEF Next, Operate, RunOnce

(* Every reachable state is well typed; in particular a worker that is     *)
(* executing always names a job of the table.                              *)
THEOREM TypeCorrect == Spec => []TypeOK
BY TypeInit, TypeStep, PTL DEF Spec
-----------------------------------------------------------------------------
(* What one step of the system may do to one row of backtest_jobs,         *)
(* whoever takes it: the statements of PgBacktestJobRepo and their WHERE   *)
(* clauses.                                                                *)
RowStep(old, new) ==
    \/ new = old
    \/ /\ old.status = "absent"
       /\ \E ids \in Populations :
              new = [old EXCEPT !.status = "queued", !.customer_ids = ids]
    \/ /\ old.status \in {"queued", "running"}
       /\ new = [old EXCEPT !.status = "cancelled", !.overdue = FALSE]
    \/ /\ old.status = "failed"
       /\ new = [AbsentJob EXCEPT !.status = "queued", !.customer_ids = old.customer_ids,
                                  !.retry_count = old.retry_count + 1]
    \/ /\ old.status \in {"queued", "running"}
       /\ new = [old EXCEPT !.status = "running", !.lease = "held", !.overdue = FALSE]
    \/ /\ old.status = "running"
       /\ \E p, t \in Nat : new = [old EXCEPT !.processed = p, !.total = t,
                                              !.lease = "held", !.overdue = FALSE]
    \/ \E P \in Populations : new = [old EXCEPT !.analysis = P, !.overdue = FALSE]
    \/ /\ old.status = "running"
       /\ \E P \in Populations :
              new = [old EXCEPT !.status = "completed", !.results = P, !.affected = P]
    \/ old.status = "running" /\ new = [old EXCEPT !.status = "failed"]
    \/ old.status = "queued" /\ new = [old EXCEPT !.status = "failed", !.overdue = FALSE]
    \/ old.status = "running" /\ new = [old EXCEPT !.lease = "expired"]
    \/ old.status = "queued" /\ new = [old EXCEPT !.overdue = TRUE]

(* Every step changes every row as one of those statements does.           *)
LEMMA RowsStep ==
    ASSUME TypeOK, [Next]_vars, NEW j \in Jobs
    PROVE  RowStep(job[j], job'[j])
<1>a. job \in [Jobs -> Job]
    BY DEF TypeOK
<1>b. \A w \in Workers : /\ worker[w].pc # "idle" => worker[w].job \in Jobs
                         /\ worker[w].customers \in Populations
                         /\ worker[w].i \in Nat
    BY DEF TypeOK, Worker
<1>1. CASE UNCHANGED job
    BY <1>1 DEF RowStep
<1>2. ASSUME NEW i \in Jobs, Create(i) PROVE RowStep(job[j], job'[j])
  <2>1. PICK ids \in Selections :
            job' = [job EXCEPT ![i] = [@ EXCEPT !.status = "queued", !.customer_ids = ids]]
    BY <1>2 DEF Create
  <2>2. ids \in Populations
    BY BacktestAssumption DEF Populations
  <2>3. QED
    BY <1>a, <1>2, <2>1, <2>2 DEF Create, RowStep
<1>3. ASSUME NEW i \in Jobs, Cancel(i) PROVE RowStep(job[j], job'[j])
    BY <1>a, <1>3 DEF Cancel, RowStep
<1>4. ASSUME NEW i \in Jobs, Retry(i) PROVE RowStep(job[j], job'[j])
    BY <1>a, <1>4 DEF Retry, RowStep
<1>5. ASSUME NEW w \in Workers, ClaimNext(w) PROVE RowStep(job[j], job'[j])
  <2>1. PICK i \in Jobs :
          /\ job[i].status \in {"queued", "running"}
          /\ job' = [job EXCEPT ![i] = [@ EXCEPT !.status = "running", !.lease = "held",
                                                 !.overdue = FALSE]]
    BY <1>5 DEF ClaimNext, Claimable
  <2>2. QED
    BY <1>a, <2>1 DEF RowStep
<1>6. ASSUME NEW w \in Workers, UpdateProgress(w) PROVE RowStep(job[j], job'[j])
  <2>1. Cardinality(worker[w].customers) \in Nat
    BY <1>b, PopulationSize
  <2>2. QED
    BY <1>a, <1>b, <1>6, <2>1 DEF UpdateProgress, IfRunning, RowStep
<1>7. ASSUME NEW w \in Workers, SaveOutcomeAnalysis(w) PROVE RowStep(job[j], job'[j])
    BY <1>a, <1>b, <1>7 DEF SaveOutcomeAnalysis, RowStep
<1>8. ASSUME NEW w \in Workers, Complete(w) PROVE RowStep(job[j], job'[j])
    BY <1>a, <1>b, <1>8 DEF Complete, IfRunning, RowStep
<1>9. ASSUME NEW w \in Workers, Fail(w) PROVE RowStep(job[j], job'[j])
    BY <1>a, <1>b, <1>9 DEF Fail, IfRunning, RowStep
<1>10. CASE ExpireQueued
    BY <1>a, <1>10 DEF ExpireQueued, RowStep
<1>11. ASSUME NEW i \in Jobs, Tick(i) PROVE RowStep(job[j], job'[j])
    BY <1>a, <1>11 DEF Tick, LeaseExpires, QueueDeadlinePasses, RowStep
<1>12. ASSUME NEW w \in Workers,
              \/ RecordLifecycle(w) \/ GetCustomerSnapshot(w) \/ ResolveCustomers(w)
              \/ SaveCustomerSnapshot(w) \/ ReadBack(w) \/ ExecuteFails(w)
              \/ MonitorCancellation(w) \/ Stop(w)
       PROVE  UNCHANGED job
    BY <1>12 DEF RecordLifecycle, GetCustomerSnapshot, ResolveCustomers,
       SaveCustomerSnapshot, ReadBack, ExecuteFails, MonitorCancellation, Stop
<1>13. ASSUME NEW i \in Jobs, RecordExpiration(i) PROVE UNCHANGED job
    BY <1>13 DEF RecordExpiration
<1>14. CASE CustomerChanges
    BY <1>1, <1>14 DEF CustomerChanges
<1>15. CASE UNCHANGED vars
    BY <1>1, <1>15 DEF vars
<1>16. QED
    BY <1>1, <1>2, <1>3, <1>4, <1>5, <1>6, <1>7, <1>8, <1>9, <1>10, <1>11, <1>12,
       <1>13, <1>14, <1>15 DEF Next, Operate, RunOnce

(* A completed or cancelled job keeps its verdict and results for good, a  *)
(* failed one leaves that state only by a retry: every write of a worker,  *)
(* the one whose lease expired included, is guarded by the status or is    *)
(* SaveBacktestOutcomeAnalysis, which writes the analysis only.            *)
THEOREM VerdictsSettled == Spec => VerdictSettled
<1>1. ASSUME TypeOK, [Next]_vars, NEW j \in Jobs
      PROVE  /\ job[j].status \in {"completed", "cancelled"} =>
                  /\ job'[j].status = job[j].status
                  /\ job'[j].results = job[j].results
                  /\ job'[j].affected = job[j].affected
             /\ job[j].status = "failed" /\ job'[j].status # "failed" =>
                  /\ job'[j].status = "queued"
                  /\ job'[j].retry_count = job[j].retry_count + 1
  <2>1. RowStep(job[j], job'[j])
    BY <1>1, RowsStep
  <2>2. job[j] \in Job
    BY <1>1 DEF TypeOK
  <2>3. QED
    BY <2>1, <2>2 DEF RowStep, Job, AbsentJob
<1>2. TypeOK /\ [Next]_vars => [\A j \in Jobs :
         /\ job[j].status \in {"completed", "cancelled"} =>
              /\ job'[j].status = job[j].status
              /\ job'[j].results = job[j].results
              /\ job'[j].affected = job[j].affected
         /\ job[j].status = "failed" /\ job'[j].status # "failed" =>
              /\ job'[j].status = "queued"
              /\ job'[j].retry_count = job[j].retry_count + 1]_vars
    BY <1>1
<1>3. QED
    BY <1>2, TypeCorrect, PTL DEF Spec, VerdictSettled
-----------------------------------------------------------------------------
(* A row that never ran, or was reset, is blank; only a completed job has  *)
(* results, and its affected-customer rows are those of the same replay.   *)
RowInv(row) ==
    /\ row.status \in {"absent", "queued"} =>
           row.processed = 0 /\ row.total = 0 /\ row.lease = "none"
    /\ (row.results # None) <=> (row.status = "completed")
    /\ row.affected = IF row.results # None THEN row.results ELSE {}

RowsInv == \A j \in Jobs : RowInv(job[j])

LEMMA RowInvStep ==
    ASSUME NEW old \in Job, NEW new, RowInv(old), RowStep(old, new)
    PROVE  RowInv(new)
<1>1. \A P \in Populations : P # None
    BY BacktestAssumption DEF Populations
<1>2. CASE new = old
    BY <1>2
<1>3. CASE \E P \in Populations : new = [old EXCEPT !.analysis = P, !.overdue = FALSE]
  <2>1. PICK P \in Populations : new = [old EXCEPT !.analysis = P, !.overdue = FALSE]
    BY <1>3
  <2>2. /\ new.status = old.status /\ new.processed = old.processed /\ new.total = old.total
        /\ new.lease = old.lease /\ new.results = old.results /\ new.affected = old.affected
    BY <2>1 DEF Job
  <2>3. QED
    BY <2>2 DEF RowInv
<1>4. CASE old.status = "queued" /\ new = [old EXCEPT !.overdue = TRUE]
    BY <1>4 DEF RowInv, Job
<1>5. CASE /\ old.status = "absent"
           /\ \E ids \in Populations :
                  new = [old EXCEPT !.status = "queued", !.customer_ids = ids]
    BY <1>5 DEF RowInv, Job
<1>6. CASE /\ old.status = "failed"
           /\ new = [AbsentJob EXCEPT !.status = "queued", !.customer_ids = old.customer_ids,
                                      !.retry_count = old.retry_count + 1]
    BY <1>6 DEF RowInv, AbsentJob
<1>7. CASE /\ old.status = "running"
           /\ \E P \in Populations :
                  new = [old EXCEPT !.status = "completed", !.results = P, !.affected = P]
    BY <1>1, <1>7 DEF RowInv, Job
<1>8. CASE \/ /\ old.status \in {"queued", "running"}
              /\ \/ new = [old EXCEPT !.status = "cancelled", !.overdue = FALSE]
                 \/ new = [old EXCEPT !.status = "running", !.lease = "held", !.overdue = FALSE]
           \/ old.status = "queued" /\ new = [old EXCEPT !.status = "failed", !.overdue = FALSE]
           \/ old.status = "running" /\ new = [old EXCEPT !.status = "failed"]
    BY <1>8 DEF RowInv, Job
<1>9. CASE /\ old.status = "running"
           /\ \/ \E p, t \in Nat : new = [old EXCEPT !.processed = p, !.total = t,
                                                  !.lease = "held", !.overdue = FALSE]
              \/ new = [old EXCEPT !.lease = "expired"]
    BY <1>9 DEF RowInv, Job
<1>10. QED
    BY <1>2, <1>3, <1>4, <1>5, <1>6, <1>7, <1>8, <1>9, Zenon DEF RowStep

LEMMA RowsInvariant == Spec => []RowsInv
<1>1. Init => RowsInv
    BY BacktestAssumption DEF Init, RowsInv, RowInv, AbsentJob
<1>2. TypeOK /\ RowsInv /\ [Next]_vars => RowsInv'
  <2> SUFFICES ASSUME TypeOK, RowsInv, [Next]_vars, NEW j \in Jobs PROVE RowInv(job'[j])
    BY DEF RowsInv
  <2>1. RowStep(job[j], job'[j])
    BY RowsStep
  <2>2. QED
    BY <2>1, RowInvStep DEF TypeOK, RowsInv
<1>3. QED
    BY <1>1, <1>2, TypeCorrect, PTL DEF Spec

(* Results and affected-customer rows come together, from one replay, and  *)
(* exactly with the completed status.                                      *)
THEOREM ResultsAreWhole == Spec => []ResultsWhole
<1>1. RowsInv => ResultsWhole
    BY DEF RowsInv, RowInv, ResultsWhole
<1>2. QED
    BY <1>1, RowsInvariant, PTL

(* A queued job, retried or new, has no progress, no results and no lease, *)
(* whatever a worker of an earlier attempt still writes.  Its analysis and *)
(* its saved population may be that attempt's.                             *)
THEOREM QueuedJobsHaveNoProgress == Spec => []QueuedHasNoProgress
<1>1. RowsInv => QueuedHasNoProgress
    BY DEF RowsInv, RowInv, QueuedHasNoProgress
<1>2. QED
    BY <1>1, RowsInvariant, PTL
=============================================================================
