---------------------------- MODULE BacktestJobs ----------------------------
(***************************************************************************)
(* Durable backtest jobs: the repository that stores them, the worker      *)
(* processes that claim and execute them under a five-minute lease, the    *)
(* lifecycle sweep that fails jobs nobody claimed, and the operators who   *)
(* create, cancel and retry them.                                          *)
(*                                                                         *)
(* A population (a set of customers) stands for everything computed from   *)
(* it: the results of a replay over P are the value P, so that two values  *)
(* can be compared to see whether they come from the same population.      *)
(*                                                                         *)
(* Claim leases carry no owner: every write of a worker names the job only *)
(* and is guarded at most by status = "running".  A worker whose lease     *)
(* expired keeps writing, to a job that somebody else may be executing.    *)
(***************************************************************************)
EXTENDS Naturals, FiniteSets

CONSTANTS
    Jobs,          \* ids of the jobs operators may create
    Workers,       \* worker processes polling ClaimNext
    Customers,     \* customers on the book at the jobs' snapshot_at
    Selections,    \* the customer_ids a job may name; {} when it has a filter
    MaxRetries,    \* bound on retry_count
    MaxStops,      \* bound on worker crashes and shutdowns
    None           \* SQL NULL

ASSUME BacktestAssumption ==
    /\ IsFiniteSet(Customers)
    /\ Selections \subseteq SUBSET Customers
    /\ MaxRetries \in Nat
    /\ MaxStops \in Nat
    /\ \A P \in SUBSET Customers : P # None
    /\ None \notin Jobs

VARIABLES
    job,        \* backtest_jobs with its affected-customer and outcome rows
    snapshot,   \* backtest_job_customer_snapshots: the saved population
    worker,     \* the local state of every worker's RunOnce
    matching,   \* the customers that satisfy the filter now
    expiring,   \* expired jobs the lifecycle sweep has yet to audit
    audit,      \* lifecycle actions in the audit log, per job
    stops       \* crashes and shutdowns so far

vars == <<job, snapshot, worker, matching, expiring, audit, stops>>
-----------------------------------------------------------------------------
Populations == SUBSET Customers

Status == {"absent", "queued", "running", "completed", "failed", "cancelled"}

Settled == {"completed", "failed", "cancelled"}

AuditActions == {"started", "completed", "failed", "queue_expired"}

Job == [status : Status, customer_ids : Populations,
        lease : {"none", "held", "expired"}, overdue : BOOLEAN,
        processed : Nat, total : Nat,
        results : Populations \cup {None}, affected : Populations,
        analysis : Populations \cup {None}, retry_count : Nat]

\* The steps of execute that may return an error or be cancelled.
Executing == {"read", "scan", "save", "progress", "outcome", "complete"}

Worker == [pc : Executing \cup {"idle", "fail", "readback", "audit"},
           job : Jobs \cup {None}, customers : Populations, i : Nat,
           report : {"started", "completed", "failed"}]

IdleWorker == [pc |-> "idle", job |-> None, customers |-> {}, i |-> 0,
               report |-> "started"]

AbsentJob == [status |-> "absent", customer_ids |-> {}, lease |-> "none",
              overdue |-> FALSE, processed |-> 0, total |-> 0, results |-> None,
              affected |-> {}, analysis |-> None, retry_count |-> 0]

TypeOK ==
    /\ job \in [Jobs -> Job]
    /\ snapshot \in [Jobs -> Populations \cup {None}]
    /\ worker \in [Workers -> Worker]
    /\ matching \in Populations
    /\ expiring \subseteq Jobs
    /\ audit \in [Jobs -> SUBSET AuditActions]
    /\ stops \in 0..MaxStops
    /\ \A w \in Workers : worker[w].pc # "idle" => worker[w].job \in Jobs

Init ==
    /\ job = [j \in Jobs |-> AbsentJob]
    /\ snapshot = [j \in Jobs |-> None]
    /\ worker = [w \in Workers |-> IdleWorker]
    /\ matching \in Populations
    /\ expiring = {}
    /\ audit = [j \in Jobs |-> {}]
    /\ stops = 0
-----------------------------------------------------------------------------
(* Operators: the handlers of the backtest routes.                         *)

Create(j) ==
    /\ job[j].status = "absent"
    /\ \E ids \in Selections :
           job' = [job EXCEPT ![j] = [@ EXCEPT !.status = "queued", !.customer_ids = ids]]
    /\ UNCHANGED <<snapshot, worker, matching, expiring, audit, stops>>

Cancel(j) ==
    /\ job[j].status \in {"queued", "running"}
    /\ job' = [job EXCEPT ![j] = [@ EXCEPT !.status = "cancelled", !.overdue = FALSE]]
    /\ UNCHANGED <<snapshot, worker, matching, expiring, audit, stops>>

\* Mutant: the reset forgets the progress columns.
RetryKeepingProgress(j) ==
    /\ job[j].status = "failed"
    /\ job[j].retry_count < MaxRetries
    /\ job' = [job EXCEPT ![j] = [@ EXCEPT !.status = "queued", !.lease = "none",
                                           !.retry_count = job[j].retry_count + 1]]
    /\ UNCHANGED <<snapshot, worker, matching, expiring, audit, stops>>

\* Queued and running jobs are returned unchanged, completed and cancelled ones
\* conflict: only a failed job is reset.  The saved population is kept.
Retry(j) ==
    /\ job[j].status = "failed"
    /\ job[j].retry_count < MaxRetries
    /\ job' = [job EXCEPT ![j] =
                   [AbsentJob EXCEPT !.status = "queued",
                                     !.customer_ids = job[j].customer_ids,
                                     !.retry_count = job[j].retry_count + 1]]
    /\ UNCHANGED <<snapshot, worker, matching, expiring, audit, stops>>

-----------------------------------------------------------------------------
(* Workers: one iteration of RunOnce.                                      *)

\* Mutant: a running job is never claimed again.
ClaimableOnce(j) == job[j].status = "queued"

\* Rows locked by another transaction are skipped, so the oldest claimable job
\* is only the usual answer, not the guaranteed one.
Claimable(j) ==
    \/ job[j].status = "queued"
    \/ job[j].status = "running" /\ job[j].lease = "expired"

ClaimNext(w) == \E j \in Jobs :
    /\ worker[w].pc = "idle"
    /\ Claimable(j)
    /\ job' = [job EXCEPT ![j] = [@ EXCEPT !.status = "running", !.lease = "held",
                                           !.overdue = FALSE]]
    /\ worker' = [worker EXCEPT ![w] = [IdleWorker EXCEPT !.pc = "audit", !.job = j]]
    /\ UNCHANGED <<snapshot, matching, expiring, audit, stops>>

\* An audit write that fails is logged and otherwise ignored.
RecordLifecycle(w) ==
    /\ worker[w].pc = "audit"
    /\ \/ audit' = [audit EXCEPT ![worker[w].job] = @ \cup {worker[w].report}]
       \/ UNCHANGED audit
    /\ worker' = [worker EXCEPT ![w] =
                      IF worker[w].report = "started"
                      THEN [worker[w] EXCEPT !.pc = "read"]
                      ELSE IdleWorker]
    /\ UNCHANGED <<job, snapshot, matching, expiring, stops>>

\* Mutant: the saved population is not consulted.
EvaluateSelectorAgain(w) ==
    /\ worker[w].pc = "read"
    /\ worker' = [worker EXCEPT ![w] = [@ EXCEPT !.pc = "scan"]]
    /\ UNCHANGED <<job, snapshot, matching, expiring, audit, stops>>

\* A saved population is replayed; without one the selector is evaluated.
GetCustomerSnapshot(w) ==
    LET saved == snapshot[worker[w].job] IN
    /\ worker[w].pc = "read"
    /\ worker' = [worker EXCEPT ![w] =
                      IF saved = None
                      THEN [worker[w] EXCEPT !.pc = "scan"]
                      ELSE [worker[w] EXCEPT !.pc = "progress", !.customers = saved]]
    /\ UNCHANGED <<job, snapshot, matching, expiring, audit, stops>>

\* Mutant: the filter is applied to a job that names its customers.
ResolveByFilter(w) ==
    /\ worker[w].pc = "scan"
    /\ worker' = [worker EXCEPT ![w] = [@ EXCEPT !.pc = "save", !.customers = matching]]
    /\ UNCHANGED <<job, snapshot, matching, expiring, audit, stops>>

ResolveCustomers(w) ==
    LET selected == job[worker[w].job].customer_ids IN
    /\ worker[w].pc = "scan"
    /\ worker' = [worker EXCEPT ![w] =
                      [@ EXCEPT !.pc = "save",
                                !.customers = IF selected # {} THEN selected ELSE matching]]
    /\ UNCHANGED <<job, snapshot, matching, expiring, audit, stops>>

\* Replaces whatever population was saved before.
SaveCustomerSnapshot(w) ==
    /\ worker[w].pc = "save"
    /\ snapshot' = [snapshot EXCEPT ![worker[w].job] = worker[w].customers]
    /\ worker' = [worker EXCEPT ![w] = [@ EXCEPT !.pc = "progress"]]
    /\ UNCHANGED <<job, matching, expiring, audit, stops>>

\* Mutant: the status guard is missing.
Unguarded(j, new) == job' = [job EXCEPT ![j] = new]

\* The write of a guarded mutation: a no-op unless the job is running.
IfRunning(j, new) ==
    job' = [job EXCEPT ![j] = IF @.status = "running" THEN new ELSE @]

\* Mutant: the last customer is not reported.
UpdateProgressButLast(w) ==
    LET j == worker[w].job
        total == Cardinality(worker[w].customers)
    IN
    /\ worker[w].pc = "progress"
    /\ IfRunning(j, [job[j] EXCEPT !.processed = worker[w].i, !.total = total,
                                   !.lease = "held", !.overdue = FALSE])
    /\ worker' = [worker EXCEPT ![w] =
                      IF worker[w].i + 1 >= total
                      THEN [worker[w] EXCEPT !.pc = "outcome"]
                      ELSE [worker[w] EXCEPT !.i = worker[w].i + 1]]
    /\ UNCHANGED <<snapshot, matching, expiring, audit, stops>>

\* Called with 0 customers done and then after the transactions of each one.
UpdateProgress(w) ==
    LET j == worker[w].job
        total == Cardinality(worker[w].customers)
    IN
    /\ worker[w].pc = "progress"
    /\ IfRunning(j, [job[j] EXCEPT !.processed = worker[w].i, !.total = total,
                                   !.lease = "held", !.overdue = FALSE])
    /\ worker' = [worker EXCEPT ![w] =
                      IF worker[w].i = total
                      THEN [worker[w] EXCEPT !.pc = "outcome"]
                      ELSE [worker[w] EXCEPT !.i = worker[w].i + 1]]
    /\ UNCHANGED <<snapshot, matching, expiring, audit, stops>>

\* Both replays, the difference and the outcome builder only compute; the
\* analysis is then written whatever the status of the job.
SaveOutcomeAnalysis(w) ==
    /\ worker[w].pc = "outcome"
    /\ job' = [job EXCEPT ![worker[w].job] =
                   [@ EXCEPT !.analysis = worker[w].customers, !.overdue = FALSE]]
    /\ worker' = [worker EXCEPT ![w] = [@ EXCEPT !.pc = "complete"]]
    /\ UNCHANGED <<snapshot, matching, expiring, audit, stops>>

\* Mutant: the affected-customer rows are not written.
CompleteWithoutRows(w) ==
    LET j == worker[w].job IN
    /\ worker[w].pc = "complete"
    /\ IfRunning(j, [job[j] EXCEPT !.status = "completed",
                                   !.results = worker[w].customers])
    /\ worker' = [worker EXCEPT ![w] = [@ EXCEPT !.pc = "readback", !.report = "completed"]]
    /\ UNCHANGED <<snapshot, matching, expiring, audit, stops>>

\* Results and affected customers in one transaction.  The commit may succeed
\* and its answer be lost, which execute reports as a failure.
Complete(w) ==
    LET j == worker[w].job IN
    /\ worker[w].pc = "complete"
    /\ IfRunning(j, [job[j] EXCEPT !.status = "completed",
                                   !.results = worker[w].customers,
                                   !.affected = worker[w].customers])
    /\ \/ worker' = [worker EXCEPT ![w] = [@ EXCEPT !.pc = "readback", !.report = "completed"]]
       \/ worker' = [worker EXCEPT ![w] = [@ EXCEPT !.pc = "fail"]]
    /\ UNCHANGED <<snapshot, matching, expiring, audit, stops>>

\* Any call of execute may fail.
ExecuteFails(w) ==
    /\ worker[w].pc \in Executing
    /\ worker' = [worker EXCEPT ![w] = [@ EXCEPT !.pc = "fail"]]
    /\ UNCHANGED <<job, snapshot, matching, expiring, audit, stops>>

\* The monitor sees the cancellation and cancels the context of execute.
MonitorCancellation(w) ==
    /\ worker[w].pc \in Executing
    /\ job[worker[w].job].status = "cancelled"
    /\ worker' = [worker EXCEPT ![w] = [@ EXCEPT !.pc = "fail"]]
    /\ UNCHANGED <<job, snapshot, matching, expiring, audit, stops>>

\* Mutant: a status the schema does not know.
FailAsError(w) ==
    LET j == worker[w].job IN
    /\ worker[w].pc = "fail"
    /\ IfRunning(j, [job[j] EXCEPT !.status = "error"])
    /\ worker' = [worker EXCEPT ![w] = [@ EXCEPT !.pc = "readback", !.report = "failed"]]
    /\ UNCHANGED <<snapshot, matching, expiring, audit, stops>>

Fail(w) ==
    LET j == worker[w].job IN
    /\ worker[w].pc = "fail"
    /\ IfRunning(j, [job[j] EXCEPT !.status = "failed"])
    /\ worker' = [worker EXCEPT ![w] = [@ EXCEPT !.pc = "readback", !.report = "failed"]]
    /\ UNCHANGED <<snapshot, matching, expiring, audit, stops>>

\* Mutant: the outcome is audited without reading the job back.
ReportUnread(w) ==
    /\ worker[w].pc = "readback"
    /\ worker' = [worker EXCEPT ![w] = [@ EXCEPT !.pc = "audit"]]
    /\ UNCHANGED <<job, snapshot, matching, expiring, audit, stops>>

\* The outcome is audited only if the job shows it when read back.
ReadBack(w) ==
    /\ worker[w].pc = "readback"
    /\ worker' = [worker EXCEPT ![w] =
                      IF job[worker[w].job].status = worker[w].report
                      THEN [worker[w] EXCEPT !.pc = "audit"]
                      ELSE IdleWorker]
    /\ UNCHANGED <<job, snapshot, matching, expiring, audit, stops>>

\* A crash, a shutdown or a failed call outside execute (the Get after a claim,
\* Fail itself, the final Get) ends the iteration and leaves the job as it is.
Stop(w) ==
    /\ worker[w].pc # "idle"
    /\ stops < MaxStops
    /\ worker' = [worker EXCEPT ![w] = IdleWorker]
    /\ stops' = stops + 1
    /\ UNCHANGED <<job, snapshot, matching, expiring, audit>>
-----------------------------------------------------------------------------
(* The lifecycle sweep, time and the customers.                            *)

ExpireQueued ==
    LET overdue == {j \in Jobs : job[j].status = "queued" /\ job[j].overdue} IN
    /\ expiring = {}
    /\ overdue # {}
    /\ job' = [j \in Jobs |-> IF j \in overdue
                              THEN [job[j] EXCEPT !.status = "failed", !.overdue = FALSE]
                              ELSE job[j]]
    /\ expiring' = overdue
    /\ UNCHANGED <<snapshot, worker, matching, audit, stops>>

RecordExpiration(j) ==
    /\ j \in expiring
    /\ \/ audit' = [audit EXCEPT ![j] = @ \cup {"queue_expired"}]
       \/ UNCHANGED audit
    /\ expiring' = expiring \ {j}
    /\ UNCHANGED <<job, snapshot, worker, matching, stops>>

\* Five minutes without a write that renews the lease.
LeaseExpires(j) ==
    /\ job[j].status = "running"
    /\ job[j].lease = "held"
    /\ job' = [job EXCEPT ![j] = [@ EXCEPT !.lease = "expired"]]
    /\ UNCHANGED <<snapshot, worker, matching, expiring, audit, stops>>

\* QueueTimeout since updated_at.
QueueDeadlinePasses(j) ==
    /\ job[j].status = "queued"
    /\ ~ job[j].overdue
    /\ job' = [job EXCEPT ![j] = [@ EXCEPT !.overdue = TRUE]]
    /\ UNCHANGED <<snapshot, worker, matching, expiring, audit, stops>>

\* A customer's tier, status or country changes and with it the filter's answer.
CustomerChanges ==
    /\ matching' \in Populations \ {matching}
    /\ UNCHANGED <<job, snapshot, worker, expiring, audit, stops>>
-----------------------------------------------------------------------------
Operate(j) == Create(j) \/ Cancel(j) \/ Retry(j)

RunOnce(w) ==
    \/ ClaimNext(w) \/ RecordLifecycle(w) \/ GetCustomerSnapshot(w)
    \/ ResolveCustomers(w) \/ SaveCustomerSnapshot(w) \/ UpdateProgress(w)
    \/ SaveOutcomeAnalysis(w) \/ Complete(w) \/ Fail(w) \/ ReadBack(w)

Tick(j) == LeaseExpires(j) \/ QueueDeadlinePasses(j)

Next ==
    \/ \E j \in Jobs : Operate(j) \/ RecordExpiration(j) \/ Tick(j)
    \/ \E w \in Workers : RunOnce(w) \/ ExecuteFails(w) \/ MonitorCancellation(w) \/ Stop(w)
    \/ ExpireQueued
    \/ CustomerChanges

Spec == Init /\ [][Next]_vars

\* Tickers drive the workers, the monitor and the sweep; time passes.  Nothing
\* obliges an operator to act, a call to fail or a customer to change.
Fairness ==
    /\ \A w \in Workers : WF_vars(RunOnce(w)) /\ WF_vars(MonitorCancellation(w))
    /\ \A j \in Jobs : WF_vars(Tick(j)) /\ WF_vars(RecordExpiration(j))
    /\ WF_vars(ExpireQueued)

FairSpec == Spec /\ Fairness
-----------------------------------------------------------------------------
(* Safety, for any number of workers.                                      *)

\* A completed or a cancelled job keeps its verdict and, when completed, its
\* results, whatever a worker that lost its lease still writes; a failed job
\* leaves that state only by a retry, which the retry count shows.
VerdictSettled ==
    [][\A j \in Jobs :
         /\ job[j].status \in {"completed", "cancelled"} =>
              /\ job'[j].status = job[j].status
              /\ job'[j].results = job[j].results
              /\ job'[j].affected = job[j].affected
         /\ job[j].status = "failed" /\ job'[j].status # "failed" =>
              /\ job'[j].status = "queued"
              /\ job'[j].retry_count = job[j].retry_count + 1]_vars

\* Results and affected-customer rows are those of a completed job, both or
\* neither and from the same replay: a crash of Complete or a retry never leaves
\* a job that looks complete but pages an empty or an older population.
ResultsWhole ==
    \A j \in Jobs :
        /\ (job[j].results # None) <=> (job[j].status = "completed")
        /\ job[j].affected = IF job[j].results # None THEN job[j].results ELSE {}

\* A queued job has no progress, no results and no lease: none survives a retry,
\* not even from a worker of the failed attempt that is still reporting its
\* progress.  The outcome analysis is not among them: that worker may save its
\* own over the reset one, SaveBacktestOutcomeAnalysis asking for no lease; and
\* the population saved for a filter is kept on purpose.
QueuedHasNoProgress ==
    \A j \in Jobs : job[j].status = "queued" =>
        /\ job[j].processed = 0
        /\ job[j].total = 0
        /\ job[j].results = None
        /\ job[j].lease = "none"

\* The audit log never claims an outcome the job did not have: a completion is
\* final, and a recorded failure or expiry is still visible or was retried.
AuditTruthful ==
    \A j \in Jobs :
        /\ "completed" \in audit[j] => job[j].status = "completed"
        /\ audit[j] \cap {"failed", "queue_expired"} # {} =>
               job[j].status = "failed" \/ job[j].retry_count > 0

\* A job that names its customers reports on exactly those, however many workers
\* executed it and however often it was retried.
SelectionHonoured ==
    \A j \in Jobs :
        job[j].status = "completed" /\ job[j].customer_ids # {} =>
            job[j].results = job[j].customer_ids
-----------------------------------------------------------------------------
(* Safety that one worker process gives and several do not.                *)

\* A filter is evaluated once: a saved population never changes, so restarts and
\* retries replay the same customers.
SnapshotEvaluatedOnce ==
    [][\A j \in Jobs : snapshot[j] # None => snapshot'[j] = snapshot[j]]_vars

\* What a completed job reports comes from one pass over the saved population:
\* the results, the outcome analysis beside them and the progress counters.
OnePass ==
    \A j \in Jobs : job[j].status = "completed" =>
        /\ job[j].results = snapshot[j]
        /\ job[j].analysis = job[j].results
        /\ job[j].processed = job[j].total
        /\ job[j].total = Cardinality(job[j].results)
-----------------------------------------------------------------------------
(* Liveness.                                                               *)

\* Every accepted job is settled in the end: claimed and executed, reclaimed
\* when the worker that held it stopped, or expired when nobody claims it.
EveryJobSettles ==
    \A j \in Jobs : job[j].status \in {"queued", "running"} ~> job[j].status \in Settled
=============================================================================
