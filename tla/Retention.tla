------------------------------ MODULE Retention ------------------------------
(***************************************************************************)
(* The retention purge: once a day PurgeJob.Run walks the retention        *)
(* policies in the order of their category and runs one target per         *)
(* category.  A target marks the rows whose retention period is over,      *)
(* and deletes the rows marked a grace period ago, in one transaction.     *)
(* The database refuses to delete a row that another row still refers to   *)
(* (the foreign keys of the migrations are RESTRICT): the transaction is   *)
(* rolled back and the run stops, before the categories that follow.       *)
(*                                                                         *)
(* Between the passes the API goes on working on the same rows: alerts,    *)
(* cases, pending evaluations and backtest jobs are settled and taken up   *)
(* again, and each step may leave evidence (a decision event, a case       *)
(* event, a history row) that refers to the row.                           *)
(*                                                                         *)
(* Time is counted in whole days and kept as ages that stop growing once   *)
(* nothing tells them apart: at MaxAge, and at Grace for marks.  A run     *)
(* lasts less than a day.                                                  *)
(* All rows but the audit log and the jobs belong to one customer.  The    *)
(* tables purged along with the customer, and the keys between them, are   *)
(* the subject of CustomerPurge.                                           *)
(***************************************************************************)
EXTENDS Integers, Sequences, FiniteSets

CONSTANTS
    Alerts, Cases, Pendings, Jobs,      \* row identifiers, one set per table
    Transactions, Scores, AuditLogs,
    Customer,                           \* the customer row
    Processes,                          \* API processes that run the scheduler
    Days,                               \* retention_days of a policy may be one of these
    Adjustable,                         \* categories whose policy an administrator changes
    Grace,                              \* PhysicalDeletionGracePeriod, in days
    MaxAge,                             \* bound: ages stop growing here
    MaxRows,                            \* bound: rows there ever are besides the customer
    None                                \* no job

ASSUME RetentionAssumption ==
    /\ Grace \in Nat \ {0} /\ MaxAge \in Nat /\ Grace <= MaxAge
    /\ Days \subseteq 1..MaxAge /\ Days # {}

(***************************************************************************)
(* retention_policies ORDER BY data_category.                              *)
(***************************************************************************)
Policies == << "alert_case_data", "audit_log", "backtest_data", "cdd_score_history",
               "customer_data", "pending_evaluation_data", "transaction_data" >>

Categories == { Policies[i] : i \in 1..Len(Policies) }
Dated == Transactions \cup Scores \cup AuditLogs
Owned == Alerts \cup Cases \cup Pendings \cup Transactions \cup Scores
Rows == Owned \cup Jobs \cup AuditLogs \cup {Customer}

(***************************************************************************)
(* Days since purge_marked_at, or Unmarked while it is NULL.               *)
(***************************************************************************)
Unmarked == -1
Mark == {Unmarked} \cup 0..Grace

(***************************************************************************)
(* A row.  "closed" stands for every settled status a target purges:       *)
(* closed_* alerts, closed cases, RESOLVED evaluations, completed and      *)
(* cancelled jobs, and rows that have no status; "failed" for FAILED       *)
(* evaluations and failed jobs; "set_aside" for suppressed alerts and      *)
(* str_filed cases.  age counts from resolved_at, closed_at, executed_at,  *)
(* scored_at or created_at.  evidence holds the marks of the rows that     *)
(* refer to this one.                                                      *)
(***************************************************************************)
Status == {"absent", "open", "closed", "failed", "set_aside", "deleted"}
Row == [status : Status, age : 0..MaxAge, marked : Mark, evidence : SUBSET Mark]

VARIABLES
    row,            \* the tables
    rerun_of,       \* backtest_job_metadata.rerun_of
    retention_days, \* retention_policies
    run,            \* per process: the run going on, or Idle
    aborted         \* the category whose target failed in the last run
vars == << row, rerun_of, retention_days, run, aborted >>

Exists(r) == row[r].status \notin {"absent", "deleted"}
Used == { r \in Rows \ {Customer} : row[r].status # "absent" }
Idle == [at |-> 0, days |-> << >>]
Absent == [status |-> "absent", age |-> 0, marked |-> Unmarked, evidence |-> {}]

(***************************************************************************)
(* Alerts and cases settled before the evidence tables were introduced     *)
(* have no evidence.                                                       *)
(***************************************************************************)
Init ==
    /\ row \in [Rows -> {Absent, [Absent EXCEPT !.status = "closed"]}]
    /\ \A r \in Rows \ (Alerts \cup Cases \cup {Customer}) : row[r] = Absent
    /\ row[Customer].status = "closed" /\ Cardinality(Used) <= MaxRows
    /\ rerun_of = [j \in Jobs |-> None]
    /\ retention_days \in [Categories -> Days]
    /\ \A c \in Categories \ Adjustable : retention_days[c] = CHOOSE d \in Days : \A e \in Days : d <= e
    /\ run = [p \in Processes |-> Idle]
    /\ aborted = "none"

(***************************************************************************)
(* The API.  Reads of customers, alerts and cases skip marked rows; reads  *)
(* of evaluations and jobs by identifier do not.                           *)
(***************************************************************************)
Readable(r) == Exists(r) /\ row[r].marked = Unmarked

Write(r, new) ==
    /\ row' = [row EXCEPT ![r] = new]
    /\ UNCHANGED << retention_days, run, aborted >>

(***************************************************************************)
(* A row is inserted: a case with its first event, a job with metadata     *)
(* when the request has a rationale or names the job it reruns.  A request *)
(* that read the customer just before today's pass marked it goes on.      *)
(***************************************************************************)
Insert(r, status, evidence, origin) ==
    /\ row[r].status = "absent" /\ Cardinality(Used) < MaxRows
    /\ r \in Owned => Exists(Customer) /\ row[Customer].marked < 1
    /\ status \in IF r \in Dated THEN {"closed"}
                  ELSE IF r \in Alerts THEN {"open", "set_aside"} ELSE {"open"}
    /\ evidence \in CASE r \in Cases -> {{Unmarked}}
                      [] r \in Jobs -> {{}, {Unmarked}}
                      [] OTHER -> {{}}
    /\ \/ origin = None
       \/ r \in Jobs /\ evidence # {} /\ origin \in Jobs \ {r} /\ Exists(origin)
    /\ Write(r, [status |-> status, age |-> 0, marked |-> Unmarked, evidence |-> evidence])
    /\ rerun_of' = IF r \in Jobs THEN [rerun_of EXCEPT ![r] = origin] ELSE rerun_of

(***************************************************************************)
(* An alert or case is closed (or the case filed) with its decision event  *)
(* or case event, in one transaction.                                      *)
(***************************************************************************)
CloseWork(r, status) ==
    /\ Readable(r) /\ row[r].status = "open"
    /\ status \in IF r \in Cases THEN {"closed", "set_aside"} ELSE {"closed"}
    /\ Write(r, [row[r] EXCEPT !.status = status, !.age = 0,
                               !.evidence = row[r].evidence \cup {Unmarked}])
    /\ UNCHANGED rerun_of

(***************************************************************************)
(* A closed one is taken up again.  The request may have read the row just *)
(* before today's pass marked it: the update itself ignores the mark.      *)
(***************************************************************************)
ReopenWork(r) ==
    /\ row[r].status = "closed" /\ row[r].marked < 1
    /\ Write(r, [row[r] EXCEPT !.status = "open", !.age = 0,
                               !.evidence = row[r].evidence \cup {Unmarked}])
    /\ UNCHANGED rerun_of

\* Mutant: the transition leaves no history row.
TransitionPendingUnrecorded(r, status) ==
    /\ Exists(r)
    /\ row[r].status \in {"open", "failed"} /\ status \in {"open", "failed", "closed"}
    /\ Write(r, [row[r] EXCEPT !.status = status])
    /\ UNCHANGED rerun_of

(***************************************************************************)
(* TransitionPendingEvaluation: every transition adds a history row, and   *)
(* looks at the status only.  Recovery lists unmarked rows, operators may  *)
(* resolve, escalate or revive any row they name.                          *)
(***************************************************************************)
TransitionPending(r, status) ==
    /\ Exists(r)
    /\ row[r].status \in {"open", "failed"} /\ status \in {"open", "failed", "closed"}
    /\ Write(r, [row[r] EXCEPT !.status = status,
                               !.evidence = row[r].evidence \cup {Unmarked}])
    /\ UNCHANGED rerun_of

(***************************************************************************)
(* A job ends (completed, cancelled or failed) or a failed one is retried. *)
(***************************************************************************)
TransitionJob(r, status) ==
    /\ Exists(r)
    /\ \/ row[r].status = "open" /\ status \in {"closed", "failed"}
       \/ row[r].status = "failed" /\ status = "open"
    /\ Write(r, [row[r] EXCEPT !.status = status])
    /\ UNCHANGED rerun_of

UpdatePolicy(c, d) ==
    /\ d \in Days \ {retention_days[c]}
    /\ retention_days' = [retention_days EXCEPT ![c] = d]
    /\ UNCHANGED << row, rerun_of, run, aborted >>

(***************************************************************************)
(* A target's first statement: which unmarked rows it marks.               *)
(***************************************************************************)
Over(r, days) == Readable(r) /\ row[r].age >= days

LastTransactionOver(days) ==
    \/ \E t \in Transactions : Exists(t) /\ \A u \in Transactions :
          Exists(u) => row[u].age >= days
    \/ (\A t \in Transactions : ~Exists(t)) /\ Over(Customer, days)

Expired(r, days) ==
    CASE r \in Alerts \cup Cases -> Over(r, days) /\ row[r].status = "closed"
      [] r \in Pendings \cup Jobs -> Over(r, days) /\ row[r].status \in {"closed", "failed"}
      [] r \in Dated -> Over(r, days)
      [] r = Customer -> /\ Readable(r) /\ LastTransactionOver(days)
                         /\ \A a \in Alerts : Exists(a) => row[a].status = "closed"
                         /\ \A k \in Cases : Exists(k) => row[k].status = "closed"

(***************************************************************************)
(* Its next two statements, where the category has them: the evidence of   *)
(* the rows just marked is marked with them, and evidence marked a grace   *)
(* period ago is deleted.  Decision events and case events are append-only *)
(* for good, their tables have no purge_marked_at.                         *)
(* The customer's own children, its links to accounts among them, are      *)
(* swept in CustomerPurge.                                                 *)
(***************************************************************************)
Swept(r, days) ==
    LET new == IF Expired(r, days) THEN [row[r] EXCEPT !.marked = 0] ELSE row[r]
        kept == { m \in new.evidence : m < Grace }
    IN  IF r \in Alerts \cup Cases \cup Dated THEN new
        ELSE [new EXCEPT !.evidence =
                IF Expired(r, days) THEN { IF m = Unmarked THEN 0 ELSE m : m \in kept } ELSE kept]

(***************************************************************************)
(* Its last statement deletes the rows marked a grace period ago; a        *)
(* customer only once none of its rows is left.                            *)
(***************************************************************************)
CustomerFree == \A o \in Owned \cup Jobs : ~Exists(o)

\* Mutant: the grace period is not subtracted from now.
DeletesMarked(r, swept) ==
    /\ Exists(r) /\ swept[r].marked >= 0
    /\ r = Customer => CustomerFree

Deletes(r, swept) ==
    /\ Exists(r) /\ swept[r].marked >= Grace
    /\ r = Customer => CustomerFree

(***************************************************************************)
(* The foreign keys of the migrations between these rows: a decision       *)
(* event, a case event, an evaluation's history or a job's metadata refers *)
(* to its row, and the metadata of a rerun to the job it reruns.           *)
(***************************************************************************)
Referenced(r, swept) ==
    \/ swept[r].evidence # {}
    \/ \E j \in Jobs : rerun_of[j] = r /\ Exists(j) /\ swept[j].evidence # {}

Table(c) == CASE c = "alert_case_data" -> Alerts \cup Cases
              [] c = "audit_log" -> AuditLogs
              [] c = "backtest_data" -> Jobs
              [] c = "cdd_score_history" -> Scores
              [] c = "customer_data" -> {Customer}
              [] c = "pending_evaluation_data" -> Pendings
              [] c = "transaction_data" -> Transactions

(***************************************************************************)
(* The run lists the policies once: at is its position in Policies, days   *)
(* the periods as listed.                                                  *)
(***************************************************************************)
StartRun(p) ==
    /\ run[p] = Idle
    /\ run' = [run EXCEPT ![p] = [at |-> 1, days |-> retention_days]]
    /\ aborted' = "none"
    /\ UNCHANGED << row, rerun_of, retention_days >>

\* Mutant: the end of the policies is missed.
FollowingPastEnd(r) == [r EXCEPT !.at = r.at + 1]

\* Mutant: the last policy is left out.
FollowingButLast(r) == IF r.at = Len(Policies) - 1 THEN Idle ELSE [r EXCEPT !.at = r.at + 1]

Following(r) == IF r.at = Len(Policies) THEN Idle ELSE [r EXCEPT !.at = r.at + 1]

SweptTable(c, days) == [r \in Rows |-> IF r \in Table(c) THEN Swept(r, days) ELSE row[r]]

(***************************************************************************)
(* One target: all its statements, or none and the end of the run.         *)
(***************************************************************************)
Purge(p) ==
    /\ run[p] # Idle
    /\ LET c == Policies[run[p].at]
           swept == SweptTable(c, run[p].days[c])
           gone == { r \in Table(c) : Deletes(r, swept) }
       IN  IF \E r \in gone : Referenced(r, swept)
           THEN /\ run' = [run EXCEPT ![p] = Idle]
                /\ aborted' = c
                /\ UNCHANGED row
           ELSE /\ row' = [r \in Rows |-> IF r \in gone THEN [Absent EXCEPT !.status = "deleted"]
                                          ELSE swept[r]]
                /\ run' = [run EXCEPT ![p] = Following(run[p])]
                /\ UNCHANGED aborted
    /\ UNCHANGED << rerun_of, retention_days >>

(***************************************************************************)
(* The process stops, or a statement fails for another reason.  The        *)
(* targets for rows without status run their two statements outside a      *)
(* transaction, so their marks may stay without the deletions.             *)
(***************************************************************************)
StopRun(p) ==
    /\ run[p] # Idle
    /\ run' = [run EXCEPT ![p] = Idle]
    /\ LET c == Policies[run[p].at]
       IN  \/ UNCHANGED row
           \/ Table(c) \subseteq Dated /\ row' = SweptTable(c, run[p].days[c])
    /\ UNCHANGED << rerun_of, retention_days, aborted >>

Older(age, bound) == IF age = Unmarked \/ age = bound THEN age ELSE age + 1

NextDay ==
    /\ \A p \in Processes : run[p] = Idle
    /\ row' = [r \in Rows |->
         IF ~Exists(r) THEN row[r]
         ELSE [row[r] EXCEPT !.age = IF r \in Alerts \cup Cases /\ row[r].status # "closed"
                                     THEN 0 ELSE Older(row[r].age, MaxAge),
                             !.marked = Older(row[r].marked, Grace),
                             !.evidence = { Older(m, Grace) : m \in row[r].evidence }]]
    /\ UNCHANGED << rerun_of, retention_days, run, aborted >>

Next ==
    \/ \E r \in Rows \ Used, s \in {"open", "closed", "set_aside"}, e \in {{}, {Unmarked}},
         o \in Jobs \cup {None} : Insert(r, s, e, o)
    \/ \E r \in Alerts \cup Cases : ReopenWork(r) \/ \E s \in Status : CloseWork(r, s)
    \/ \E r \in Pendings, s \in Status : TransitionPending(r, s)
    \/ \E r \in Jobs, s \in Status : TransitionJob(r, s)
    \/ \E c \in Adjustable, d \in Days : UpdatePolicy(c, d)
    \/ \E p \in Processes : StartRun(p) \/ Purge(p) \/ StopRun(p)
    \/ NextDay

Spec == Init /\ [][Next]_vars

(***************************************************************************)
(* Days go by, and again and again a process gets through the targets      *)
(* without being stopped: batch.Scheduler starts the job every day.        *)
(***************************************************************************)
Fairness ==
    /\ SF_vars(NextDay)
    /\ \A p \in Processes :
         /\ SF_vars(StartRun(p))
         /\ \A i \in 1..Len(Policies) : SF_vars(run[p].at = i /\ Purge(p))
FairSpec == Spec /\ Fairness

-----------------------------------------------------------------------------
(***************************************************************************)
(* Every mark, age and position in the policies stays in its range.        *)
(***************************************************************************)
TypeOK ==
    /\ row \in [Rows -> Row]
    /\ rerun_of \in [Jobs -> Jobs \cup {None}]
    /\ retention_days \in [Categories -> Days]
    /\ run \in [Processes -> {Idle} \cup [at : 1..Len(Policies), days : [Categories -> Days]]]
    /\ aborted \in Categories \cup {"none"}

Removed(r) == row[r].status # "deleted" /\ row'[r].status = "deleted"

(***************************************************************************)
(* Unfinished work survives every pass ("an open gap is unfinished work    *)
(* and must survive any retention pass", PendingEvaluationData; "open      *)
(* records are excluded", data-retention.md): an alert, case or evaluation *)
(* that was marked while settled and has been taken up again since is not  *)
(* deleted, although the DELETE statements look at the mark alone.         *)
(***************************************************************************)
UnfinishedSurvives ==
    [][\A r \in Alerts \cup Cases \cup Pendings : Removed(r) => row[r].status # "open"]_vars

(***************************************************************************)
(* However policies change and work is reopened, no row is deleted before  *)
(* the shortest retention period and the grace period have gone by since   *)
(* the date its retention counts from.                                     *)
(***************************************************************************)
KeptForItsPeriod ==
    [][\A r \in Rows \ {Customer} : Removed(r) =>
          \E d \in Days : row[r].age >= d + Grace \/ row[r].age = MaxAge]_vars

(***************************************************************************)
(* The last category is reached: unless some marked row is held back by    *)
(* evidence that refers to it, every transaction is deleted in the end.    *)
(***************************************************************************)
HeldBack(r) == Exists(r) /\ row[r].marked >= Grace /\ Referenced(r, row)
TransactionsPurged ==
    \/ []<>(\E r \in Rows \ {Customer} : HeldBack(r))
    \/ \A t \in Transactions : [](Exists(t) => <>~Exists(t))

(***************************************************************************)
(* "data is physically deleted 30 days after its retention deadline is     *)
(* reached" (docs/compliance/data-retention.md), for the transactions.     *)
(***************************************************************************)
DeletedAfterGrace == \A t \in Transactions : [](Exists(t) => <>~Exists(t))
=============================================================================
