# Merlon: TLA+ specifications, model checking and proofs

Merlon monitors customers and transactions for money laundering. Its Go API runs
in one or more processes on one PostgreSQL database; background jobs run inside
the same processes, and nothing but the database coordinates them. These
specifications model that coordination: what concurrent requests, jobs, crashes
and retries can do to the rows they share.

`PROJECT.json` maps every definition to the source lines it models, and lists the
runs, the mutants that show each property can fail, the hazards and the theorems.

## The system and its parts

| Part | Source (`src/api/internal/` unless given) | Module |
|---|---|---|
| Backtest jobs: queue, leases, workers, expiry sweep | `store/postgres_backtest_job.go`, `backtest/`, `server/backtest.go` | `BacktestJobs` |
| Alerts, cases, suspicious transaction reports (STR), EDD job | `server/alert*.go`, `server/case.go`, `server/report.go`, `casemgmt/`, `batch/edd_escalation.go`, `store/postgres.go` | `CaseLifecycle` |
| Event outbox, its worker, the `pg_notify` bus | `store/event_outbox_postgres.go`, `server/event_outbox_worker.go`, `events/` | `EventBus` |
| Retention purge | `retention/`, `store/retention.go`, `server/retention.go`, the keys in `src/migrations` | `Retention`, `CustomerPurge` |
| Customers, CDD scoring, overrides, periodic review | `server/customer*.go`, `server/cdd_override.go`, `review/` | planned |
| Transactions, realtime monitoring, pending evaluations, recovery | `server/transaction.go`, `batch/recovery.go`, `store/postgres_pending_evaluation.go` | planned (their purge: `Retention`) |
| Manual and scheduled batches, target manifests | `server/wave3_batch.go`, `server/batch.go`, `batch/scheduler.go` | planned |
| Inbound and outgoing webhooks, REST adapter, bulk import | `webhook/`, `server/inbound_*.go`, `server/webhook*.go`, `adapter/`, `ingestion/` | planned |
| Users, sessions, refresh tokens | `server/session.go`, `store/users.go`, `store/user_lifecycle.go`, `auth/` | planned |
| Rules with dual control, whitelist | `server/rules.go`, `store/rules.go`, `server/whitelist.go`, `store/whitelist.go` | planned |
| Sanctions screening and list import | `screening/` | planned (storing and reviewing results beside the purge: `CustomerPurge`) |
| Rule engine, policies, outcome matcher, coverage | `engine/`, `policy/`, `outcome/`, `coverage/` | planned as pure operators |
| UI, configuration, notifications, metrics, demo data, migrations tool | `src/ui`, `config/`, `notify/`, `demogen/`, `src/api/cmd/` | not modelled: no shared state of their own |

How they interact: scoring a customer writes a tier change into the outbox in the
same transaction (`EventBus`); its handler raises alerts, which consolidation puts
into cases (`CaseLifecycle`); every closed row later falls to the purge
(`Retention`); backtests replay rules on snapshots of the same customers
(`BacktestJobs`). The modules are checked separately so far. They meet at
few points: `Retention` abstracts the alert, case, evaluation and job lifecycles
to "open", "settled", "failed" and "set aside".

## Conventions

* One action per request, statement group or job step. A transaction is READ
  COMMITTED: what it reads without a lock is a step of its own, its locked part
  and its commit are one step. A statement outside a transaction is one step.
* Payloads are abstracted to what properties tell apart. In `BacktestJobs` the
  result of a replay over a population *is* that population, so two results can be
  compared for origin. `updated_at` is a version number.
* Every bound is a named constant (`MaxRetries`, `MaxStops`, `MaxAlertVersion`,
  `MaxCaseVersion`, `MaxVersions`, `MaxFaults`, `MaxAge`, `MaxRows`, `MaxChildren`); guards apply it.
* An operator commented "Mutant" is a plausible mistake in the definition after
  it; it is used only to confirm that a property notices it.

## The modules

### BacktestJobs

`job` is the row of `backtest_jobs` with its result rows, `snapshot` the saved
population, `worker` the local state of each `Worker.RunOnce`, `matching` the
customers that satisfy the filter at this moment, `audit` the lifecycle entries.
A worker claims (`ClaimNext`), reads or evaluates and saves its population,
reports progress, saves the outcome analysis, completes or fails, reads the job
back and audits it. Beside it run `Cancel`, `Retry`, `MonitorCancellation`, the
expiry sweep and the passing of leases and deadlines (`Tick`).

The point of interest is that a lease has no token. Writes are guarded at most by
`status = 'running'`, so a worker that lost its lease still writes to a job that
another one executes. The statement that saves the outcome analysis has no guard
at all, and a retry keeps the saved population on purpose.

### CaseLifecycle

`alert`, `cases`, `report` are the tables; `decisions` and `timeline` the
append-only histories; `req` the request each client or job is serving, with what
it has read. Consolidation, status changes of alerts and cases, edits with and
without `expected_updated_at`, bulk closure, death freeze, reports and the EDD job
are actions. Clients in `Locking` always send the version they saw. The death
freeze is one transaction over all alerts of a customer: one link refused, none is
made. A report may name the report it supersedes and the one it corrects; when it
names both, only the first is validated, as in `handleCreateSTR`. Of relationships
between cases only the write to the case row is modelled.

### EventBus

`outbox` rows get their number when they are inserted and become visible when the
transaction commits, so numbers become visible out of order, and a rollback leaves
a gap. The worker of each process lists due rows, publishes one and marks it. Each
subscription hands notifications to the handler or, at a gap, waits and reads the
outbox. Every fault the code handles is an action: publication, recording,
marking and re-query fail, the connection is lost, the process restarts. `main`
starts the outbox worker before the subscription has executed `LISTEN`, so a
restarted process is "starting" first and misses what is sent meanwhile.

### Retention

`row` holds one record per row of every purged table: settled or not, days since
its reference date, days since `purge_marked_at`, and `evidence`, the marks of
rows that refer to it. `Purge` is one target: mark, sweep the evidence, delete;
when a foreign key refuses a deletion the target is rolled back and the run ends.
`StartRun`, `StopRun` and `NextDay` are the scheduler, interruptions and time. The
other actions are the API working on the same rows between and during passes. A
run works with the policies as it listed them at its start. Ages saturate, so
time may go on for ever and liveness can be checked.

A request that has read the customer just before a pass marks it still inserts
its row. `Referenced` holds the keys between these rows; those onto `customers`
are in `CustomerPurge`.

### CustomerPurge

The `customer_data` target statement by statement, for one customer. `mark` is
the committed state of the customer and of each table that a migration makes refer
to it, `pass` the open transaction with its own marks and deletions, `request` a
handler that has read the customer and has yet to write. The keys
(`OntoCustomers`, `ForeignKeys`) are taken from the migrations and the guard
(`Guard`) from the `DELETE` statement: two lists, and that they agree is checked.
Between any two statements requests commit.

`ChildrenGoFirst` says exactly when the pass can fail. Results of screening are
marked at line 145 of `postgres_purger.go`, the runs they refer to at line 184. A
run that commits with its results in between is marked and its results are not; a
grace period later `DELETE FROM screening_runs` raises `foreign_key_violation` and
the target is rolled back, on that day and every day after. The comment at line
150 ("Every child is marked and deleted before its parent") does not hold for it.
`NeverAborts` states the comment; no run checks it.

Links to accounts go with the customer's grace period, but no account does: the
`NOT EXISTS` of that statement reads the snapshot in which the links still are.

`MCPurge` checks `Retention` and `CustomerPurge` in one run: each behaviour
exercises one of them while the other stands still.

## The runs

| Run | Kind | What it shows |
|---|---|---|
| `backtest_two_workers` | pass | Two workers, one retry, one stop: a completed or cancelled job keeps its verdict and results, results and affected rows come from one replay, a queued job has no progress, results or lease, audit entries are true, a named selection is honoured |
| `backtest_one_worker` | pass, fair | One worker that stops twice: all a job reports comes from one pass over a population saved once, and every job is settled in the end |
| `backtest_snapshot_race` | violation | With two workers the population is evaluated twice, against the comment in `domain/backtest_job.go` |
| `case_locking` | pass | Two clients that send versions: histories have no gaps, a case becomes terminal only over terminal alerts, a filed case stays filed on its submitted report, links join active work only |
| `case_unlocked` | pass | No versions, EDD job running, two customers: closing time, disposition and last decision agree with the status, cases hold alerts of one customer, corrections name submitted reports |
| `case_reopened_alert` | violation | An alert is reopened under a closed case, against the invariant stated in `domain/case.go` |
| `case_filed_then_edd` | violation | The EDD job writes an unfiled row back over a filed case |
| `bus_delivery` | pass, fair | Three events, two faults of any kind: nothing is marked published unsent, everything committed is published, every tier change reaches the handler of an undisturbed process |
| `bus_hollow` | violation | The first notification reaches the handler without the payload it decodes, and is never delivered again |
| `retention_pass` | pass | Unfinished work survives every pass and no row goes before its time; statement by statement, `DELETE FROM customers` never raises, and no other deletion does but that of a screening run in the race above |
| `retention_fair` | pass, fair | Passes interrupted any number of times still delete every transaction, unless a marked row stays referred to |
| `retention_starved` | violation | An alert closed through the API is referred to by its decision event for good: the first target fails daily and all later categories starve |

`UnfinishedSurvives` deserves a remark. The `DELETE` statements look at the mark
alone; reopened work survives only because reopening leaves a row that refers to
it and the database refuses the deletion. Drop that history row and the property
fails. The same reference is what starves the later categories. For backtest jobs
no such row is written by a retry, and the documentation promises nothing about
them; the property leaves them out.

### Why the bounds are enough

* Backtest: jobs share nothing but workers, so one job shows every race on a row.
  Two workers are needed for a lost lease, one retry for leftovers of an earlier
  attempt, two customers for progress and partial populations.
* Cases: races are between two writers of one case. Two customers occur where links
  could be mixed up. In `case_unlocked` an alert and a case have up to four versions
  each, and all rows together six (`MaxVersions`): an alert is created, taken up,
  closed and reopened, and a case that was closed or filed (its third version) is
  written once more from a stale row. Long lives of both in one behaviour are out.
* Bus: a gap needs three events (one seen, one missing, one after). With two events
  no gap is ever noticed. One process suffices for its own delivery, since
  subscriptions share nothing; two faults allow one during the repair of another.
* Retention: any two rows beside the customer, of any kinds, with two jobs so that
  one may rerun the other. A retention period of one or two days and a grace period
  of one day separate "not due", "due", "marked" and "deletable". Dated tables
  behave alike; transactions stand for scores and audit logs. One process runs the
  purge.
* Customer purge: each table holds at most one row of the customer, so every key
  is met. Beside the rows of screening, which refer to each other, there is one
  more at a time (`MaxChildren`): the guard fails on any single row it misses.

Symmetry is used over workers, clients and jobs, in runs without liveness only.
Deadlock checking is off only for the bus, where all events may be published and
handled.

### Fairness

* `BacktestJobs`: weak fairness of each worker's next step (`Worker.Run` polls
  for ever), of the cancellation monitor, of time (leases and deadlines do pass)
  and of the sweep's ticker. No fairness on operators, and stops are bounded: a
  worker that always dies proves nothing.
* `EventBus`: weak fairness of the outbox worker's and the subscriber's loops and
  of backoffs elapsing. Faults are not fair and are bounded.
* `Retention`: strong fairness of the day, of the start of a run and of each
  target. Interruptions are not bounded; strong fairness says that again and again
  a target is reached and not interrupted.

## What is proved

TLAPS checks these for every value of the constants, from the named assumptions
in the modules (finite sets of customers and events, natural bounds, `None`
distinct from values).

* `BacktestJobsProofs!TypeCorrect`. `TypeOK` is inductive; the lemmas say what a
  write to a job row or to a worker keeps.
* `BacktestJobsProofs!VerdictsSettled`, `ResultsAreWhole`, `QueuedJobsHaveNoProgress`:
  for any number of jobs and workers. The argument has two layers. `RowsStep`
  shows that every action, of whichever actor, changes a job row only by one of a
  few kinds of row step (`RowStep`): that is where the guards of the SQL statements
  are used. `VerdictSettled` follows from the row steps alone, and `RowInv`, which
  joins results, affected rows and progress to the status, is preserved by each
  row step. No property of leases is needed, which is the point: the guards on
  the status do the work that a lease token would. The last theorem is about
  progress, results and lease; the analysis and the saved population of a queued
  job may be those of an earlier attempt.
* `EventBusProofs!TypeCorrect` and `NothingDroppedUnsent`. `PublishedWasSent` is
  not inductive, since `MarkPublished` marks whatever the worker holds. `IInv` adds
  `MarkingSent`: a worker about to mark an event has sent it.

Only model-checked: liveness (`EveryJobSettles`, `EveryEventPublished`,
`EveryTierChangeHanded`, `TransactionsPurged`), since fairness and ENABLED are out
of the prover's reach; `AuditTruthful`, `SelectionHonoured`, `OnePass`,
`SnapshotEvaluatedOnce`; all of `CaseLifecycle`, `Retention` and `CustomerPurge`.

## What is not modelled, and limits

* In-memory repositories. They serve tests and demos, with one mutex.
* Row contents: names, scores, amounts, matching of strings, cryptography.
* With two workers the outcome analysis of a job may come from the other worker's
  pass (the statement has no guard); `OnePass` is checked with one worker.
* Two consolidations at once may open two cases for one customer. The code allows
  it and no property excludes it.
* Evidence items, checklists, work items and relationship rows of cases; rendering of
  reports; the NATS driver, which is a stub.
* Customer reviews, whitelist entries and reports are never purged, so such
  customers stay. `CustomerPurge` has these rows, `Retention` has not.
* `retention/anonymize.go` has no caller.

## Plan

In this order, each with its runs, and sharing runs through MC modules where
components do not interact:

1. `Sessions`: login, rotation with reuse detection, revocation, session cap,
   change of authority. To prove: at most one live token per family, an active
   administrator remains, no active session carries an old role.
2. `PendingEvaluations`: realtime monitoring, gaps, recovery with retries,
   operator transitions. Abstract specification: a gap is resolved or escalated.
   Composition with `Retention` for marked gaps revived by an operator.
3. `InboundWebhooks`, `OutgoingWebhooks`: retry, dead letters, replay, no claim.
4. `ManualBatch` and `TMBatch`: manifests claimed once, cancellation, resumption.
5. `DualControl`: rules, whitelist and overrides as four-eyes workflows; one
   abstract specification (proposer differs from approver, one active version)
   implemented by each.
6. `Screening`, `CustomerReview`, `AdapterSync`: triggers, sweeps, checkpoints.
7. Pure operators with reference definitions: affected customers and their
   pages, outcome matcher, policies, windows of the rule engine, import decisions.
8. Composition of `EventBus` with `CaseLifecycle` (one alert per tier change).
9. An abstract job (queued, running, settled) implemented by `BacktestJobs`;
   proofs of `AuditTruthful`, of `LinksOnlyActiveWork`, `ClosedAtTerminal` and
   `DecisionsExplainStatus`, and of `UnfinishedSurvives` (a marked alert or case is
   settled or referred to, a marked open evaluation has an unmarked history row).
