---------------------------- MODULE CustomerPurge ----------------------------
(***************************************************************************)
(* The customer_data target of the retention purge, table by table and     *)
(* statement by statement.  Retention takes it as one step; here it is the *)
(* transaction it is, at READ COMMITTED: each of its statements sees what  *)
(* the API has committed by then, the API sees none of its marks before it *)
(* commits, and a row it has marked is locked.                             *)
(*                                                                         *)
(* There is one customer with at most one row in every table that refers   *)
(* to it.  A statement that deletes a row another row still refers to      *)
(* raises foreign_key_violation: the transaction is rolled back and the    *)
(* purge ends there for every customer.                                    *)
(***************************************************************************)
EXTENDS Integers, Sequences, FiniteSets

CONSTANTS
    Grace,       \* PhysicalDeletionGracePeriod, in days
    MaxChildren  \* bound: the customer's rows at a time, those of screening apart

(***************************************************************************)
(* The tables whose customer_id REFERENCES customers(id), in the order of  *)
(* migrations 001, 002 (two), 004, 009, 010, 011, 020, 031, 038, 045       *)
(* (two), 053, 054 and 062; and all keys, <<child, parent>>, with the two  *)
(* migration 045 adds for screening.  None has an ON DELETE.               *)
(***************************************************************************)
OntoCustomers ==
    { "customer_score_history", "transactions", "alerts", "cases", "pending_evaluations",
      "whitelist_entries", "screening_results", "account_customers",
      "backtest_job_customers", "str_reports", "screening_runs",
      "customer_identity_history", "customer_edd_events", "cdd_score_overrides",
      "customer_reviews" }

ForeignKeys ==
    (OntoCustomers \X {"customers"}) \cup
    { <<"screening_results", "screening_runs">>,
      <<"screening_result_history", "screening_results">> }

Tables == OntoCustomers \cup {"customers", "screening_result_history"}

\* Mutant: the reviews of migration 062 are not in the guard.
GuardBeforeReviews ==
    { "transactions", "alerts", "cases", "customer_score_history",
      "customer_identity_history", "customer_edd_events",
      "cdd_score_overrides", "screening_runs", "screening_results", "pending_evaluations",
      "whitelist_entries", "backtest_job_customers", "str_reports", "account_customers" }

(***************************************************************************)
(* The tables DELETE FROM customers asks for rows of the customer.         *)
(***************************************************************************)
Guard ==
    { "transactions", "alerts", "cases", "customer_score_history",
      "customer_identity_history", "customer_edd_events", "customer_reviews",
      "cdd_score_overrides", "screening_runs", "screening_results", "pending_evaluations",
      "whitelist_entries", "backtest_job_customers", "str_reports", "account_customers" }

(***************************************************************************)
(* CustomerData, statement by statement.                                   *)
(***************************************************************************)
Statements ==
    << <<"mark", "customers">>, <<"mark", "screening_results">>,
       <<"mark", "screening_result_history">>, <<"delete", "screening_result_history">>,
       <<"delete", "screening_results">>,
       <<"mark", "customer_identity_history">>, <<"delete", "customer_identity_history">>,
       <<"mark", "cdd_score_overrides">>, <<"delete", "cdd_score_overrides">>,
       <<"mark", "customer_edd_events">>, <<"delete", "customer_edd_events">>,
       <<"mark", "screening_runs">>, <<"delete", "screening_runs">>,
       <<"delete", "account_customers">>, <<"delete", "customers">> >>

\* The row whose new mark a child's mark follows.
Owner(t) == IF t = "screening_result_history" THEN "screening_results" ELSE "customers"

\* Rows that other targets of the purge delete in their own time.
PurgedApart == { "transactions", "alerts", "cases", "customer_score_history",
                 "pending_evaluations", "backtest_job_customers" }

\* Days since purge_marked_at; Unmarked while it is NULL, Absent without a row.
Absent == -2
Unmarked == -1

VARIABLES
    mark,     \* the tables, as committed
    pass,     \* the transaction: its next statement, its marks and deletions
    request,  \* the table a request that has read the customer will write
    late,     \* the screening run was stored while a pass was marking
    raised    \* the table whose deletion failed in the last pass

vars == << mark, pass, request, late, raised >>

NoPass == [at |-> 0, marked |-> {}, deleted |-> {}]
Children == { t \in Tables \ {"customers"} : mark[t] # Absent }

Init ==
    /\ mark = [t \in Tables |-> IF t = "customers" THEN Unmarked ELSE Absent]
    /\ pass = NoPass /\ request = "none" /\ late = FALSE /\ raised = "none"
-----------------------------------------------------------------------------
(* The API.                                                                *)

(***************************************************************************)
(* A handler reads the customer, which it finds only while it is not       *)
(* marked, and then writes a row for it, whatever has happened since.      *)
(***************************************************************************)
ReadCustomer(t) ==
    /\ request = "none" /\ mark["customers"] = Unmarked
    /\ t \in OntoCustomers \ {"screening_results"} /\ mark[t] = Absent
    /\ request' = t
    /\ UNCHANGED << mark, pass, late, raised >>

Screening == {"screening_runs", "screening_results", "screening_result_history"}
Fits(t) == t \in Screening \/ Cardinality(Children \ Screening) < MaxChildren

WriteChild ==
    /\ request \in OntoCustomers \ {"screening_runs"}
    /\ mark[request] = Absent /\ Fits(request)
    /\ mark["customers"] # Absent
    /\ mark' = [mark EXCEPT ![request] = Unmarked]
    /\ request' = "none"
    /\ UNCHANGED << pass, late, raised >>

(***************************************************************************)
(* PersistScreeningRun: the run and its results in one transaction.        *)
(***************************************************************************)
PersistScreeningRun(results) ==
    /\ request = "screening_runs" /\ results \subseteq {"screening_results"}
    /\ \A t \in {"screening_runs"} \cup results : mark[t] = Absent
    /\ mark' = [t \in Tables |-> IF t \in {"screening_runs"} \cup results
                                 THEN Unmarked ELSE mark[t]]
    /\ late' = (pass.at \in 3..12)
    /\ request' = "none"
    /\ UNCHANGED << pass, raised >>

\* Mutant: the result is read without FOR UPDATE.
ReviewUnlocked(opened) ==
    /\ mark["screening_results"] = Unmarked
    /\ \A t \in {"screening_result_history"} \cup opened : mark[t] = Absent /\ Fits(t)
    /\ mark' = [t \in Tables |-> IF t \in {"screening_result_history"} \cup opened
                                 THEN Unmarked ELSE mark[t]]
    /\ UNCHANGED << pass, request, late, raised >>

(***************************************************************************)
(* ReviewScreeningResult: SELECT ... purge_marked_at IS NULL FOR UPDATE    *)
(* waits for a pass that has marked the result, and then no longer finds   *)
(* it; otherwise the history row is stored with the new status, and a true *)
(* positive opens a case.  The customer is not read.                       *)
(***************************************************************************)
ReviewScreeningResult(opened) ==
    /\ mark["screening_results"] = Unmarked
    /\ "screening_results" \notin pass.marked
    /\ \A t \in {"screening_result_history"} \cup opened : mark[t] = Absent /\ Fits(t)
    /\ mark' = [t \in Tables |-> IF t \in {"screening_result_history"} \cup opened
                                 THEN Unmarked ELSE mark[t]]
    /\ UNCHANGED << pass, request, late, raised >>

\* The request fails, or its process stops.
GiveUp ==
    /\ request # "none" /\ request' = "none"
    /\ UNCHANGED << mark, pass, late, raised >>

\* Another target deletes its own row of the customer.
PurgeApart(t) ==
    /\ t \in PurgedApart /\ mark[t] # Absent
    /\ mark' = [mark EXCEPT ![t] = Absent]
    /\ UNCHANGED << pass, request, late, raised >>
-----------------------------------------------------------------------------
(* The pass.                                                               *)

\* What the transaction sees: what is committed, with its own writes.
Sees(t) == mark[t] # Absent /\ t \notin pass.deleted
MarkSeen(t) == IF t \in pass.marked THEN 0 ELSE mark[t]

(***************************************************************************)
(* A child is marked when its owner was marked by this very pass.  Which   *)
(* customers are due is Retention's subject.                               *)
(***************************************************************************)
Marks(t) ==
    /\ Sees(t) /\ MarkSeen(t) = Unmarked
    /\ t # "customers" => Owner(t) \in pass.marked

(***************************************************************************)
(* The links to accounts go with the customer's own grace period, whether  *)
(* or not the guard then lets the customer go.  No account goes with them: *)
(* the statement's NOT EXISTS reads the snapshot the links are still in.   *)
(***************************************************************************)
Deletes(t) ==
    /\ Sees(t)
    /\ IF t = "account_customers" THEN MarkSeen("customers") >= Grace
                                  ELSE MarkSeen(t) >= Grace
    /\ t = "customers" => \A g \in Guard : ~Sees(g)

\* External: the database's own check of the keys.
Violates(t) == \E key \in ForeignKeys : key[2] = t /\ Sees(key[1])

Begin ==
    /\ pass = NoPass
    /\ pass' = [NoPass EXCEPT !.at = 1] /\ raised' = "none"
    /\ UNCHANGED << mark, request, late >>

Mark(t) ==
    /\ \/ Marks(t) /\ pass' = [pass EXCEPT !.at = @ + 1, !.marked = @ \cup {t}]
       \/ (~Marks(t) \/ t = "customers") /\ pass' = [pass EXCEPT !.at = @ + 1]
    /\ UNCHANGED raised

Delete(t) ==
    IF ~Deletes(t)
    THEN pass' = [pass EXCEPT !.at = @ + 1] /\ UNCHANGED raised
    ELSE IF Violates(t)
    THEN pass' = NoPass /\ raised' = t
    ELSE pass' = [pass EXCEPT !.at = @ + 1, !.deleted = @ \cup {t}] /\ UNCHANGED raised

Statement ==
    /\ pass.at \in 1..Len(Statements)
    /\ LET t == Statements[pass.at][2]
       IN  IF Statements[pass.at][1] = "mark" THEN Mark(t) ELSE Delete(t)
    /\ UNCHANGED << mark, request, late >>

Commit ==
    /\ pass.at = Len(Statements) + 1
    /\ mark' = [t \in Tables |-> IF Sees(t) THEN MarkSeen(t) ELSE Absent]
    /\ pass' = NoPass
    /\ UNCHANGED << request, late, raised >>

\* The process stops, or a statement fails for another reason.
Rollback ==
    /\ pass # NoPass /\ pass' = NoPass
    /\ UNCHANGED << mark, request, late, raised >>

(***************************************************************************)
(* Neither a request nor a pass lasts for a day.                           *)
(***************************************************************************)
NextDay ==
    /\ pass = NoPass /\ request = "none"
    /\ mark' = [t \in Tables |-> IF mark[t] \in 0..(Grace - 1) THEN mark[t] + 1 ELSE mark[t]]
    /\ UNCHANGED << pass, request, late, raised >>

Next ==
    \/ \E t \in Tables : ReadCustomer(t) \/ PurgeApart(t)
    \/ \E results \in SUBSET {"screening_results"} : PersistScreeningRun(results)
    \/ \E opened \in SUBSET {"cases"} : ReviewScreeningResult(opened)
    \/ WriteChild \/ GiveUp
    \/ Begin \/ Statement \/ Commit \/ Rollback
    \/ NextDay

Spec == Init /\ [][Next]_vars
-----------------------------------------------------------------------------
(***************************************************************************)
(* Every mark stays in its range, and the pass at one of its statements.   *)
(***************************************************************************)
TypeOK ==
    /\ mark \in [Tables -> {Absent, Unmarked} \cup 0..Grace]
    /\ pass \in [at : 0..(Len(Statements) + 1), marked : SUBSET Tables, deleted : SUBSET Tables]
    /\ request \in OntoCustomers \cup {"none"}
    /\ late \in BOOLEAN /\ raised \in Tables \cup {"none"}

(***************************************************************************)
(* DELETE FROM customers never raises: the guard asks for every table that *)
(* a migration made refer to customers, and whatever the API stores while  *)
(* the pass goes on, a customer that is not ready is skipped ("one unready *)
(* customer stops retention for all of them", CustomerData).               *)
(***************************************************************************)
GuardCoversForeignKeys == raised # "customers"

(***************************************************************************)
(* "Every child is marked and deleted before its parent" (CustomerData)    *)
(* holds but for one race: only the deletion of a screening run can raise, *)
(* and only of one whose results were stored after the pass had marked the *)
(* results and before it marked the runs.  In particular no review of a    *)
(* result leaves a history row behind that its deletion would trip over.   *)
(***************************************************************************)
ChildrenGoFirst == raised = "none" \/ (raised = "screening_runs" /\ late)

(***************************************************************************)
(* "Every child is marked and deleted before its parent; deleting the      *)
(* parent first raised foreign_key_violation and aborted the whole purge." *)
(***************************************************************************)
NeverAborts == raised = "none"
=============================================================================
