--------------------------- MODULE CaseLifecycle ---------------------------
(***************************************************************************)
(* Alerts, the cases that collect them and the STR reports a case is filed *)
(* with.  A monitoring process raises an alert and consolidates it into a  *)
(* case; operators move alerts and cases through their lifecycles over     *)
(* HTTP; the EDD escalation job raises the priority of cases.              *)
(*                                                                         *)
(* Every write runs in one READ COMMITTED transaction.  A statement of it  *)
(* sees what committed before the statement, and a row it wrote or read    *)
(* FOR UPDATE stays locked until the commit: what a handler reads without  *)
(* a lock is a step of its own, the locked part and the commit are one.    *)
(* updated_at is the version of a row.  A request carries the version its  *)
(* client saw (expected_updated_at) or, unless the client is in Locking,   *)
(* none.                                                                   *)
(***************************************************************************)
EXTENDS Naturals, Sequences, TLC

CONSTANTS
    Alerts, Cases, Reports,  \* ids
    Customers,
    CustomerOf,  \* the customer of every alert
    Clients,     \* concurrent requests: operators and monitoring processes
    Jobs,        \* replicas running the EDD escalation job
    Locking,     \* the clients that always send expected_updated_at
    MaxAlertVersion, MaxCaseVersion,  \* bounds on updated_at
    MaxVersions,  \* bound on the versions of an alert and a case together
    None         \* SQL NULL, a field the request leaves out

VARIABLES
    alert,      \* alerts
    cases,      \* cases
    report,     \* str_reports
    decisions,  \* alert_decision_events of every alert
    timeline,   \* the status changes in case_events of every case
    req         \* the request every client and job is serving

vars == <<alert, cases, report, decisions, timeline, req>>
-----------------------------------------------------------------------------
UnresolvedAlert == {"open", "investigating", "escalated"}

TerminalAlert == {"closed_true_positive", "closed_false_positive"}

AlertStatus == UnresolvedAlert \cup TerminalAlert \cup {"suppressed", "absent"}

UnresolvedCase == {"new", "investigating", "escalated", "reopened"}

TerminalCase == {"closed", "str_filed"}

CaseStatus == UnresolvedCase \cup TerminalCase \cup {"absent"}

ASSUME CaseAssumption ==
    /\ CustomerOf \in [Alerts -> Customers]
    /\ Locking \subseteq Clients
    /\ {MaxAlertVersion, MaxCaseVersion, MaxVersions} \subseteq Nat
    /\ None \notin Alerts \cup Cases \cup Reports \cup Customers \cup Nat
    /\ None \notin AlertStatus \cup CaseStatus

AlertRow == [status : AlertStatus, disposition : TerminalAlert \cup {None},
             updated_at : Nat]

CaseRow == [status : CaseStatus, customer : Customers \cup {None},
            alert_ids : SUBSET Alerts, str_candidate : BOOLEAN,
            str_report_id : Reports \cup {None}, closed_at : BOOLEAN,
            edd : BOOLEAN, updated_at : Nat]

ReportRow == [status : {"absent", "draft", "submitted"},
              case_id : Cases \cup {None}, alert_id : Alerts \cup {None},
              supersedes : Reports \cup {None}, corrects : Reports \cup {None}]

AbsentAlert == [status |-> "absent", disposition |-> None, updated_at |-> 0]

AbsentCase == [status |-> "absent", customer |-> None, alert_ids |-> {},
               str_candidate |-> FALSE, str_report_id |-> None,
               closed_at |-> FALSE, edd |-> FALSE, updated_at |-> 0]

AbsentReport == [status |-> "absent", case_id |-> None, alert_id |-> None,
                 supersedes |-> None, corrects |-> None]

\* A request: the row as the handler first read it, the linked alerts as it
\* read them, and what it is about to write.
Request == [pc : {"idle", "alert_tx", "alert_write", "case_tx", "case_write",
                  "edd_create", "report_tx", "consolidate", "attach"},
            alert : Alerts \cup {None}, id : Cases \cup {None},
            customer : Customers \cup {None},
            report : Reports \cup {None},
            supersedes : Reports \cup {None}, corrects : Reports \cup {None},
            row : CaseRow, seen : [Alerts -> AlertRow],
            to : AlertStatus \cup CaseStatus \cup {None}, candidate : BOOLEAN,
            before : AlertStatus, expected : Nat \cup {None}, attempt : 0..2]

Idle == [pc |-> "idle", alert |-> None, id |-> None, customer |-> None,
         report |-> None, supersedes |-> None, corrects |-> None, row |-> AbsentCase,
         seen |-> [a \in Alerts |-> AbsentAlert], to |-> None,
         candidate |-> FALSE, before |-> "absent", expected |-> None,
         attempt |-> 0]

\* Requests that have read something and have yet to act on it.
Consolidating(a) == [Idle EXCEPT !.pc = "consolidate", !.alert = a]

Selected(r, c, version) == [r EXCEPT !.pc = "attach", !.id = c, !.expected = version]

Retrying(r) == [r EXCEPT !.pc = "consolidate", !.attempt = r.attempt + 1]

Deciding(a, to, version) ==
    [Idle EXCEPT !.pc = "alert_tx", !.alert = a, !.to = to, !.expected = version]

Decided(r, status) == [r EXCEPT !.pc = "alert_write", !.before = status]

Changing(c, row, to, seen, rep, candidate, version) ==
    [Idle EXCEPT !.pc = "case_tx", !.id = c, !.row = row, !.to = to, !.seen = seen,
                 !.report = rep, !.candidate = candidate, !.expected = version]

Reporting(c, a, old, corrected) ==
    [Idle EXCEPT !.pc = "report_tx", !.id = c, !.alert = a, !.supersedes = old,
                 !.corrects = corrected]

TypeOK ==
    /\ alert \in [Alerts -> AlertRow]
    /\ cases \in [Cases -> CaseRow]
    /\ report \in [Reports -> ReportRow]
    /\ decisions \in [Alerts -> Seq([from : AlertStatus, to : AlertStatus])]
    /\ timeline \in [Cases -> Seq([before : CaseStatus, after : CaseStatus])]
    /\ req \in [Clients \cup Jobs -> Request]

Init ==
    /\ alert = [a \in Alerts |-> AbsentAlert]
    /\ cases = [c \in Cases |-> AbsentCase]
    /\ report = [r \in Reports |-> AbsentReport]
    /\ decisions = [a \in Alerts |-> <<>>]
    /\ timeline = [c \in Cases |-> <<>>]
    /\ req = [q \in Clients \cup Jobs |-> Idle]
-----------------------------------------------------------------------------
(* The transition tables of the domain package and what the SQL repeats.   *)

ValidAlertStatusTransition(from, to) ==
    \/ from = "open" /\ to \in {"investigating", "escalated"}
    \/ from = "investigating" /\ to \in {"escalated"} \cup TerminalAlert
    \/ from = "escalated" /\ to \in {"investigating"} \cup TerminalAlert
    \/ from \in TerminalAlert /\ to = "investigating"

\* Unlike the domain's table, the WHERE clause lets an alert stay where it is.
SqlAlertTransition(from, to) ==
    \/ from = "open" /\ to \in {"investigating", "escalated"}
    \/ /\ from \in {"investigating", "escalated"}
       /\ to \in {"investigating", "escalated"} \cup TerminalAlert
    \/ from \in TerminalAlert /\ to = "investigating"

ValidAlertStatusTransitionForCaseFiling(from, to) ==
    from \in UnresolvedAlert /\ to = "closed_true_positive"

\* Mutant: a filed case can be reopened like a closed one.
ReopensFiledCase(from, to) ==
    \/ from \in {"new", "escalated", "reopened"} /\ to = "investigating"
    \/ from = "investigating" /\ to \in {"escalated", "closed", "str_filed"}
    \/ from \in TerminalCase /\ to = "reopened"

ValidCaseStatusTransition(from, to) ==
    \/ from \in {"new", "escalated", "reopened"} /\ to = "investigating"
    \/ from = "investigating" /\ to \in {"escalated", "closed", "str_filed"}
    \/ from = "closed" /\ to = "reopened"

CompatibleCaseAlertState(caseStatus, alertStatus) ==
    \/ caseStatus \in TerminalCase /\ alertStatus \in TerminalAlert
    \/ /\ caseStatus \in UnresolvedCase
       /\ alertStatus \in UnresolvedAlert \cup TerminalAlert

CanAttachAlertToCase(caseStatus, alertStatus) ==
    caseStatus \in UnresolvedCase /\ alertStatus \in UnresolvedAlert

\* Mutant: the links are not compared with the customer of the case.
LinksOfAnyone(customer, status, links) ==
    \A a \in links : CanAttachAlertToCase(status, alert[a].status)

\* validatePgAlertLinks: the alerts are locked FOR UPDATE while it compares.
ValidLinks(customer, status, links) ==
    \A a \in links : /\ CustomerOf[a] = customer
                     /\ CanAttachAlertToCase(status, alert[a].status)

\* prepareCaseAlertTransitions: where a case's new status takes a linked alert.
LinkedTarget(to, status) ==
    CASE status \in TerminalAlert -> status
      [] to = "str_filed" /\ status \notin TerminalAlert -> "closed_true_positive"
      [] to = "investigating" /\ status = "open" -> "investigating"
      [] to = "escalated" /\ status \in {"open", "investigating"} -> "escalated"
      [] OTHER -> status
-----------------------------------------------------------------------------
(* Rows and histories.                                                     *)

\* The bounds of an instance: how often a row may still be written.
AlertRoom(a) ==
    /\ alert[a].updated_at < MaxAlertVersion
    /\ \A c \in Cases : alert[a].updated_at + cases[c].updated_at < MaxVersions

CaseRoom(c) ==
    /\ cases[c].updated_at < MaxCaseVersion
    /\ \A a \in Alerts : alert[a].updated_at + cases[c].updated_at < MaxVersions

Done(q) == req' = [req EXCEPT ![q] = Idle]

\* A version the request may name: without it the write is unconditional.
Expectations(q, version) == {version} \cup (IF q \in Locking THEN {} ELSE {None})

\* Mutant: reopening keeps the disposition the alert was closed with.
ReopenedAsDisposed(row, to) ==
    [row EXCEPT !.status = to, !.disposition = IF to \in TerminalAlert THEN to ELSE @,
                !.updated_at = @ + 1]

\* The status columns an alert update writes: closing records the disposition,
\* reopening clears it, escalating leaves it.
AlertWritten(row, to) ==
    [row EXCEPT !.status = to,
                !.disposition = IF to \in TerminalAlert THEN to
                                ELSE IF to = "investigating" THEN None ELSE @,
                !.updated_at = @ + 1]

\* appendRequiredAlertDecision: SupersedesID is the decision before it.
Decision(from, to) == [from |-> from, to |-> to]

\* Everything UPDATE cases SET writes: the status and the closing columns of the
\* row the handler read, changed by the request.  alert_ids is not among them.
CaseWritten(row, r) ==
    [row EXCEPT !.status = IF r.to = None THEN r.row.status ELSE r.to,
                !.closed_at = IF r.to = None THEN r.row.closed_at
                              ELSE r.to \in TerminalCase,
                !.str_candidate = r.candidate,
                !.str_report_id = IF r.to = "str_filed" THEN r.report
                                  ELSE r.row.str_report_id,
                !.updated_at = @ + 1]

\* appendRequiredCaseChangeEvents compares the row as read with the row written.
TimelineWritten(r) ==
    timeline' = IF r.to \in {None, r.row.status} THEN timeline
                ELSE [timeline EXCEPT ![r.id] =
                          Append(@, [before |-> r.row.status, after |-> r.to])]
-----------------------------------------------------------------------------
(* Monitoring: raise an alert, then consolidate it into a case.            *)

\* A whitelisted alert is stored suppressed.
CreateAlert(q) == \E a \in Alerts, status \in {"open", "suppressed"} :
    /\ req[q].pc = "idle"
    /\ alert[a].status = "absent"
    /\ alert' = [alert EXCEPT ![a] = [@ EXCEPT !.status = status, !.updated_at = 1]]
    /\ req' = [req EXCEPT ![q] = Consolidating(a)]
    /\ UNCHANGED <<cases, report, decisions, timeline>>

\* consolidateAlertOnce lists the customer's cases and prefers one under
\* investigation.  Which of them the consolidation window reaches is left open.
Targets(customer, inWindow) ==
    LET eligible == {c \in inWindow : /\ cases[c].customer = customer
                                      /\ cases[c].status \in UnresolvedCase}
        preferred == {c \in eligible : cases[c].status \in {"investigating", "escalated"}}
    IN  IF preferred # {} THEN preferred ELSE eligible

SelectCase(q) == \E inWindow \in SUBSET Cases :
    LET targets == Targets(CustomerOf[req[q].alert], inWindow)
    IN  /\ req[q].pc = "consolidate"
        /\ \/ /\ targets = {}
              /\ req' = [req EXCEPT ![q] = Selected(@, None, None)]
           \/ \E c \in targets :
                  req' = [req EXCEPT ![q] = Selected(@, c, cases[c].updated_at)]
        /\ UNCHANGED <<alert, cases, report, decisions, timeline>>

\* Mutant: links are appended to the case whatever became of it.
AppendToAnyCase(c, links, expected) ==
    /\ cases[c].status # "absent"
    /\ ValidLinks(cases[c].customer, "new", links \ cases[c].alert_ids)

\* AppendAlerts, the case locked FOR UPDATE.  Links the case already has are
\* skipped.
CanAppend(c, links, expected) ==
    /\ cases[c].updated_at = expected
    /\ cases[c].status \in UnresolvedCase
    /\ ValidLinks(cases[c].customer, cases[c].status, links \ cases[c].alert_ids)

AppendAlerts(c, links) ==
    cases' = IF links \subseteq cases[c].alert_ids THEN cases
             ELSE [cases EXCEPT ![c] = [cases[c] EXCEPT !.alert_ids = @ \cup links,
                                                        !.updated_at = @ + 1]]

\* Mutant: one attempt too many.
FourthAttempt(r) == r.attempt = 3

\* consolidateAlert makes three attempts; then the alert stays unlinked.
LastAttempt(r) == r.attempt = 2

\* AppendAlerts either links the alert or reports a conflict.
AttachToCase(q) ==
    LET r == req[q]
        links == {r.alert}
    IN  /\ r.pc = "attach"
        /\ r.id # None
        /\ CaseRoom(r.id)
        /\ \/ /\ CanAppend(r.id, links, r.expected)
              /\ AppendAlerts(r.id, links)
              /\ Done(q)
           \/ /\ ~CanAppend(r.id, links, r.expected)
              /\ req' = [req EXCEPT ![q] =
                             IF LastAttempt(r) THEN Idle ELSE Retrying(r)]
              /\ UNCHANGED cases
        /\ UNCHANGED <<alert, report, decisions, timeline>>

\* CreateCaseWithAlerts.  An initial status of open is an alias of new.
CreateCaseWithAlerts(c, customer, links, candidate) ==
    /\ cases[c].status = "absent"
    /\ ValidLinks(customer, "new", links)
    /\ cases' = [cases EXCEPT ![c] = [AbsentCase EXCEPT
                     !.status = "new", !.customer = customer, !.alert_ids = links,
                     !.str_candidate = candidate, !.updated_at = 1]]

AttachToNewCase(q) ==
    LET r == req[q] IN
    /\ r.pc = "attach"
    /\ r.id = None
    /\ \/ \E c \in Cases :
              CreateCaseWithAlerts(c, CustomerOf[r.alert], {r.alert}, FALSE)
       \/ ~ValidLinks(CustomerOf[r.alert], "new", {r.alert}) /\ UNCHANGED cases
    /\ Done(q)
    /\ UNCHANGED <<alert, report, decisions, timeline>>
\* The death freeze of customer k: one transaction raises the severity of every
\* alert the customer has, resolved or not, and consolidates each into an
\* unresolved case of the customer or a new one.  A link that is refused, as
\* that of a resolved alert no chosen case holds yet, fails them all.
EscalateOnDeath == \E k \in Customers :
    LET alerts == {a \in Alerts : CustomerOf[a] = k /\ alert[a].status # "absent"} IN
    \E raised \in SUBSET alerts, into \in [alerts -> Cases] :
        LET links(c) == {a \in alerts : into[a] = c} \ cases[c].alert_ids
            chosen == {into[a] : a \in alerts}
        IN  /\ \A c \in chosen :
                   /\ \/ cases[c].status = "absent"
                      \/ cases[c].customer = k /\ cases[c].status \in UnresolvedCase
                   /\ ValidLinks(k, "new", links(c))
                   /\ links(c) # {} => CaseRoom(c)
            /\ \A a \in raised : AlertRoom(a)
            /\ alert' = [a \in Alerts |->
                   IF a \in raised THEN [alert[a] EXCEPT !.updated_at = @ + 1] ELSE alert[a]]
            /\ cases' = [c \in Cases |->
                   IF c \notin chosen \/ links(c) = {} THEN cases[c]
                   ELSE [cases[c] EXCEPT
                            !.status = IF @ = "absent" THEN "new" ELSE @, !.customer = k,
                            !.alert_ids = @ \cup links(c), !.updated_at = @ + 1]]
            /\ UNCHANGED <<report, decisions, timeline, req>>
-----------------------------------------------------------------------------
(* Alerts.                                                                 *)

\* handleUpdateAlertStatus reads the alert and refuses an invalid transition.
GetAlert(q) == \E a \in Alerts, to \in AlertStatus :
    /\ req[q].pc = "idle"
    /\ ValidAlertStatusTransition(alert[a].status, to)
    /\ \E expected \in Expectations(q, alert[a].updated_at) :
           req' = [req EXCEPT ![q] = Deciding(a, to, expected)]
    /\ UNCHANGED <<alert, cases, report, decisions, timeline>>

\* Its transaction reads the alert again, for the decision's from_status.
GetAlertInTx(q) ==
    /\ req[q].pc = "alert_tx"
    /\ req' = [req EXCEPT ![q] = Decided(@, alert[req[q].alert].status)]
    /\ UNCHANGED <<alert, cases, report, decisions, timeline>>

\* Mutant: the version the client saw is not part of the WHERE clause.
UpdatesAlertAnyVersion(r) == SqlAlertTransition(alert[r.alert].status, r.to)

\* The row the UPDATE statement matches.
UpdatesAlert(r) ==
    /\ SqlAlertTransition(alert[r.alert].status, r.to)
    /\ r.expected \in {None, alert[r.alert].updated_at}

\* Mutant: the status changes and the decision is not recorded.
UpdateAlertStatusSilently(q) ==
    LET r == req[q]
        a == r.alert
    IN  /\ r.pc = "alert_write"
        /\ AlertRoom(a)
        /\ UpdatesAlert(r)
        /\ alert' = [alert EXCEPT ![a] = AlertWritten(@, r.to)]
        /\ Done(q)
        /\ UNCHANGED <<cases, report, decisions, timeline>>

\* The statement, the decision and the audit entry commit together.
UpdateAlertStatus(q) ==
    LET r == req[q]
        a == r.alert
    IN  /\ r.pc = "alert_write"
        /\ AlertRoom(a)
        /\ \/ /\ UpdatesAlert(r)
              /\ alert' = [alert EXCEPT ![a] = AlertWritten(@, r.to)]
              /\ decisions' = [decisions EXCEPT ![a] = Append(@, Decision(r.before, r.to))]
           \/ ~UpdatesAlert(r) /\ UNCHANGED <<alert, decisions>>
        /\ Done(q)
        /\ UNCHANGED <<cases, report, timeline>>

CloseFalsePositiveWithRationale(row) == AlertWritten(row, "closed_false_positive")

\* handleBulkCloseAlerts: every alert is read and closed under its version in
\* one transaction; open alerts are closed directly.
BulkCloseAlerts == \E matched \in SUBSET {a \in Alerts :
                                /\ alert[a].status \in UnresolvedAlert
                                /\ AlertRoom(a)} :
    /\ matched # {}
    /\ alert' = [a \in Alerts |-> IF a \in matched
                                  THEN CloseFalsePositiveWithRationale(alert[a])
                                  ELSE alert[a]]
    /\ decisions' = [a \in Alerts |->
           IF a \in matched
           THEN Append(decisions[a], Decision(alert[a].status, "closed_false_positive"))
           ELSE decisions[a]]
    /\ UNCHANGED <<cases, report, timeline, req>>

\* UpdateQueue, AnnotateBatchReviewed, EscalateSeverity: a new version of the
\* row, the status as it was.
TouchAlert == \E a \in Alerts :
    /\ alert[a].status # "absent"
    /\ AlertRoom(a)
    /\ alert' = [alert EXCEPT ![a] = [alert[a] EXCEPT !.updated_at = @ + 1]]
    /\ UNCHANGED <<cases, report, decisions, timeline, req>>
-----------------------------------------------------------------------------
(* Cases.                                                                  *)

\* handleCreateCase, the creating half of handleBulkCaseAssignment and the case
\* opened for a screening hit, which has no alerts.
CreateCase == \E c \in Cases, customer \in Customers, links \in SUBSET Alerts,
                 candidate \in BOOLEAN :
    /\ CreateCaseWithAlerts(c, customer, links, candidate)
    /\ UNCHANGED <<alert, report, decisions, timeline, req>>

\* handleBulkCaseAssignment reads the case and appends in one transaction.
BulkCaseAssignment == \E c \in Cases, links \in SUBSET Alerts \ {{}} :
    /\ CaseRoom(c)
    /\ CanAppend(c, links, cases[c].updated_at)
    /\ AppendAlerts(c, links)
    /\ UNCHANGED <<alert, report, decisions, timeline, req>>

\* handleAddRelatedCase links two active cases of a customer, the other one in
\* Cases or not; handleRemoveRelatedCase undoes an earlier write in any status.
\* Both are UpdateIfUnmodified of the row their transaction read.
RelateCase == \E c \in Cases :
    /\ cases[c].status \in UnresolvedCase \/ cases[c].updated_at > 1
    /\ CaseRoom(c)
    /\ cases' = [cases EXCEPT ![c] = [cases[c] EXCEPT !.updated_at = @ + 1]]
    /\ UNCHANGED <<alert, report, decisions, timeline, req>>

\* Mutant: a draft is enough to file the case.
FilesWithDraft(r, id, row) ==
    /\ report[r].status # "absent"
    /\ report[r].case_id = id
    /\ report[r].alert_id \in row.alert_ids

\* validateCaseSTRFiling: a submitted report on this case and one of its alerts.
FilesWith(r, id, row) ==
    /\ report[r].status = "submitted"
    /\ report[r].case_id = id
    /\ report[r].alert_id \in row.alert_ids

LinkedAlerts(links) == [a \in Alerts |-> IF a \in links THEN alert[a] ELSE AbsentAlert]

\* handleUpdateCase with a status: reads the case and the linked alerts, checks
\* the transition, the report and what becomes of the alerts.
GetCaseForStatus(q) == \E c \in Cases, to \in CaseStatus, candidate \in BOOLEAN,
                          r \in Reports \cup {None} :
    LET row == cases[c]
        linked == row.alert_ids
    IN  /\ req[q].pc = "idle"
        /\ ValidCaseStatusTransition(row.status, to)
        /\ IF to = "str_filed" THEN r # None /\ FilesWith(r, c, row) ELSE r = None
        /\ \A a \in linked : alert[a].status \in UnresolvedAlert \cup TerminalAlert
        /\ to = "closed" => \A a \in linked : alert[a].status \in TerminalAlert
        /\ \E expected \in Expectations(q, row.updated_at) :
               req' = [req EXCEPT ![q] =
                   Changing(c, row, to, LinkedAlerts(linked), r, candidate, expected)]
        /\ UNCHANGED <<alert, cases, report, decisions, timeline>>

\* handleUpdateCase without a status: assignment, priority, STR candidacy.
GetCaseForEdit(q) == \E c \in Cases, candidate \in BOOLEAN :
    /\ req[q].pc = "idle"
    /\ cases[c].status # "absent"
    /\ \E expected \in Expectations(q, cases[c].updated_at) :
           req' = [req EXCEPT ![q] =
               Changing(c, cases[c], None, LinkedAlerts({}), None, candidate, expected)]
    /\ UNCHANGED <<alert, cases, report, decisions, timeline>>

\* ensureEDDCase lists the customer's cases and raises the priority of the
\* unresolved one opened for EDD, without a version.
ReadCaseForEDD(j) == \E c \in Cases :
    /\ req[j].pc = "idle"
    /\ cases[c].edd
    /\ cases[c].status \in UnresolvedCase
    /\ req' = [req EXCEPT ![j] =
           Changing(c, cases[c], None, LinkedAlerts({}), None, cases[c].str_candidate, None)]
    /\ UNCHANGED <<alert, cases, report, decisions, timeline>>

\* Finding none, it opens one, with no alerts.
FindNoCaseForEDD(j) == \E customer \in Customers :
    /\ req[j].pc = "idle"
    /\ \A c \in Cases : ~ /\ cases[c].edd
                          /\ cases[c].customer = customer
                          /\ cases[c].status \in UnresolvedCase
    /\ req' = [req EXCEPT ![j] = [Idle EXCEPT !.pc = "edd_create", !.customer = customer]]
    /\ UNCHANGED <<alert, cases, report, decisions, timeline>>

CreateCaseForEDD(j) == \E c \in Cases :
    /\ req[j].pc = "edd_create"
    /\ cases[c].status = "absent"
    /\ cases' = [cases EXCEPT ![c] = [AbsentCase EXCEPT !.status = "new",
                     !.customer = req[j].customer, !.edd = TRUE, !.updated_at = 1]]
    /\ Done(j)
    /\ UNCHANGED <<alert, report, decisions, timeline>>

\* Mutant: the case is written whether or not the linked alerts have changed.
CommitsWithStaleAlerts(r) ==
    /\ cases[r.id].updated_at = r.row.updated_at
    /\ ValidCaseStatusTransition(cases[r.id].status, r.to)
    /\ cases[r.id].alert_ids = r.row.alert_ids
    /\ r.to = "str_filed" => FilesWith(r.report, r.id, r.row)

\* UpdateCaseAndAlerts, the case and every linked alert locked FOR UPDATE: the
\* version, the links and every alert are what the handler read.
Commits(r) ==
    /\ cases[r.id].updated_at = r.row.updated_at
    /\ ValidCaseStatusTransition(cases[r.id].status, r.to)
    /\ cases[r.id].alert_ids = r.row.alert_ids
    /\ r.to = "str_filed" => FilesWith(r.report, r.id, r.row)
    /\ \A a \in r.row.alert_ids :
           LET to == LinkedTarget(r.to, r.seen[a].status) IN
           /\ alert[a].updated_at = r.seen[a].updated_at
           /\ alert[a].status = r.seen[a].status
           /\ \/ r.seen[a].status = to
              \/ ValidAlertStatusTransition(r.seen[a].status, to)
              \/ /\ r.to = "str_filed"
                 /\ ValidAlertStatusTransitionForCaseFiling(r.seen[a].status, to)
           /\ CompatibleCaseAlertState(r.to, to)

MovesAlert(r, a) ==
    /\ a \in r.row.alert_ids
    /\ LinkedTarget(r.to, r.seen[a].status) # r.seen[a].status

UpdateCaseAndAlerts(q) ==
    LET r == req[q] IN
    /\ r.pc = "case_tx"
    /\ r.to # None
    /\ r.row.alert_ids # {}
    /\ CaseRoom(r.id)
    /\ \A a \in Alerts : MovesAlert(r, a) => AlertRoom(a)
    /\ \/ /\ Commits(r)
          /\ cases' = [cases EXCEPT ![r.id] = CaseWritten(@, r)]
          /\ alert' = [a \in Alerts |->
                 IF MovesAlert(r, a)
                 THEN AlertWritten(alert[a], LinkedTarget(r.to, r.seen[a].status))
                 ELSE alert[a]]
          /\ decisions' = [a \in Alerts |->
                 IF MovesAlert(r, a)
                 THEN Append(decisions[a], Decision(r.seen[a].status,
                                 LinkedTarget(r.to, r.seen[a].status)))
                 ELSE decisions[a]]
          /\ TimelineWritten(r)
       \/ ~Commits(r) /\ UNCHANGED <<alert, cases, decisions, timeline>>
    /\ Done(q)
    /\ UNCHANGED report

\* Neither a status change nor linked alerts: the plain update of the row.
PlainUpdate(r) == r.pc = "case_tx" /\ (r.to = None \/ r.row.alert_ids = {})

WrittenStatus(r) == IF r.to = None THEN r.row.status ELSE r.to

StatusAllowed(r) ==
    \/ cases[r.id].status = WrittenStatus(r)
    \/ ValidCaseStatusTransition(cases[r.id].status, WrittenStatus(r))

\* Mutant: the version the client saw is not compared.
UnmodifiedIgnored(r) == StatusAllowed(r)

Unmodified(r) == cases[r.id].updated_at = r.expected /\ StatusAllowed(r)

UpdateIfUnmodified(q) ==
    LET r == req[q] IN
    /\ PlainUpdate(r)
    /\ r.expected # None
    /\ CaseRoom(r.id)
    /\ \/ /\ Unmodified(r)
          /\ cases' = [cases EXCEPT ![r.id] = CaseWritten(@, r)]
          /\ TimelineWritten(r)
       \/ ~Unmodified(r) /\ UNCHANGED <<cases, timeline>>
    /\ Done(q)
    /\ UNCHANGED <<alert, report, decisions>>

\* PgCaseRepo.Update reads the current status without a lock ...
CheckCaseStatus(q) ==
    LET r == req[q] IN
    /\ PlainUpdate(r)
    /\ r.expected = None
    /\ req' = [req EXCEPT ![q] = IF StatusAllowed(r) THEN [r EXCEPT !.pc = "case_write"]
                                 ELSE Idle]
    /\ UNCHANGED <<alert, cases, report, decisions, timeline>>

\* Mutant: the closing time is not taken from the row that carries the status.
UpdateKeepingClosedAt(q) ==
    LET r == req[q] IN
    /\ r.pc = "case_write"
    /\ CaseRoom(r.id)
    /\ cases' = [cases EXCEPT ![r.id] = [CaseWritten(@, r) EXCEPT !.closed_at = cases[r.id].closed_at]]
    /\ TimelineWritten(r)
    /\ Done(q)
    /\ UNCHANGED <<alert, report, decisions>>

\* ... and then writes the whole row, whatever committed in between.
Update(q) ==
    LET r == req[q] IN
    /\ r.pc = "case_write"
    /\ CaseRoom(r.id)
    /\ cases' = [cases EXCEPT ![r.id] = CaseWritten(@, r)]
    /\ TimelineWritten(r)
    /\ Done(q)
    /\ UNCHANGED <<alert, report, decisions>>
-----------------------------------------------------------------------------
(* STR reports.                                                            *)

\* Mutant: a correction may name a report that was never submitted.
CorrectsAny(old, c, a) ==
    old # None => /\ report[old].status # "absent"
                  /\ report[old].case_id = c
                  /\ report[old].alert_id = a

\* handleCreateSTR: what a correction supersedes is a submitted report on the
\* same alert.
Corrects(old, c, a) ==
    old # None => /\ report[old].status = "submitted"
                  /\ report[old].case_id = c
                  /\ report[old].alert_id = a

\* findSTRCase and the checks before the transaction.  A request may name the
\* report it supersedes, the one it corrects, or both; one stands for the other,
\* and of two only the superseded one is looked at.
PrepareSTR(q) == \E c \in Cases, supersedes, corrects \in Reports \cup {None} :
    LET old == IF supersedes = None THEN corrects ELSE supersedes
        corrected == IF corrects = None THEN old ELSE corrects
    IN  /\ req[q].pc = "idle"
        /\ cases[c].status \in UnresolvedCase
        /\ cases[c].str_candidate
        /\ corrected # None => report[corrected].status # "absent"
        /\ \E a \in cases[c].alert_ids :
               /\ Corrects(old, c, a)
               /\ req' = [req EXCEPT ![q] = Reporting(c, a, old, corrected)]
        /\ UNCHANGED <<alert, cases, report, decisions, timeline>>

CreateSTR(q) == \E r \in Reports :
    /\ req[q].pc = "report_tx"
    /\ report[r].status = "absent"
    /\ report' = [report EXCEPT ![r] =
                      [status |-> "draft", case_id |-> req[q].id,
                       alert_id |-> req[q].alert, supersedes |-> req[q].supersedes,
                       corrects |-> req[q].corrects]]
    /\ Done(q)
    /\ UNCHANGED <<alert, cases, decisions, timeline>>

\* Submitting again with the same evidence changes nothing, with other evidence
\* it conflicts: only a draft changes.
SubmitSTR == \E r \in Reports :
    /\ report[r].status = "draft"
    /\ report' = [report EXCEPT ![r] = [@ EXCEPT !.status = "submitted"]]
    /\ UNCHANGED <<alert, cases, decisions, timeline, req>>
-----------------------------------------------------------------------------
\* A crash, a timeout or a lost connection: an open transaction rolls back.
Abandon(q) ==
    /\ req[q].pc # "idle"
    /\ Done(q)
    /\ UNCHANGED <<alert, cases, report, decisions, timeline>>

ClientStep(q) ==
    \/ CreateAlert(q) \/ SelectCase(q) \/ AttachToCase(q) \/ AttachToNewCase(q)
    \/ GetAlert(q) \/ GetAlertInTx(q) \/ UpdateAlertStatus(q)
    \/ GetCaseForStatus(q) \/ GetCaseForEdit(q)
    \/ UpdateCaseAndAlerts(q) \/ UpdateIfUnmodified(q)
    \/ PrepareSTR(q) \/ CreateSTR(q)

Next ==
    \/ \E q \in Clients : ClientStep(q)
    \/ \E j \in Jobs : ReadCaseForEDD(j) \/ FindNoCaseForEDD(j) \/ CreateCaseForEDD(j)
    \/ \E q \in Clients \cup Jobs : CheckCaseStatus(q) \/ Update(q) \/ Abandon(q)
    \/ BulkCloseAlerts \/ TouchAlert
    \/ EscalateOnDeath \/ CreateCase \/ BulkCaseAssignment \/ RelateCase
    \/ SubmitSTR

Spec == Init /\ [][Next]_vars
-----------------------------------------------------------------------------
(* Properties.                                                             *)

\* A case receives a link only while it is unresolved and the alert is too, and
\* never loses one: an alert selected for a case that is closed, filed or
\* changed before the link is stored is not linked to it (AppendAlerts,
\* CreateCaseWithAlerts).
LinksOnlyActiveWork ==
    [][\A c \in Cases :
           /\ cases[c].alert_ids \subseteq cases'[c].alert_ids
           /\ \A a \in cases'[c].alert_ids \ cases[c].alert_ids :
                  /\ cases'[c].status \in UnresolvedCase
                  /\ alert[a].status \in UnresolvedAlert]_vars

\* A case holds alerts of its own customer only (validatePgAlertLinks).
LinksOfOneCustomer ==
    \A c \in Cases : \A a \in cases[c].alert_ids : CustomerOf[a] = cases[c].customer

\* closed_at is set exactly on terminal cases: no update, however stale the row
\* it writes back, separates the two.
ClosedAtTerminal ==
    \A c \in Cases : cases[c].closed_at <=> cases[c].status \in TerminalCase

\* A terminal alert carries its disposition and an unresolved one carries none,
\* whichever of the operator's update, the bulk close, the reopening and the
\* filing of a case wrote it last.
DispositionMatches ==
    \A a \in Alerts :
        alert[a].disposition = IF alert[a].status \in TerminalAlert
                               THEN alert[a].status ELSE None

\* The decision history accounts for the status of every alert: the last
\* decision led to it, and an alert without decisions is as it was raised.
DecisionsExplainStatus ==
    \A a \in Alerts :
        IF decisions[a] = <<>>
        THEN alert[a].status \in {"absent", "open", "suppressed"}
        ELSE alert[a].status = decisions[a][Len(decisions[a])].to

\* Every decision starts from the status the one before it led to
\* (appendRequiredAlertDecision records the status read in the transaction).
DecisionsChain ==
    \A a \in Alerts : \A i \in 1..Len(decisions[a]) :
        decisions[a][i].from = IF i = 1 THEN "open" ELSE decisions[a][i - 1].to

\* The timeline accounts for the status of every case.
TimelineExplainsStatus ==
    \A c \in Cases :
        cases[c].status \in {"absent"} \cup
            {IF timeline[c] = <<>> THEN "new" ELSE timeline[c][Len(timeline[c])].after}

\* A case becomes terminal only in a step after which every linked alert is
\* (prepareCaseAlertTransitions: "A case may not become terminal while any linked
\* alert is still unresolved").
ClosesResolved ==
    [][\A c \in Cases :
           /\ cases[c].status \notin TerminalCase
           /\ cases'[c].status \in TerminalCase
           => \A a \in cases'[c].alert_ids : alert'[a].status \in TerminalAlert]_vars

\* A filed case stays filed, under the same report.
FiledForGood ==
    [][\A c \in Cases : cases[c].status = "str_filed" =>
           /\ cases'[c].status = "str_filed"
           /\ cases'[c].str_report_id = cases[c].str_report_id]_vars

\* A filed case names a submitted report on that case and on one of its alerts
\* (validateCaseSTRFiling).
FiledOnReport ==
    \A c \in Cases : cases[c].status = "str_filed" =>
        \E r \in Reports : /\ cases[c].str_report_id = r
                           /\ report[r].status = "submitted"
                           /\ report[r].case_id = c
                           /\ report[r].alert_id \in cases[c].alert_ids

\* A correction supersedes a submitted report about the same alert and case, and
\* no report supersedes itself (handleCreateSTR).
SupersedesSubmitted ==
    \A r \in Reports : report[r].supersedes # None =>
        LET old == report[r].supersedes IN
        /\ old # r
        /\ report[old].status = "submitted"
        /\ report[old].alert_id = report[r].alert_id
        /\ report[old].case_id = report[r].case_id

\* The rows agree with each other: whatever stale row is written back, links join
\* a case and alerts of one customer, closed_at and the disposition follow the
\* status, and the last decision led to it (PgCaseRepo.Update,
\* UpdateStatusWithRationale, CloseFalsePositiveWithRationale).
RowsAgree ==
    LinksOfOneCustomer /\ ClosedAtTerminal /\ DispositionMatches /\ DecisionsExplainStatus

\* The histories have no gap: decisions chain, and the timeline ends at the case's
\* status (appendRequiredAlertDecision, appendRequiredCaseChangeEvents).
HistoriesExplain == DecisionsChain /\ TimelineExplainsStatus

\* A filed case rests on its submitted report and stays filed on it
\* (validateCaseSTRFiling, ValidCaseStatusTransition).
FilingStands == []FiledOnReport /\ FiledForGood

\* The storage invariant of the domain package: "Terminal cases may reference
\* only terminal alerts."
CompatibleStates ==
    \A c \in Cases : \A a \in cases[c].alert_ids :
        CompatibleCaseAlertState(cases[c].status, alert[a].status)

\* For the instances: no customer has two alerts, and clients, reports and
\* alerts with their customers are alike.
AnAlertEach ==
    CHOOSE of \in [Alerts -> Customers] : \A a, b \in Alerts : of[a] = of[b] => a = b

AlikeAlerts ==
    {f \in {p @@ q : p \in Permutations(Alerts), q \in Permutations(Customers)} :
        \A a \in Alerts : CustomerOf[f[a]] = f[CustomerOf[a]]}

Symmetry == Permutations(Clients) \cup Permutations(Reports) \cup AlikeAlerts
=============================================================================
