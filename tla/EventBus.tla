------------------------------ MODULE EventBus ------------------------------
(***************************************************************************)
(* The transactional event outbox, the worker that publishes it and the    *)
(* pg_notify bus that wakes the subscriber of cdd.tier_changed in every    *)
(* process.                                                                *)
(*                                                                         *)
(* A notification carries the id and the sequence number of an event and   *)
(* not its payload.  The subscriber hands it to the handler, or, when its  *)
(* number skips one, waits and reads the outbox instead.  An event read    *)
(* from the outbox is whole, one from a notification is hollow.            *)
(***************************************************************************)
EXTENDS Naturals, Sequences, FiniteSets

CONSTANTS
    Events,       \* event ids
    TierChanges,  \* the ones of topic cdd.tier_changed
    Processes,    \* API and worker processes on one database
    BatchSize,    \* eventOutboxBatchSize
    Faults,       \* the faults that may happen
    MaxFaults,    \* bound on how many do
    None          \* no sequence number seen yet

FaultKinds == {"publish", "record", "mark", "requery", "connection", "restart"}

ASSUME BusAssumption ==
    /\ TierChanges \subseteq Events
    /\ IsFiniteSet(Events)
    /\ BatchSize \in Nat \ {0}
    /\ MaxFaults \in Nat
    /\ Faults \subseteq FaultKinds
    /\ None \notin Nat

VARIABLES
    outbox,   \* domain_event_outbox, and the transactions still writing it
    serial,   \* the sequence behind sequence_num
    worker,   \* the outbox worker of every process
    sent,     \* the events pg_notify was called for
    sub,      \* the subscription of every process
    handed,   \* the events every process's handler was called with
    whole,    \* those it was called with together with their payload
    disturbed, \* processes that lost a connection, a query or their memory
    faults    \* faults so far

vars == <<outbox, serial, worker, sent, sub, handed, whole, disturbed, faults>>

Row == [status : {"none", "open", "rolled_back", "pending", "published"},
        sequence_num : Nat, next_attempt_at : {"due", "later"}]

\* batch is what is left of the list the worker fetched; it publishes the first
\* event of it and then marks that one.
Worker == [batch : SUBSET Events, pc : {"publish", "mark"}]

IdleWorker == [batch |-> {}, pc |-> "publish"]

\* lastSeq is None until the first notification of the topic.
Subscription == [state : {"starting", "listening", "gap", "ended"},
                 lastSeq : Nat \cup {None}, channel : Seq(Nat)]

Listening == [state |-> "listening", lastSeq |-> None, channel |-> <<>>]

Starting == [state |-> "starting", lastSeq |-> None, channel |-> <<>>]

TypeOK ==
    /\ outbox \in [Events -> Row]
    /\ serial \in Nat
    /\ worker \in [Processes -> Worker]
    /\ sent \in SUBSET Events
    /\ sub \in [Processes -> Subscription]
    /\ handed \in [Processes -> SUBSET Events]
    /\ whole \in [Processes -> SUBSET Events]
    /\ disturbed \in SUBSET Processes
    /\ faults \in 0..MaxFaults

Init ==
    /\ outbox = [e \in Events |-> [status |-> "none", sequence_num |-> 0,
                                  next_attempt_at |-> "due"]]
    /\ serial = 0
    /\ worker = [p \in Processes |-> IdleWorker]
    /\ sent = {}
    /\ sub = [p \in Processes |-> Listening]
    /\ handed = [p \in Processes |-> {}]
    /\ whole = [p \in Processes |-> {}]
    /\ disturbed = {}
    /\ faults = 0

Fault(kind) ==
    /\ kind \in Faults
    /\ faults < MaxFaults
    /\ faults' = faults + 1

\* A fault that may cost process p notifications.
Disturbance(p, kind) == Fault(kind) /\ disturbed' = disturbed \cup {p}

Committed(e) == outbox[e].status \in {"pending", "published"}

Before(d, e) == outbox[d].sequence_num < outbox[e].sequence_num

First(e, S) == e \in S /\ \A d \in S \ {e} : Before(e, d)

Last(e, S) == e \in S /\ \A d \in S \ {e} : Before(d, e)
-----------------------------------------------------------------------------
(* The business transaction.                                               *)

\* Enqueue draws the number when the row is inserted; the transaction may still
\* commit or roll back, in any order with the others.
Enqueue(e) ==
    /\ outbox[e].status = "none"
    /\ serial' = serial + 1
    /\ outbox' = [outbox EXCEPT ![e] = [@ EXCEPT !.status = "open",
                                                 !.sequence_num = serial + 1]]
    /\ UNCHANGED <<worker, sent, sub, handed, whole, disturbed, faults>>

\* Mutant: the row is committed in a status the worker does not know.
CommitAsNew(e) ==
    /\ outbox[e].status = "open"
    /\ outbox' = [outbox EXCEPT ![e] = [@ EXCEPT !.status = "new"]]
    /\ UNCHANGED <<serial, worker, sent, sub, handed, whole, disturbed, faults>>

Commit(e) ==
    /\ outbox[e].status = "open"
    /\ outbox' = [outbox EXCEPT ![e] = [@ EXCEPT !.status = "pending"]]
    /\ UNCHANGED <<serial, worker, sent, sub, handed, whole, disturbed, faults>>

Rollback(e) ==
    /\ outbox[e].status = "open"
    /\ outbox' = [outbox EXCEPT ![e] = [@ EXCEPT !.status = "rolled_back"]]
    /\ UNCHANGED <<serial, worker, sent, sub, handed, whole, disturbed, faults>>
-----------------------------------------------------------------------------
(* RunEventOutboxWorker.                                                   *)

\* Mutant: a failed event is given up instead of waiting for its backoff.
ListPendingUntried(p) ==
    LET pending == {e \in Events : outbox[e].status = "pending" /\ e \notin sent}
    IN  /\ worker[p] = IdleWorker
        /\ pending # {}
        /\ worker' = [worker EXCEPT ![p] = [@ EXCEPT !.batch = pending]]
        /\ UNCHANGED <<outbox, serial, sent, sub, handed, whole, disturbed, faults>>

\* Nothing claims the rows: every process may list the same ones.
ListPending(p) ==
    LET pending == {e \in Events : /\ outbox[e].status = "pending"
                                   /\ outbox[e].next_attempt_at = "due"}
        listed == {e \in pending : Cardinality({d \in pending : Before(d, e)}) < BatchSize}
    IN  /\ worker[p] = IdleWorker
        /\ listed # {}
        /\ worker' = [worker EXCEPT ![p] = [@ EXCEPT !.batch = listed]]
        /\ UNCHANGED <<outbox, serial, sent, sub, handed, whole, disturbed, faults>>

\* pg_notify reaches every session that listens on the topic.
Publish(p) == \E e \in Events :
    /\ First(e, worker[p].batch)
    /\ worker[p].pc = "publish"
    /\ worker' = [worker EXCEPT ![p] = [@ EXCEPT !.pc = "mark"]]
    /\ sent' = sent \cup {e}
    /\ sub' = [l \in Processes |->
                   IF e \in TierChanges /\ sub[l].state \in {"listening", "gap"}
                   THEN [sub[l] EXCEPT !.channel = Append(sub[l].channel, outbox[e].sequence_num)]
                   ELSE sub[l]]
    /\ UNCHANGED <<outbox, serial, handed, whole, disturbed, faults>>

\* RecordFailure sets the backoff, unless it fails as well or another process
\* has published the event by now.
PublishFails(p) == \E e \in Events :
    /\ First(e, worker[p].batch)
    /\ worker[p].pc = "publish"
    /\ Fault("publish")
    /\ worker' = [worker EXCEPT ![p] = [@ EXCEPT !.batch = worker[p].batch \ {e}]]
    /\ \/ /\ outbox[e].status = "pending"
          /\ outbox' = [outbox EXCEPT ![e] = [@ EXCEPT !.next_attempt_at = "later"]]
       \/ /\ outbox[e].status = "published" \/ "record" \in Faults
          /\ UNCHANGED outbox
    /\ UNCHANGED <<serial, sent, sub, handed, whole, disturbed>>

\* Mutant: the row is marked although it was not sent yet.
MarkUnsent(p) == \E e \in Events :
    /\ First(e, worker[p].batch)
    /\ worker' = [worker EXCEPT ![p] = [@ EXCEPT !.batch = worker[p].batch \ {e}, !.pc = "publish"]]
    /\ outbox' = [outbox EXCEPT ![e] = [@ EXCEPT !.status = "published",
                                                 !.next_attempt_at = "due"]]
    /\ UNCHANGED <<serial, sent, sub, handed, whole, disturbed, faults>>

\* A worker that stops before this step, or fails in it, leaves the row pending.
MarkPublished(p) == \E e \in Events :
    /\ First(e, worker[p].batch)
    /\ worker[p].pc = "mark"
    /\ worker' = [worker EXCEPT ![p] = [@ EXCEPT !.batch = worker[p].batch \ {e}, !.pc = "publish"]]
    /\ \/ /\ outbox' = [outbox EXCEPT ![e] = [@ EXCEPT !.status = "published",
                                                 !.next_attempt_at = "due"]]
          /\ UNCHANGED faults
       \/ Fault("mark") /\ UNCHANGED outbox
    /\ UNCHANGED <<serial, sent, sub, handed, whole, disturbed>>

BackoffElapses(e) ==
    /\ outbox[e].next_attempt_at = "later"
    /\ outbox' = [outbox EXCEPT ![e] = [@ EXCEPT !.next_attempt_at = "due"]]
    /\ UNCHANGED <<serial, worker, sent, sub, handed, whole, disturbed, faults>>
-----------------------------------------------------------------------------
(* The pg_notify subscription.                                             *)

Skips(p, number) == sub[p].lastSeq # None /\ number > sub[p].lastSeq + 1

\* handleNotification waits when the number skips one, and otherwise calls the
\* handler with what the notification carries.
HandleNotification(p) ==
    LET number == Head(sub[p].channel)
        rest == [sub[p] EXCEPT !.channel = Tail(@)]
    IN  /\ sub[p].state = "listening"
        /\ sub[p].channel # <<>>
        /\ \/ /\ Skips(p, number)
              /\ sub' = [sub EXCEPT ![p] = [rest EXCEPT !.state = "gap"]]
              /\ UNCHANGED handed
           \/ /\ ~Skips(p, number)
              /\ sub' = [sub EXCEPT ![p] = [rest EXCEPT !.lastSeq = number]]
              /\ handed' = [handed EXCEPT ![p] =
                                @ \cup {e \in TierChanges : outbox[e].sequence_num = number}]
        /\ UNCHANGED <<outbox, serial, worker, sent, whole, disturbed, faults>>

\* Mutant: only rows already marked published are read back.
MissedPublished(p) ==
    {e \in TierChanges :
        /\ outbox[e].status = "published"
        /\ sub[p].lastSeq # None => outbox[e].sequence_num > sub[p].lastSeq}

\* ListAfter: the committed events of the topic past the last one handled,
\* published or not.
Missed(p) ==
    {e \in TierChanges :
        /\ Committed(e)
        /\ sub[p].lastSeq # None => outbox[e].sequence_num > sub[p].lastSeq}

\* catchUp calls the handler with every one of them and leaves the subscription
\* in the given state.
CatchUp(p, state, channel) == \E last \in {sub[p].lastSeq} \cup
                                   {outbox[e].sequence_num : e \in Missed(p)} :
    /\ \/ Missed(p) = {} /\ last = sub[p].lastSeq
       \/ \E e \in Events : Last(e, Missed(p)) /\ last = outbox[e].sequence_num
    /\ handed' = [handed EXCEPT ![p] = @ \cup Missed(p)]
    /\ whole' = [whole EXCEPT ![p] = @ \cup Missed(p)]
    /\ sub' = [sub EXCEPT ![p] = [state |-> state, lastSeq |-> last, channel |-> channel]]

\* The gap wait is over.  If the query fails, the notification is forgotten.
GapWaitOver(p) ==
    /\ sub[p].state = "gap"
    /\ \/ CatchUp(p, "listening", sub[p].channel) /\ UNCHANGED <<disturbed, faults>>
       \/ /\ Disturbance(p, "requery")
          /\ sub' = [sub EXCEPT ![p] = [@ EXCEPT !.state = "listening"]]
          /\ UNCHANGED <<handed, whole>>
    /\ UNCHANGED <<outbox, serial, worker, sent>>

\* WaitForNotification fails: the subscription catches up, if it can, and
\* returns the error, which main logs.
ConnectionLost(p) ==
    /\ sub[p].state = "listening"
    /\ Disturbance(p, "connection")
    /\ \/ CatchUp(p, "ended", <<>>)
       \/ /\ "requery" \in Faults
          /\ sub' = [sub EXCEPT ![p] = [Listening EXCEPT !.state = "ended"]]
          /\ UNCHANGED <<handed, whole>>
    /\ UNCHANGED <<outbox, serial, worker, sent>>

\* A process stops and starts again.  main starts the outbox worker first: what
\* it, or another process, sends before the LISTEN is not received.
Restart(p) ==
    /\ Disturbance(p, "restart")
    /\ worker' = [worker EXCEPT ![p] = IdleWorker]
    /\ sub' = [sub EXCEPT ![p] = Starting]
    /\ UNCHANGED <<outbox, serial, sent, handed, whole>>

\* Subscribe has executed LISTEN: what is sent from now on is received.
Listen(p) ==
    /\ sub[p].state = "starting"
    /\ sub' = [sub EXCEPT ![p] = Listening]
    /\ UNCHANGED <<outbox, serial, worker, sent, handed, whole, disturbed, faults>>
-----------------------------------------------------------------------------
OutboxStep(p) == ListPending(p) \/ Publish(p) \/ PublishFails(p) \/ MarkPublished(p)

SubscriberStep(p) == Listen(p) \/ HandleNotification(p) \/ GapWaitOver(p)

Next ==
    \/ \E e \in Events : Enqueue(e) \/ Commit(e) \/ Rollback(e) \/ BackoffElapses(e)
    \/ \E p \in Processes : \/ OutboxStep(p) \/ SubscriberStep(p)
                            \/ ConnectionLost(p) \/ Restart(p)

Spec == Init /\ [][Next]_vars

\* The worker runs on a ticker, a starting process gets to its LISTEN, backoffs
\* and gap waits end, and the driver delivers what a live session was notified of.
Fairness ==
    /\ \A e \in Events : WF_vars(BackoffElapses(e))
    /\ \A p \in Processes : WF_vars(OutboxStep(p)) /\ WF_vars(SubscriberStep(p))

FairSpec == Spec /\ Fairness
-----------------------------------------------------------------------------
(* Properties.                                                             *)

\* A row is marked published only after its notification was sent: whichever
\* process stops, fails or repeats its work, no committed event is dropped from
\* the outbox unsent.
PublishedWasSent == \A e \in Events : outbox[e].status = "published" => e \in sent

\* The outbox is emptied: every committed event is published in the end, through
\* failures, backoffs and restarts (RunEventOutboxWorker).
EveryEventPublished ==
    \A e \in Events : outbox[e].status = "pending" ~> outbox[e].status = "published"

\* Every committed tier change is handed to the handler of every process in the
\* end, whole or hollow, unless the process was disturbed: numbers that were
\* rolled back, committed late or used by another topic lose nothing
\* (handleNotification, catchUp).
EveryTierChangeHanded ==
    \A e \in TierChanges, p \in Processes :
        outbox[e].status = "pending" ~> (e \in handed[p] \/ p \in disturbed)

\* The handler is given the payload it reads the customer and the tiers from.
HandedWhole == \A p \in Processes : handed[p] \subseteq whole[p]
=============================================================================
