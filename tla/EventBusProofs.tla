--------------------------- MODULE EventBusProofs ---------------------------
(***************************************************************************)
(* The outbox loses no event, for any number of events, processes and      *)
(* faults: a row marked published was sent.  The worker marks the first    *)
(* event of its batch, so the invariant says that while it is marking,     *)
(* that event is the one it sent; rows in a batch are committed, and the   *)
(* number of a committed row never changes.                                *)
(***************************************************************************)
EXTENDS EventBus, TLAPS

\* The worker's rows are committed, and the one it is about to mark was sent.
MarkingSent ==
    \A p \in Processes :
        /\ \A e \in worker[p].batch : Committed(e)
        /\ worker[p].pc = "mark" =>
               \A e \in Events : First(e, worker[p].batch) => e \in sent

IInv == TypeOK /\ PublishedWasSent /\ MarkingSent

\* The step writes neither the outbox nor the workers, nor what was sent.
LEMMA SubscribersApart ==
    ASSUME IInv, UNCHANGED <<outbox, worker, sent>>
    PROVE  PublishedWasSent' /\ MarkingSent'
  BY DEF IInv, PublishedWasSent, MarkingSent, Committed, First, Before

LEMMA InitInv == Init => IInv
  BY BusAssumption DEF Init, IInv, TypeOK, Row, Worker, IdleWorker, Subscription,
     Listening, PublishedWasSent, MarkingSent, Committed, First

\* A row that keeps its number and, once committed, stays committed.
RowStep(e) ==
    /\ Committed(e) => Committed(e)'
    /\ Committed(e) => outbox'[e].sequence_num = outbox[e].sequence_num

\* Steps on one row that leave the workers and what was sent alone.
LEMMA RowApart ==
    ASSUME IInv, UNCHANGED <<worker, sent>>,
           \A e \in Events : RowStep(e),
           \A e \in Events : outbox'[e].status = "published" => outbox[e].status = "published"
    PROVE  PublishedWasSent' /\ MarkingSent'
<1>1. PublishedWasSent'
  BY DEF IInv, PublishedWasSent
<1>2. ASSUME NEW p \in Processes, NEW e \in worker[p].batch
      PROVE  e \in Events /\ Committed(e)' /\ outbox'[e].sequence_num = outbox[e].sequence_num
  BY <1>2 DEF IInv, TypeOK, Worker, MarkingSent, RowStep
<1>3. MarkingSent'
  BY <1>2 DEF IInv, MarkingSent, First, Before
<1> QED
  BY <1>1, <1>3

\* Facts every leaf needs, stated without the function sets of TypeOK.
LEMMA Typed ==
    ASSUME TypeOK
    PROVE  /\ \A e \in Events : outbox[e] \in Row
           /\ \A p \in Processes : worker[p] \in Worker
           /\ \A p \in Processes : sub[p] \in Subscription
  BY DEF TypeOK

\* A fault is counted within its bound.
LEMMA FaultTyped ==
    ASSUME TypeOK, NEW kind, Fault(kind)
    PROVE  faults' \in 0..MaxFaults
  BY BusAssumption DEF TypeOK, Fault

LEMMA DisturbedTyped ==
    ASSUME TypeOK, NEW p \in Processes, NEW kind, Disturbance(p, kind)
    PROVE  disturbed' \in SUBSET Processes /\ faults' \in 0..MaxFaults
  BY FaultTyped DEF Disturbance, TypeOK

\* The records the actions write are well typed.
LEMMA RowUpdates ==
    ASSUME NEW r \in Row
    PROVE  /\ \A n \in Nat : [r EXCEPT !.status = "open", !.sequence_num = n] \in Row
           /\ [r EXCEPT !.status = "pending"] \in Row
           /\ [r EXCEPT !.status = "rolled_back"] \in Row
           /\ [r EXCEPT !.status = "published", !.next_attempt_at = "due"] \in Row
           /\ \A b \in {"due", "later"} : [r EXCEPT !.next_attempt_at = b] \in Row
  BY DEF Row

LEMMA WorkerUpdates ==
    ASSUME NEW w \in Worker, NEW e
    PROVE  /\ [w EXCEPT !.batch = w.batch \ {e}] \in Worker
           /\ [w EXCEPT !.batch = w.batch \ {e}, !.pc = "publish"] \in Worker
           /\ [w EXCEPT !.batch = w.batch \ {e}].batch = w.batch \ {e}
           /\ [w EXCEPT !.batch = w.batch \ {e}].pc = w.pc
           /\ [w EXCEPT !.batch = w.batch \ {e}, !.pc = "publish"].batch = w.batch \ {e}
           /\ [w EXCEPT !.batch = w.batch \ {e}, !.pc = "publish"].pc = "publish"
  BY DEF Worker

\* A well-typed row, or worker, written into its table.
LEMMA RowWritten ==
    ASSUME TypeOK, NEW e \in Events, NEW new \in Row, outbox' = [outbox EXCEPT ![e] = new]
    PROVE  /\ outbox' \in [Events -> Row]
           /\ outbox'[e] = new
           /\ \A d \in Events \ {e} : outbox'[d] = outbox[d]
  BY DEF TypeOK

LEMMA WorkerWritten ==
    ASSUME TypeOK, NEW p \in Processes, NEW new \in Worker, worker' = [worker EXCEPT ![p] = new]
    PROVE  /\ worker' \in [Processes -> Worker]
           /\ worker'[p] = new
           /\ \A q \in Processes \ {p} : worker'[q] = worker[q]
  BY DEF TypeOK

\* What the last step of a worker on an event writes, failed or not.
LEMMA WorkerMovesOn ==
    ASSUME TypeOK, NEW p \in Processes, PublishFails(p) \/ MarkPublished(p)
    PROVE  \E e \in Events, row \in Row, new \in Worker :
               /\ First(e, worker[p].batch)
               /\ outbox' = [outbox EXCEPT ![e] = row]
               /\ row.sequence_num = outbox[e].sequence_num
               /\ \/ row.status = outbox[e].status
                  \/ row.status = "published" /\ worker[p].pc = "mark"
               /\ worker' = [worker EXCEPT ![p] = new]
               /\ new.batch = worker[p].batch \ {e}
               /\ new.pc = "publish"
               /\ faults' \in 0..MaxFaults
               /\ UNCHANGED <<serial, sent, sub, handed, whole, disturbed>>
<1>1. CASE PublishFails(p)
  <2>1. PICK e \in Events :
            /\ First(e, worker[p].batch)
            /\ worker[p].pc = "publish"
            /\ Fault("publish")
            /\ worker' = [worker EXCEPT ![p] = [@ EXCEPT !.batch = worker[p].batch \ {e}]]
            /\ \/ outbox' = [outbox EXCEPT ![e] = [@ EXCEPT !.next_attempt_at = "later"]]
               \/ UNCHANGED outbox
            /\ UNCHANGED <<serial, sent, sub, handed, whole, disturbed>>
    BY <1>1 DEF PublishFails
  <2> DEFINE later == [outbox[e] EXCEPT !.next_attempt_at = "later"]
             new == [worker[p] EXCEPT !.batch = worker[p].batch \ {e}]
  <2>2. outbox[e] \in Row /\ worker[p] \in Worker
    BY Typed
  <2>3. /\ later \in Row
        /\ later.sequence_num = outbox[e].sequence_num
        /\ later.status = outbox[e].status
    BY <2>2, RowUpdates DEF Row
  <2>4. new \in Worker /\ new.batch = worker[p].batch \ {e} /\ new.pc = "publish"
    BY <2>1, <2>2, WorkerUpdates
  <2>5. worker' = [worker EXCEPT ![p] = new]
    BY <2>1
  <2>6. \/ outbox' = [outbox EXCEPT ![e] = later]
        \/ outbox' = [outbox EXCEPT ![e] = outbox[e]]
    BY <2>1 DEF TypeOK
  <2>7. faults' \in 0..MaxFaults
    BY <2>1, FaultTyped
  <2> HIDE DEF later, new
  <2> QED
    BY <2>1, <2>2, <2>3, <2>4, <2>5, <2>6, <2>7
<1>2. CASE MarkPublished(p)
  <2>1. PICK e \in Events :
            /\ First(e, worker[p].batch)
            /\ worker[p].pc = "mark"
            /\ worker' = [worker EXCEPT ![p] = [@ EXCEPT !.batch = worker[p].batch \ {e},
                                                         !.pc = "publish"]]
            /\ \/ /\ outbox' = [outbox EXCEPT ![e] = [@ EXCEPT !.status = "published",
                                                              !.next_attempt_at = "due"]]
                  /\ UNCHANGED faults
               \/ Fault("mark") /\ UNCHANGED outbox
            /\ UNCHANGED <<serial, sent, sub, handed, whole, disturbed>>
    BY <1>2 DEF MarkPublished
  <2> DEFINE marked == [outbox[e] EXCEPT !.status = "published", !.next_attempt_at = "due"]
             new == [worker[p] EXCEPT !.batch = worker[p].batch \ {e}, !.pc = "publish"]
  <2>2. outbox[e] \in Row /\ worker[p] \in Worker
    BY Typed
  <2>3. /\ marked \in Row
        /\ marked.sequence_num = outbox[e].sequence_num
        /\ marked.status = "published"
    BY <2>2, RowUpdates DEF Row
  <2>4. new \in Worker /\ new.batch = worker[p].batch \ {e} /\ new.pc = "publish"
    BY <2>2, WorkerUpdates
  <2>5. worker' = [worker EXCEPT ![p] = new]
    BY <2>1
  <2>6. \/ outbox' = [outbox EXCEPT ![e] = marked]
        \/ outbox' = [outbox EXCEPT ![e] = outbox[e]]
    BY <2>1 DEF TypeOK
  <2>7. faults' \in 0..MaxFaults
    BY <2>1, FaultTyped DEF TypeOK
  <2> HIDE DEF marked, new
  <2> QED
    BY <2>1, <2>2, <2>3, <2>4, <2>5, <2>6, <2>7
<1> QED
  BY <1>1, <1>2

LEMMA TypeOutbox ==
    ASSUME TypeOK,
           NEW e \in Events, Enqueue(e) \/ Commit(e) \/ Rollback(e) \/ BackoffElapses(e)
    PROVE  TypeOK'
<1>1. outbox[e] \in Row /\ serial \in Nat
  BY Typed DEF TypeOK
<1>2. /\ [outbox[e] EXCEPT !.status = "open", !.sequence_num = serial + 1] \in Row
      /\ [outbox[e] EXCEPT !.status = "pending"] \in Row
      /\ [outbox[e] EXCEPT !.status = "rolled_back"] \in Row
      /\ [outbox[e] EXCEPT !.next_attempt_at = "due"] \in Row
  <2>1. serial + 1 \in Nat
    BY <1>1
  <2> QED
    BY <1>1, <2>1, RowUpdates, Zenon
<1>3. outbox' \in [Events -> Row]
  BY <1>2 DEF TypeOK, Enqueue, Commit, Rollback, BackoffElapses
<1>4. serial' \in Nat
  BY <1>1 DEF Enqueue, Commit, Rollback, BackoffElapses
<1> QED
  BY <1>3, <1>4 DEF TypeOK, Enqueue, Commit, Rollback, BackoffElapses

LEMMA TypeWorker ==
    ASSUME TypeOK, NEW p \in Processes, OutboxStep(p)
    PROVE  TypeOK'
<1>1. CASE ListPending(p)
  BY <1>1, Typed DEF TypeOK, Worker, ListPending
<1>2. CASE Publish(p)
  <2>1. PICK e \in Events : /\ worker' = [worker EXCEPT ![p] = [@ EXCEPT !.pc = "mark"]]
                            /\ sent' = sent \cup {e}
                            /\ sub' = [l \in Processes |->
                                   IF e \in TierChanges /\ sub[l].state \in {"listening", "gap"}
                                   THEN [sub[l] EXCEPT !.channel =
                                             Append(sub[l].channel, outbox[e].sequence_num)]
                                   ELSE sub[l]]
                            /\ UNCHANGED <<outbox, serial, handed, whole, disturbed, faults>>
    BY <1>2 DEF Publish
  <2>2. ASSUME NEW l \in Processes
        PROVE  sub'[l] \in Subscription
    <3>1. sub[l] \in Subscription /\ outbox[e].sequence_num \in Nat
      BY Typed DEF Row
    <3>2. Append(sub[l].channel, outbox[e].sequence_num) \in Seq(Nat)
      BY <3>1 DEF Subscription
    <3>3. [sub[l] EXCEPT !.channel = Append(sub[l].channel, outbox[e].sequence_num)] \in Subscription
      BY <3>1, <3>2 DEF Subscription
    <3> QED
      BY <2>1, <3>1, <3>3
  <2>3. sub' \in [Processes -> Subscription]
    BY <2>1, <2>2
  <2>4. worker' \in [Processes -> Worker]
    BY <2>1, Typed DEF TypeOK, Worker
  <2> QED
    BY <2>1, <2>3, <2>4 DEF TypeOK
<1>3. CASE PublishFails(p) \/ MarkPublished(p)
  BY <1>3, WorkerMovesOn, RowWritten, WorkerWritten DEF TypeOK
<1> QED
  BY <1>1, <1>2, <1>3 DEF OutboxStep

\* catchUp moves the cursor to a number of the outbox or leaves it.
LEMMA TypeCatchUp ==
    ASSUME TypeOK, NEW p \in Processes, NEW state \in {"listening", "gap", "ended"},
           NEW channel \in Seq(Nat), CatchUp(p, state, channel)
    PROVE  /\ handed' \in [Processes -> SUBSET Events]
           /\ whole' \in [Processes -> SUBSET Events]
           /\ sub' \in [Processes -> Subscription]
<1>1. Missed(p) \subseteq Events
  BY BusAssumption DEF Missed
<1>2. PICK last \in {sub[p].lastSeq} \cup {outbox[e].sequence_num : e \in Missed(p)} :
          /\ handed' = [handed EXCEPT ![p] = @ \cup Missed(p)]
          /\ whole' = [whole EXCEPT ![p] = @ \cup Missed(p)]
          /\ sub' = [sub EXCEPT ![p] = [state |-> state, lastSeq |-> last, channel |-> channel]]
  BY DEF CatchUp
<1>3. last \in Nat \cup {None}
  BY <1>1, <1>2, Typed DEF Subscription, Row
<1>4. [state |-> state, lastSeq |-> last, channel |-> channel] \in Subscription
  BY <1>3 DEF Subscription
<1> QED
  BY <1>1, <1>2, <1>4 DEF TypeOK

LEMMA TypeSubscriber ==
    ASSUME TypeOK, NEW p \in Processes,
           SubscriberStep(p) \/ ConnectionLost(p) \/ Restart(p)
    PROVE  TypeOK'
<1>1. CASE HandleNotification(p)
  <2>1. sub[p] \in Subscription
    BY Typed
  <2>2. /\ Head(sub[p].channel) \in Nat
        /\ Tail(sub[p].channel) \in Seq(Nat)
    BY <1>1, <2>1 DEF HandleNotification, Subscription
  <2>3. /\ [[sub[p] EXCEPT !.channel = Tail(@)] EXCEPT !.state = "gap"] \in Subscription
        /\ [[sub[p] EXCEPT !.channel = Tail(@)] EXCEPT !.lastSeq = Head(sub[p].channel)]
               \in Subscription
    BY <2>1, <2>2 DEF Subscription
  <2>4. sub' \in [Processes -> Subscription]
    BY <1>1, <2>3 DEF HandleNotification, TypeOK
  <2>5. handed' \in [Processes -> SUBSET Events]
    BY <1>1, BusAssumption DEF HandleNotification, TypeOK
  <2> QED
    BY <1>1, <2>4, <2>5 DEF HandleNotification, TypeOK
<1>2. CASE GapWaitOver(p)
  <2>1. sub[p] \in Subscription /\ sub[p].channel \in Seq(Nat)
    BY Typed DEF Subscription
  <2>2. CASE CatchUp(p, "listening", sub[p].channel) /\ UNCHANGED <<disturbed, faults>>
    BY <1>2, <2>1, <2>2, TypeCatchUp DEF GapWaitOver, TypeOK
  <2>3. CASE /\ Disturbance(p, "requery")
             /\ sub' = [sub EXCEPT ![p] = [@ EXCEPT !.state = "listening"]]
             /\ UNCHANGED <<handed, whole>>
    <3>1. [sub[p] EXCEPT !.state = "listening"] \in Subscription
      BY <2>1 DEF Subscription
    <3> QED
      BY <1>2, <2>3, <3>1, DisturbedTyped DEF GapWaitOver, TypeOK
  <2> QED
    BY <1>2, <2>2, <2>3 DEF GapWaitOver
<1>3. CASE ConnectionLost(p)
  <2>1. <<>> \in Seq(Nat)
    OBVIOUS
  <2>2. [Listening EXCEPT !.state = "ended"] \in Subscription
    BY <2>1 DEF Listening, Subscription
  <2>3. CASE CatchUp(p, "ended", <<>>)
    BY <1>3, <2>1, <2>3, TypeCatchUp, DisturbedTyped DEF ConnectionLost, TypeOK
  <2>4. CASE /\ sub' = [sub EXCEPT ![p] = [Listening EXCEPT !.state = "ended"]]
             /\ UNCHANGED <<handed, whole>>
    BY <1>3, <2>2, <2>4, DisturbedTyped DEF ConnectionLost, TypeOK
  <2> QED
    BY <1>3, <2>3, <2>4 DEF ConnectionLost
<1>4. CASE Restart(p)
  BY <1>4, DisturbedTyped DEF Restart, TypeOK, Worker, IdleWorker, Subscription, Starting
<1>5. CASE Listen(p)
  BY <1>5 DEF Listen, TypeOK, Subscription, Listening
<1> QED
  BY <1>1, <1>2, <1>3, <1>4, <1>5 DEF SubscriberStep

LEMMA InvOutbox ==
    ASSUME IInv,
           NEW d \in Events, Enqueue(d) \/ Commit(d) \/ Rollback(d) \/ BackoffElapses(d)
    PROVE  PublishedWasSent' /\ MarkingSent'
<1>1. UNCHANGED <<worker, sent>>
  BY DEF Enqueue, Commit, Rollback, BackoffElapses
<1>2. \A e \in Events : RowStep(e)
  BY DEF IInv, TypeOK, Row, RowStep, Committed, Enqueue, Commit, Rollback, BackoffElapses
<1>3. \A e \in Events : outbox'[e].status = "published" => outbox[e].status = "published"
  BY DEF IInv, TypeOK, Row, Enqueue, Commit, Rollback, BackoffElapses
<1> QED
  BY <1>1, <1>2, <1>3, RowApart

\* What the worker does to the rows: numbers stay, committed rows stay committed.
LEMMA WorkerRows ==
    ASSUME IInv, NEW p \in Processes, OutboxStep(p)
    PROVE  \A e \in Events : RowStep(e)
<1>1. CASE PublishFails(p) \/ MarkPublished(p)
  <2>1. PICK d \in Events, row \in Row :
            /\ outbox' = [outbox EXCEPT ![d] = row]
            /\ row.sequence_num = outbox[d].sequence_num
            /\ row.status \in {outbox[d].status, "published"}
    BY <1>1, WorkerMovesOn DEF IInv
  <2>2. outbox'[d] = row /\ \A e \in Events \ {d} : outbox'[e] = outbox[e]
    BY <2>1, RowWritten DEF IInv
  <2> QED
    BY <2>1, <2>2 DEF RowStep, Committed
<1>2. CASE ListPending(p) \/ Publish(p)
  BY <1>2 DEF ListPending, Publish, RowStep, Committed
<1> QED
  BY <1>1, <1>2 DEF OutboxStep

LEMMA InvWorker ==
    ASSUME IInv, NEW p \in Processes, OutboxStep(p)
    PROVE  PublishedWasSent' /\ MarkingSent'
<1>1. \A e \in Events : RowStep(e)
  BY WorkerRows
<1>2. sent \subseteq sent'
  BY DEF OutboxStep, ListPending, Publish, PublishFails, MarkPublished
<1>3. \A q \in Processes : worker[q] \in Worker /\ worker[q].batch \subseteq Events
  BY Typed DEF IInv, Worker
<1>4. \A q \in Processes : \A e \in worker[q].batch :
          /\ Committed(e)'
          /\ outbox'[e].sequence_num = outbox[e].sequence_num
  BY <1>1, <1>3 DEF IInv, MarkingSent, RowStep
<1>5. ASSUME NEW q \in Processes, worker'[q] = worker[q]
      PROVE  /\ \A e \in worker'[q].batch : Committed(e)'
             /\ worker'[q].pc = "mark" =>
                    \A e \in Events : First(e, worker[q].batch)' => e \in sent'
  BY <1>2, <1>3, <1>4, <1>5 DEF IInv, MarkingSent, First, Before
<1>6. CASE ListPending(p)
  <2>1. PublishedWasSent'
    BY <1>6 DEF ListPending, IInv, PublishedWasSent
  <2>2. /\ worker'[p].batch \subseteq {e \in Events : outbox[e].status = "pending"}
        /\ worker'[p].pc = worker[p].pc
        /\ worker[p].batch = {}
        /\ \A q \in Processes \ {p} : worker'[q] = worker[q]
    BY <1>6, <1>3 DEF ListPending, IdleWorker, IInv, TypeOK, Worker
  <2>3. worker[p].pc = "publish"
    BY <1>6 DEF ListPending, IdleWorker
  <2>4. \A e \in worker'[p].batch : Committed(e)'
    BY <2>2, <1>6 DEF ListPending, Committed
  <2> QED
    BY <2>1, <2>2, <2>3, <2>4, <1>5 DEF MarkingSent
<1>7. CASE Publish(p)
  <2>1. PICK e \in Events : /\ First(e, worker[p].batch)
                            /\ sent' = sent \cup {e}
                            /\ worker' = [worker EXCEPT ![p] = [@ EXCEPT !.pc = "mark"]]
                            /\ UNCHANGED outbox
    BY <1>7 DEF Publish
  <2>2. PublishedWasSent'
    BY <2>1 DEF IInv, PublishedWasSent
  <2>3. /\ worker'[p].batch = worker[p].batch
        /\ \A q \in Processes \ {p} : worker'[q] = worker[q]
    BY <2>1, <1>3 DEF IInv, TypeOK, Worker
  <2>4. \A d \in Events : First(d, worker[p].batch) => d = e
    BY <2>1, Typed DEF First, Before, IInv, Row
  <2>5. \A d \in Events : First(d, worker[p].batch)' => d \in sent'
    BY <2>1, <2>3, <2>4 DEF First, Before
  <2> QED
    BY <2>2, <2>3, <2>5, <1>4, <1>5 DEF MarkingSent
<1>8. CASE PublishFails(p) \/ MarkPublished(p)
  <2>1. PICK e \in Events, row \in Row, new \in Worker :
            /\ First(e, worker[p].batch)
            /\ outbox' = [outbox EXCEPT ![e] = row]
            /\ \/ row.status = outbox[e].status
               \/ row.status = "published" /\ worker[p].pc = "mark"
            /\ worker' = [worker EXCEPT ![p] = new]
            /\ new.batch = worker[p].batch \ {e}
            /\ new.pc = "publish"
            /\ sent' = sent
    BY <1>8, WorkerMovesOn DEF IInv
  <2>2. /\ worker'[p] = new
        /\ \A q \in Processes \ {p} : worker'[q] = worker[q]
    BY <2>1, WorkerWritten DEF IInv
  <2>3. worker[p].pc = "mark" => e \in sent
    BY <2>1 DEF IInv, MarkingSent
  <2>4. outbox'[e] = row /\ \A d \in Events \ {e} : outbox'[d] = outbox[d]
    BY <2>1, RowWritten DEF IInv
  <2>5. PublishedWasSent'
    BY <2>1, <2>3, <2>4 DEF IInv, PublishedWasSent
  <2> QED
    BY <2>1, <2>2, <2>5, <1>3, <1>4, <1>5 DEF MarkingSent
<1> QED
  BY <1>6, <1>7, <1>8 DEF OutboxStep

LEMMA InvSubscriber ==
    ASSUME IInv, NEW p \in Processes,
           SubscriberStep(p) \/ ConnectionLost(p) \/ Restart(p)
    PROVE  PublishedWasSent' /\ MarkingSent'
<1>1. CASE SubscriberStep(p) \/ ConnectionLost(p)
  BY <1>1, SubscribersApart
     DEF SubscriberStep, Listen, HandleNotification, GapWaitOver, ConnectionLost
<1>2. CASE Restart(p)
  <2>1. UNCHANGED <<outbox, sent>> /\ worker' = [worker EXCEPT ![p] = IdleWorker]
    BY <1>2 DEF Restart
  <2>2. /\ worker'[p] = IdleWorker
        /\ \A q \in Processes \ {p} : worker'[q] = worker[q]
    BY <2>1 DEF IInv, TypeOK
  <2> QED
    BY <2>1, <2>2 DEF IInv, PublishedWasSent, MarkingSent, IdleWorker, Committed, First, Before
<1> QED
  BY <1>1, <1>2

LEMMA Inductive == IInv /\ [Next]_vars => IInv'
<1> SUFFICES ASSUME IInv, [Next]_vars
             PROVE  IInv'
  OBVIOUS
<1>1. TypeOK
  BY DEF IInv
<1>2. CASE \E e \in Events : Enqueue(e) \/ Commit(e) \/ Rollback(e) \/ BackoffElapses(e)
  BY <1>1, <1>2, TypeOutbox, InvOutbox DEF IInv
<1>3. CASE \E p \in Processes : OutboxStep(p)
  BY <1>1, <1>3, TypeWorker, InvWorker DEF IInv
<1>4. CASE \E p \in Processes : SubscriberStep(p) \/ ConnectionLost(p) \/ Restart(p)
  BY <1>1, <1>4, TypeSubscriber, InvSubscriber DEF IInv
<1>5. CASE UNCHANGED vars
  <2>1. TypeOK'
    BY <1>1, <1>5 DEF TypeOK, vars
  <2> QED
    BY <1>5, <2>1, SubscribersApart DEF IInv, vars
<1> QED
  BY <1>2, <1>3, <1>4, <1>5 DEF Next

\* The invariant holds in every reachable state.
LEMMA Invariance == Spec => []IInv
  BY InitInv, Inductive, PTL DEF Spec

\* Every reachable state of the outbox, its workers and the subscriptions is
\* well typed, and no more faults are counted than were allowed.
THEOREM TypeCorrect == Spec => []TypeOK
<1>1. IInv => TypeOK
  BY DEF IInv
<1> QED
  BY <1>1, Invariance, PTL

\* The outbox loses nothing: for any number of events and processes, whatever
\* fails or restarts, a row marked published (MarkPublished) was sent by some
\* process before (Publish).
THEOREM NothingDroppedUnsent == Spec => []PublishedWasSent
<1>1. IInv => PublishedWasSent
  BY DEF IInv
<1> QED
  BY <1>1, Invariance, PTL
=============================================================================
