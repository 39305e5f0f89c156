---------------------------- MODULE EventPipeline ----------------------------
(***************************************************************************)
(* The way of an event from the outbox to the fee it causes: the publisher *)
(* (internal/scheduler/outbox.go, messaging/kafka.go), the topic, and the  *)
(* consumer (messaging/consumer.go).                                       *)
(*                                                                         *)
(* Cron starts a publisher run every ten seconds whether or not the last   *)
(* one has ended.  The consumer is one goroutine; the Kafka client stores  *)
(* the offset of a message when it hands it out, and commits stored        *)
(* offsets in the background.  LedgerService.Post is one step with three   *)
(* outcomes here: module Ledger shows that journals are booked whole.      *)
(*                                                                         *)
(* Events are known by their number in the order of created_at, the start  *)
(* of the transaction that inserts the row.  Rows become visible in any    *)
(* order: transactions that started one after the other may commit the     *)
(* other way round.  The query of a run locks rows one by one, in order,   *)
(* and skips those another run's query holds; its locks go with it.        *)
(***************************************************************************)
EXTENDS Integers, Sequences, FiniteSets

CONSTANTS
  NumEvents,   \* number of events
  Keys,        \* aggregates, each with its part of the topic
  KeyOf,       \* the aggregate of each event
  Charging,    \* events of type TransactionStatusChangedEvent
  Runs,        \* publisher runs that may be under way at once
  BatchLimit,  \* LIMIT of the query
  NoEvent,     \* no message in hand
  MaxFaults    \* bound on failing statements, failing publishes and crashes

Events == 1..NumEvents

ASSUME NumAssumption == NumEvents \in Nat
ASSUME KeyAssumption == KeyOf \in [Events -> Keys]
ASSUME ChargingAssumption == Charging \subseteq Events
ASSUME NoEventAssumption == NoEvent \notin Events
ASSUME LimitAssumption == BatchLimit \in Nat \ {0}
ASSUME BoundAssumption == MaxFaults \in Nat

VARIABLES
  emitted,   \* events in the outbox
  published, \* events whose row says PUBLISHED; the others are PENDING
  phase,     \* what each run is doing: see Phases
  seen,      \* rows of its snapshot the query of a run has yet to come to
  todo,      \* events each run has read and not done with
  log,       \* the messages of each key
  position,  \* messages of each key handed to the consumer
  committed, \* the committed offset of each key
  job,       \* the message in hand and how far the consumer has come with it
  processed, \* rows of processing_ledger
  charged,   \* number of journals booked for each event
  overtakable, \* history: events that newer ones may overtake, see KeyOrderKept
  abandoned, \* history: events charged by a delivery that was not recorded
  dropped,   \* history: events with a delivery given up or lost with the process
  faults     \* failing statements, failing publishes and crashes so far

outboxVars == <<emitted, published>>
publisherVars == <<phase, seen, todo, log>>
consumerVars == <<position, committed, job, processed, charged, abandoned, dropped>>
vars == <<outboxVars, publisherVars, overtakable, consumerVars, faults>>

NoJob == [stage |-> "none", event |-> NoEvent]

Jobs == {NoJob} \cup [stage : {"record", "charge", "commit"}, event : Events]

(* No run, a query under way, its rows found and nothing sent yet, events   *)
(* left to publish, the oldest one delivered and its row to be marked.      *)
Phases == {"idle", "query", "found", "publish", "sent"}

TypeOK ==
  /\ emitted \subseteq Events /\ published \subseteq emitted
  /\ phase \in [Runs -> Phases]
  /\ seen \in [Runs -> SUBSET Events] /\ todo \in [Runs -> SUBSET Events]
  /\ log \in [Keys -> Seq(Events)]
  /\ position \in [Keys -> Nat] /\ committed \in [Keys -> Nat]
  /\ \A k \in Keys : committed[k] <= position[k] /\ position[k] <= Len(log[k])
  /\ job \in Jobs /\ processed \subseteq Events /\ charged \in [Events -> Nat]
  /\ overtakable \subseteq Events
  /\ abandoned \subseteq Events /\ dropped \subseteq Events
  /\ faults \in Nat

Init ==
  /\ emitted = {} /\ published = {} /\ overtakable = {}
  /\ phase = [r \in Runs |-> "idle"]
  /\ seen = [r \in Runs |-> {}] /\ todo = [r \in Runs |-> {}]
  /\ log = [k \in Keys |-> <<>>]
  /\ position = [k \in Keys |-> 0] /\ committed = [k \in Keys |-> 0]
  /\ job = NoJob /\ processed = {} /\ charged = [e \in Events |-> 0]
  /\ abandoned = {} /\ dropped = {}
  /\ faults = 0

Fault == faults < MaxFaults /\ faults' = faults + 1

-----------------------------------------------------------------------------
(* The outbox: a row is inserted with the update it tells of, and appears   *)
(* when their transaction commits.                                          *)

Newer(e, S) == {f \in S : f > e /\ KeyOf[f] = KeyOf[e]}

Emit(e) ==
  /\ e \notin emitted /\ emitted' = emitted \cup {e}
  /\ overtakable' = IF Newer(e, emitted) = {} THEN overtakable ELSE overtakable \cup {e}
  /\ UNCHANGED <<published, publisherVars, consumerVars, faults>>

Pending == emitted \ published

-----------------------------------------------------------------------------
(* The query of a run: a snapshot of the PENDING rows, then one row after   *)
(* the other, oldest first, locked and read again.                          *)

IsOldest(e, S) == e \in S /\ \A f \in S : e <= f

SinceMark == {e \in Pending : \A f \in published : e > f}

(* A slip that the runs must catch: rows are found by their time, those     *)
(* newer than all that are published.                                       *)
PubQueryFromMark(r) ==
  /\ phase[r] = "idle" /\ SinceMark # {}
  /\ phase' = [phase EXCEPT ![r] = "query"]
  /\ seen' = [seen EXCEPT ![r] = SinceMark]
  /\ UNCHANGED <<outboxVars, todo, log, overtakable, consumerVars, faults>>

PubQuery(r) ==
  /\ phase[r] = "idle" /\ Pending # {}
  /\ phase' = [phase EXCEPT ![r] = "query"]
  /\ seen' = [seen EXCEPT ![r] = Pending]
  /\ UNCHANGED <<outboxVars, todo, log, overtakable, consumerVars, faults>>

(* A slip that the runs must catch: ORDER BY created_at DESC. *)
IsNewest(r, e) == e \in todo[r] /\ \A f \in todo[r] : e >= f

(* The event a run has come to in the loop over what it found. *)
IsNext(r, e) == IsOldest(e, todo[r])

(* A query holds its rows to its end, which comes before the first publish. *)
Holds(s, e) == phase[s] = "query" /\ e \in todo[s]

MayHold(s, e) == phase[s] \in {"query", "found"} /\ e \in todo[s]

BeingMarked(s, e) == phase[s] = "sent" /\ IsNext(s, e)

(* The row is locked by another query, or is being marked or was marked     *)
(* since the snapshot, or this query gets it.                               *)
Lock(r, e) ==
  \/ /\ \E s \in Runs : MayHold(s, e)
     /\ overtakable' = overtakable \cup {e} /\ UNCHANGED todo
  \/ /\ e \in published \/ \E s \in Runs : BeingMarked(s, e)
     /\ UNCHANGED <<todo, overtakable>>
  \/ /\ e \notin published /\ ~\E s \in Runs : Holds(s, e)
     /\ todo' = [todo EXCEPT ![r] = @ \cup {e}] /\ UNCHANGED overtakable

EndQuery(r, found) ==
  phase' = [phase EXCEPT ![r] = IF found = {} THEN "idle" ELSE "found"]

PubScan(r) ==
  \E e \in seen[r] :
    /\ phase[r] = "query" /\ IsOldest(e, seen[r]) /\ Lock(r, e)
    /\ LET left == IF Cardinality(todo'[r]) < BatchLimit THEN seen[r] \ {e} ELSE {}
       IN /\ seen' = [seen EXCEPT ![r] = left]
          /\ IF left = {} THEN EndQuery(r, todo'[r]) ELSE UNCHANGED phase
    /\ UNCHANGED <<outboxVars, log, consumerVars, faults>>

(* An error ends the query; the loop over its rows does not notice.         *)
PubScanFails(r) ==
  /\ phase[r] = "query" /\ Fault
  /\ seen' = [seen EXCEPT ![r] = {}] /\ EndQuery(r, todo[r])
  /\ UNCHANGED <<outboxVars, todo, log, overtakable, consumerVars>>

FindPendingOutboxEvents(r) == PubQuery(r) \/ PubScan(r) \/ PubScanFails(r)

-----------------------------------------------------------------------------
(* The publisher. *)

Deliver(e) == log' = [log EXCEPT ![KeyOf[e]] = Append(@, e)]

(* A slip that the runs must catch: the error is logged, and the event      *)
(* marked all the same.                                                     *)
PubSendErrorIgnored(r) ==
  \E e \in todo[r] :
    /\ phase[r] \in {"found", "publish"} /\ IsNext(r, e)
    /\ (Deliver(e) /\ UNCHANGED faults) \/ (Fault /\ UNCHANGED log)
    /\ phase' = [phase EXCEPT ![r] = "sent"]
    /\ UNCHANGED <<outboxVars, seen, todo, overtakable, consumerVars>>

(* What a publish reported failed has done: its message may have arrived.   *)
Arrivals(e) == Deliver(e) \/ UNCHANGED log

(* The run is done with its oldest event. *)
GoOn(r, e) ==
  /\ todo' = [todo EXCEPT ![r] = @ \ {e}]
  /\ phase' = [phase EXCEPT ![r] = IF todo[r] = {e} THEN "idle" ELSE "publish"]

(* After a failure the loop goes on to the next event. *)
PubSend(r) ==
  \E e \in todo[r] :
    /\ phase[r] \in {"found", "publish"} /\ IsNext(r, e)
    /\ \/ /\ Deliver(e) /\ UNCHANGED faults
          /\ phase' = [phase EXCEPT ![r] = "sent"] /\ UNCHANGED <<todo, overtakable>>
       \/ /\ Fault /\ Arrivals(e) /\ GoOn(r, e)
          /\ overtakable' = overtakable \cup {e}
    /\ UNCHANGED <<outboxVars, seen, consumerVars>>

UpdateOutboxStatus(e) == published' = published \cup {e}

PubMark(r) ==
  \E e \in todo[r] :
    /\ phase[r] = "sent" /\ IsNext(r, e)
    /\ \/ UpdateOutboxStatus(e) /\ UNCHANGED faults
       \/ Fault /\ UNCHANGED published
    /\ GoOn(r, e)
    /\ UNCHANGED <<emitted, seen, log, overtakable, consumerVars>>

PubRun(r) == FindPendingOutboxEvents(r) \/ PubSend(r) \/ PubMark(r)

-----------------------------------------------------------------------------
(* The consumer. *)

InHand(step) == job.stage = step

Read(k) ==
  /\ job = NoJob /\ position[k] < Len(log[k])
  /\ position' = [position EXCEPT ![k] = @ + 1]
  /\ job' = [stage |-> "record", event |-> log[k][position[k] + 1]]
  /\ UNCHANGED <<outboxVars, publisherVars, overtakable, committed, processed, charged, abandoned,
                 dropped, faults>>

(* A slip that the runs must catch: the offset after the next message. *)
AutoCommitNext ==
  /\ committed # position /\ committed' = [k \in Keys |-> position[k] + 1]
  /\ UNCHANGED <<outboxVars, publisherVars, overtakable, position, job, processed, charged, abandoned,
                 dropped, faults>>

AutoCommit ==
  /\ committed # position /\ committed' = position
  /\ UNCHANGED <<outboxVars, publisherVars, overtakable, position, job, processed, charged, abandoned,
                 dropped, faults>>

GiveUp == job' = NoJob /\ dropped' = dropped \cup {job.event}

(* A slip that the runs must catch: zero affected rows are not noticed. *)
RecordUnchecked ==
  /\ InHand("record")
  /\ job' = [job EXCEPT !.stage = IF job.event \in Charging THEN "charge" ELSE "commit"]
  /\ UNCHANGED <<outboxVars, publisherVars, overtakable, position, committed, processed, charged,
                 abandoned, dropped, faults>>

(* Begin the transaction and insert the row; a row that is there already    *)
(* ends the matter.                                                         *)
Record ==
  /\ InHand("record")
  /\ \/ /\ job.event \in processed
        /\ job' = NoJob /\ UNCHANGED <<dropped, faults>>
     \/ /\ job.event \notin processed
        /\ job' = [job EXCEPT !.stage = IF job.event \in Charging THEN "charge" ELSE "commit"]
        /\ UNCHANGED <<dropped, faults>>
     \/ Fault /\ GiveUp
  /\ UNCHANGED <<outboxVars, publisherVars, overtakable, position, committed, processed, charged,
                 abandoned>>

Book(e) == charged' = [charged EXCEPT ![e] = @ + 1]

(* ledger.Post, in a database transaction of its own: booked, not booked,   *)
(* or booked and reported failed.                                           *)
Charge ==
  /\ InHand("charge")
  /\ \/ /\ Book(job.event) /\ job' = [job EXCEPT !.stage = "commit"]
        /\ UNCHANGED <<abandoned, dropped, faults>>
     \/ Fault /\ GiveUp /\ UNCHANGED <<charged, abandoned>>
     \/ /\ Fault /\ GiveUp /\ Book(job.event)
        /\ abandoned' = abandoned \cup {job.event}
  /\ UNCHANGED <<outboxVars, publisherVars, overtakable, position, committed, processed>>

(* A slip that the runs must catch: only the deferred rollback is run. *)
CommitForgotten ==
  /\ InHand("commit") /\ job' = NoJob
  /\ UNCHANGED <<outboxVars, publisherVars, overtakable, position, committed, processed, charged,
                 abandoned, dropped, faults>>

CommitRecord ==
  /\ InHand("commit")
  /\ \/ /\ processed' = processed \cup {job.event} /\ job' = NoJob
        /\ UNCHANGED <<abandoned, dropped, faults>>
     \/ /\ Fault /\ GiveUp /\ UNCHANGED processed
        /\ abandoned' = abandoned \cup {job.event}
  /\ UNCHANGED <<outboxVars, publisherVars, overtakable, position, committed, charged>>

Consume == (\E k \in Keys : Read(k)) \/ Record \/ Charge \/ CommitRecord

-----------------------------------------------------------------------------

(* The process dies.  Runs and the open transaction are gone; the consumer  *)
(* goes on from the committed offsets, so that the message in hand is lost  *)
(* if its offset was committed already.                                     *)
Crash ==
  /\ Fault
  /\ phase' = [r \in Runs |-> "idle"]
  /\ seen' = [r \in Runs |-> {}] /\ todo' = [r \in Runs |-> {}]
  /\ position' = committed /\ job' = NoJob
  /\ abandoned' = IF InHand("commit") THEN abandoned \cup {job.event} ELSE abandoned
  /\ dropped' = IF job # NoJob /\ committed[KeyOf[job.event]] = position[KeyOf[job.event]]
                THEN dropped \cup {job.event} ELSE dropped
  /\ UNCHANGED <<outboxVars, log, overtakable, committed, processed, charged>>

Next ==
  \/ \E e \in Events : Emit(e)
  \/ \E r \in Runs : PubRun(r)
  \/ Consume \/ AutoCommit \/ Crash

Spec == Init /\ [][Next]_vars

(* Cron goes on starting runs, runs and the consumer go on once started. *)
Fairness == (\A r \in Runs : WF_vars(PubRun(r))) /\ WF_vars(Consume)

FairSpec == Spec /\ Fairness

-----------------------------------------------------------------------------

InLog(e) == \E i \in DOMAIN log[KeyOf[e]] : log[KeyOf[e]][i] = e

(* No event is marked as published that Kafka does not hold, whatever fails *)
(* or dies in between and however runs overlap.                             *)
PublishedIsInLog == \A e \in published : InLog(e)

(* The consumer first sees the events of one aggregate in the order of      *)
(* created_at, with runs that overlap anywhere between their queries, rows  *)
(* marked in between, queries cut short, crashes and repeated messages.     *)
(* Newer events overtake only one that a publish reported failed, a row     *)
(* that appeared after theirs, or a row a query left to another query.      *)
KeyOrderKept ==
  \A k \in Keys : \A j \in DOMAIN log[k] : \A e \in emitted \ overtakable :
    KeyOf[e] = k /\ e < log[k][j] => \E i \in 1..(j - 1) : log[k][i] = e

(* An event in the processing ledger has been charged once, however often   *)
(* it was delivered, if every delivery that charged it was recorded.        *)
ChargedWithRecord ==
  \A e \in Events \ abandoned :
    charged[e] <= 1 /\ (e \in processed /\ e \in Charging => charged[e] = 1)

(* Every message the consumer has gone past is in its hands, was processed, *)
(* or was given up: offsets committed in the background and a restart from  *)
(* them pass over nothing else.                                             *)
PassedIsHandled ==
  \A k \in Keys : \A i \in 1..position[k] :
    log[k][i] \in processed \cup dropped \/ (job # NoJob /\ job.event = log[k][i])

(* A fee is charged once too often only by a fault, and by each fault once, *)
(* however many copies of the event overlapping runs put in the topic.      *)
FeesBoundedByFaults == \A e \in Events : charged[e] <= 1 + faults

(* kafka.go:57, "CRITICAL: Ensures ordering per transaction": the events of *)
(* an aggregate first arrive in the order of created_at.                    *)
OrderPerKey ==
  \A k \in Keys : \A j \in DOMAIN log[k] : \A e \in emitted :
    KeyOf[e] = k /\ e < log[k][j] => \E i \in 1..(j - 1) : log[k][i] = e

(* consumer.go:114, "it will never execute the business logic twice". *)
ChargedAtMostOnce == \A e \in Events : charged[e] <= 1

(* The outbox is drained again and again: every event is published and      *)
(* marked, whatever fails or dies on the way.                               *)
EventuallyPublished == []<>(Pending = {})

(* Again and again every event of the outbox is in the processing ledger or *)
(* had a delivery that was given up, after an error or by a crash.          *)
EventuallyProcessed == []<>(emitted \subseteq processed \cup dropped)

-----------------------------------------------------------------------------

Delivery ==
  INSTANCE OrderedDelivery WITH topic <- log, lost <- dropped

(* Publisher, topic and consumer together keep the order of each aggregate, *)
(* from the outbox to the processing ledger: they implement OrderedDelivery. *)
ImplementsDelivery == Delivery!DeliverySpec

=============================================================================
