----------------------------- MODULE EventProofs -----------------------------
(***************************************************************************)
(* Proofs about EventPipeline for any number of events, aggregates,        *)
(* publisher runs and faults, and any limit of the query.                  *)
(*                                                                         *)
(* The publisher's half of the invariant says what a run has in hand is    *)
(* still good for: of whatever is older than an event it has found, or has *)
(* yet to come to, and of the same aggregate, the run has that too, or it  *)
(* has arrived, or may be overtaken; and a query finds older rows first,   *)
(* so that its limit, or an error, cuts off newer ones only.  The          *)
(* consumer's half says where the one charge of an event is recorded: in   *)
(* the processing ledger, or in the open transaction of the message in     *)
(* hand.  From both, and from how far the consumer has come, follows that  *)
(* EventPipeline implements OrderedDelivery.                               *)
(***************************************************************************)
EXTENDS EventPipeline, TLAPS

(* A run, and the topic, know events of the outbox only. *)
KnownEvents ==
  /\ \A r \in Runs : todo[r] \subseteq emitted /\ seen[r] \subseteq emitted
  /\ \A k \in Keys : \A j \in DOMAIN log[k] : log[k][j] \in emitted /\ KeyOf[log[k][j]] = k

(* A run has nothing in hand between its queries, no rows to come to but in *)
(* a query, and finds older rows first.                                     *)
ScanInv ==
  \A r \in Runs :
    /\ phase[r] = "idle" => todo[r] = {}
    /\ phase[r] # "query" => seen[r] = {}
    /\ \A e \in todo[r] : \A f \in seen[r] : e < f

SentHasArrived ==
  \A r \in Runs : phase[r] = "sent" => \E e \in todo[r] : IsNext(r, e) /\ InLog(e)

InRun(r) == todo[r] \cup seen[r]

NoneSkipped ==
  \A r \in Runs : \A f \in InRun(r) : \A e \in emitted \ overtakable :
    e < f /\ KeyOf[e] = KeyOf[f] => e \in InRun(r) \/ InLog(e)

JobFits ==
  /\ InHand("charge") => job.event \in Charging
  /\ InHand("charge") \/ InHand("commit") => job.event \notin processed

IsRecorded(e) == e \in processed \/ (InHand("commit") /\ job.event = e)

ChargeIsRecorded ==
  \A e \in Events \ abandoned :
    charged[e] = IF e \in Charging /\ IsRecorded(e) THEN 1 ELSE 0

PublisherInv ==
  /\ PublishedIsInLog /\ KeyOrderKept /\ KnownEvents
  /\ ScanInv /\ SentHasArrived /\ NoneSkipped

IInv == TypeOK /\ PublisherInv /\ JobFits /\ ChargeIsRecorded

-----------------------------------------------------------------------------

LEMMA InitIInv == Init => IInv
<1> SUFFICES ASSUME Init PROVE IInv
  OBVIOUS
<1> USE DEF Init
<1>1. TypeOK
  BY DEF TypeOK, Jobs, Phases
<1>2. PublisherInv
  BY DEF PublisherInv, PublishedIsInLog, KeyOrderKept, KnownEvents, ScanInv, SentHasArrived,
         NoneSkipped, InRun
<1>3. JobFits /\ ChargeIsRecorded
  BY DEF JobFits, ChargeIsRecorded, IsRecorded, InHand, NoJob
<1> QED
  BY <1>1, <1>2, <1>3 DEF IInv

-----------------------------------------------------------------------------
(* Steps that leave the topic and the outbox alone. *)

PublisherUnchanged ==
  UNCHANGED <<emitted, published, phase, seen, todo, log, overtakable>>

LEMMA PublisherKept ==
  ASSUME PublisherInv, PublisherUnchanged
  PROVE  PublisherInv'
BY DEF PublisherInv, PublisherUnchanged, PublishedIsInLog, KeyOrderKept, KnownEvents,
       ScanInv, SentHasArrived, NoneSkipped, InRun, InLog, IsNext, IsOldest

ConsumerUnchanged == UNCHANGED <<job, processed, charged, abandoned>>

LEMMA ConsumerKept ==
  ASSUME JobFits, ChargeIsRecorded, ConsumerUnchanged
  PROVE  JobFits' /\ ChargeIsRecorded'
BY DEF JobFits, ChargeIsRecorded, IsRecorded, InHand, ConsumerUnchanged

-----------------------------------------------------------------------------
(* The publisher. *)

LEMMA EmitStep == ASSUME IInv, NEW x \in Events, Emit(x) PROVE IInv'
<1>1. /\ x \notin emitted /\ emitted' = emitted \cup {x}
      /\ overtakable' = IF Newer(x, emitted) = {} THEN overtakable ELSE overtakable \cup {x}
      /\ UNCHANGED <<published, phase, seen, todo, log, consumerVars, faults>>
  BY DEF Emit, publisherVars
<1>2. TypeOK'
  BY <1>1 DEF IInv, TypeOK, consumerVars
<1>3. KnownEvents'
  BY <1>1 DEF IInv, PublisherInv, KnownEvents
<1>4. PublishedIsInLog' /\ ScanInv' /\ SentHasArrived'
  BY <1>1 DEF IInv, PublisherInv, PublishedIsInLog, ScanInv, SentHasArrived, InLog, IsNext, IsOldest
<1>5. ASSUME NEW e \in emitted' \ overtakable', NEW f \in emitted, KeyOf[e] = KeyOf[f], e < f
      PROVE  e \in emitted \ overtakable
  <2>1. f \in Nat /\ e \in Nat
    BY <1>1 DEF IInv, TypeOK, Events
  <2> QED
    BY <1>1, <1>5, <2>1 DEF Newer
<1>6. KeyOrderKept'
  <2> SUFFICES ASSUME NEW k \in Keys, NEW j \in DOMAIN log[k], NEW e \in emitted' \ overtakable',
                      KeyOf[e] = k, e < log[k][j]
               PROVE  \E i \in 1..(j - 1) : log[k][i] = e
    BY <1>1 DEF KeyOrderKept
  <2>1. log[k][j] \in emitted /\ KeyOf[log[k][j]] = k
    BY DEF IInv, PublisherInv, KnownEvents
  <2>2. e \in emitted \ overtakable
    BY <1>5, <2>1
  <2> QED
    BY <2>2 DEF IInv, PublisherInv, KeyOrderKept
<1>7. NoneSkipped'
  <2> SUFFICES ASSUME NEW r \in Runs, NEW f \in InRun(r), NEW e \in emitted' \ overtakable',
                      e < f, KeyOf[e] = KeyOf[f]
               PROVE  e \in InRun(r) \/ InLog(e)
    BY <1>1 DEF NoneSkipped, InRun, InLog
  <2>1. f \in emitted
    BY DEF IInv, PublisherInv, KnownEvents, InRun
  <2>2. e \in emitted \ overtakable
    BY <1>5, <2>1
  <2> QED
    BY <2>2 DEF IInv, PublisherInv, NoneSkipped
<1>8. ConsumerUnchanged
  BY <1>1 DEF ConsumerUnchanged, consumerVars
<1> QED
  BY <1>2, <1>3, <1>4, <1>6, <1>7, <1>8, ConsumerKept DEF IInv, PublisherInv

(* Steps of a query leave the rows and the topic alone, and what is older   *)
(* than a row the run has left and no longer in its hands has arrived.      *)
LEMMA QueryKeeps ==
  ASSUME IInv, NEW r \in Runs,
         UNCHANGED <<emitted, published, log, consumerVars>>, faults' \in Nat,
         overtakable' \subseteq Events, overtakable \subseteq overtakable',
         phase' \in [Runs -> Phases], phase'[r] # "sent",
         seen' \in [Runs -> SUBSET emitted], todo' \in [Runs -> SUBSET emitted],
         \A s \in Runs \ {r} : phase'[s] = phase[s] /\ seen'[s] = seen[s] /\ todo'[s] = todo[s],
         ScanInv',
         \A f \in InRun(r)' : \A e \in emitted \ overtakable' :
           e < f /\ KeyOf[e] = KeyOf[f] => e \in InRun(r)' \/ InLog(e)
  PROVE  IInv'
<1>1. TypeOK'
  BY DEF IInv, TypeOK, consumerVars
<1>2. KnownEvents'
  BY DEF IInv, PublisherInv, KnownEvents
<1>3. PublishedIsInLog' /\ KeyOrderKept'
  BY DEF IInv, PublisherInv, PublishedIsInLog, KeyOrderKept, InLog
<1>4. SentHasArrived'
  <2> SUFFICES ASSUME NEW s \in Runs, phase'[s] = "sent"
               PROVE  \E e \in todo'[s] : IsNext(s, e)' /\ InLog(e)'
    BY DEF SentHasArrived
  <2>1. s # r /\ phase[s] = "sent" /\ todo'[s] = todo[s]
    OBVIOUS
  <2> QED
    BY <2>1 DEF IInv, PublisherInv, SentHasArrived, IsNext, IsOldest, InLog
<1>5. NoneSkipped'
  <2> SUFFICES ASSUME NEW s \in Runs, NEW f \in InRun(s)', NEW e \in emitted \ overtakable',
                      e < f, KeyOf[e] = KeyOf[f]
               PROVE  e \in InRun(s)' \/ InLog(e)
    BY DEF NoneSkipped, InLog
  <2>1. CASE s = r
    BY <2>1
  <2>2. CASE s # r
    BY <2>2 DEF IInv, PublisherInv, NoneSkipped, InRun
  <2> QED
    BY <2>1, <2>2
<1>6. ConsumerUnchanged
  BY DEF ConsumerUnchanged, consumerVars
<1> QED
  BY <1>1, <1>2, <1>3, <1>4, <1>5, <1>6, ConsumerKept DEF IInv, PublisherInv

LEMMA QueryStep == ASSUME IInv, NEW r \in Runs, PubQuery(r) PROVE IInv'
<1>1. /\ phase[r] = "idle" /\ phase' = [phase EXCEPT ![r] = "query"]
      /\ seen' = [seen EXCEPT ![r] = Pending]
      /\ UNCHANGED <<emitted, published, todo, log, overtakable, consumerVars, faults>>
  BY DEF PubQuery, outboxVars
<1>2. /\ phase \in [Runs -> Phases] /\ seen \in [Runs -> SUBSET Events]
      /\ todo \in [Runs -> SUBSET Events] /\ faults \in Nat /\ overtakable \subseteq Events
      /\ \A s \in Runs : todo[s] \subseteq emitted /\ seen[s] \subseteq emitted
      /\ todo[r] = {} /\ Pending \subseteq emitted
  BY <1>1 DEF IInv, TypeOK, PublisherInv, KnownEvents, ScanInv, Pending
<1>3. /\ phase' \in [Runs -> Phases] /\ phase'[r] = "query"
      /\ seen' \in [Runs -> SUBSET emitted] /\ todo' \in [Runs -> SUBSET emitted]
      /\ seen'[r] = Pending /\ todo'[r] = {}
      /\ \A s \in Runs \ {r} : phase'[s] = phase[s] /\ seen'[s] = seen[s] /\ todo'[s] = todo[s]
  BY <1>1, <1>2 DEF Phases
<1>4. ScanInv'
  BY <1>3 DEF IInv, PublisherInv, ScanInv
<1>5. ASSUME NEW f \in InRun(r)', NEW e \in emitted \ overtakable'
      PROVE  e \in InRun(r)' \/ InLog(e)
  BY <1>3 DEF InRun, Pending, IInv, PublisherInv, PublishedIsInLog
<1> QED
  BY <1>1, <1>2, <1>3, <1>4, <1>5, QueryKeeps

(* A row the query leaves, other than to another query, has arrived. *)
LEMMA LeftHasArrived ==
  ASSUME IInv, NEW e \in emitted,
         e \in published \/ \E s \in Runs : BeingMarked(s, e)
  PROVE  InLog(e)
<1>1. CASE e \in published
  BY <1>1 DEF IInv, PublisherInv, PublishedIsInLog
<1>2. ASSUME NEW s \in Runs, BeingMarked(s, e) PROVE InLog(e)
  <2>1. PICK f \in todo[s] : IsNext(s, f) /\ InLog(f)
    BY <1>2 DEF BeingMarked, IInv, PublisherInv, SentHasArrived
  <2>2. f \in Nat /\ e \in Nat
    BY <2>1 DEF IInv, TypeOK, Events
  <2>3. f = e
    BY <1>2, <2>1, <2>2 DEF BeingMarked, IsNext, IsOldest
  <2> QED
    BY <2>1, <2>3
<1> QED
  BY <1>1, <1>2

LEMMA ScanStep == ASSUME IInv, NEW r \in Runs, PubScan(r) PROVE IInv'
<1>1. PICK x \in seen[r] :
        /\ phase[r] = "query" /\ IsOldest(x, seen[r]) /\ Lock(r, x)
        /\ LET left == IF Cardinality(todo'[r]) < BatchLimit THEN seen[r] \ {x} ELSE {}
           IN /\ seen' = [seen EXCEPT ![r] = left]
              /\ IF left = {} THEN EndQuery(r, todo'[r]) ELSE UNCHANGED phase
        /\ UNCHANGED <<outboxVars, log, consumerVars, faults>>
  BY DEF PubScan
<1>2. PICK left :
        /\ left = seen[r] \ {x} \/ left = {}
        /\ seen' = [seen EXCEPT ![r] = left]
        /\ IF left = {} THEN EndQuery(r, todo'[r]) ELSE UNCHANGED phase
  BY <1>1
<1>3. /\ phase \in [Runs -> Phases] /\ seen \in [Runs -> SUBSET Events]
      /\ todo \in [Runs -> SUBSET Events] /\ faults \in Nat /\ overtakable \subseteq Events
      /\ \A s \in Runs : todo[s] \subseteq emitted /\ seen[s] \subseteq emitted
      /\ emitted \subseteq Nat /\ x \in emitted /\ x \in Events
      /\ UNCHANGED <<emitted, published, log, consumerVars, faults>>
  BY <1>1 DEF IInv, TypeOK, PublisherInv, KnownEvents, Events, outboxVars
<1>4. /\ overtakable' \subseteq Events /\ overtakable \subseteq overtakable'
      /\ todo' \in [Runs -> SUBSET emitted]
      /\ todo[r] \subseteq todo'[r] /\ todo'[r] \subseteq todo[r] \cup {x}
      /\ \A s \in Runs \ {r} : todo'[s] = todo[s]
      /\ x \in todo'[r] \/ x \in overtakable' \/ InLog(x)
  <2>1. CASE overtakable' = overtakable \cup {x} /\ UNCHANGED todo
    BY <1>3, <2>1
  <2>2. CASE (x \in published \/ \E s \in Runs : BeingMarked(s, x)) /\ UNCHANGED <<todo, overtakable>>
    BY <1>3, <2>2, LeftHasArrived
  <2>3. CASE todo' = [todo EXCEPT ![r] = @ \cup {x}] /\ UNCHANGED overtakable
    BY <1>3, <2>3
  <2> QED
    BY <1>1, <2>1, <2>2, <2>3 DEF Lock
<1>5. /\ seen' \in [Runs -> SUBSET emitted] /\ seen'[r] = left
      /\ \A s \in Runs \ {r} : seen'[s] = seen[s]
  BY <1>2, <1>3
<1>6. /\ phase' \in [Runs -> Phases] /\ phase'[r] # "sent"
      /\ phase'[r] = "idle" => todo'[r] = {}
      /\ phase'[r] # "query" => left = {}
      /\ \A s \in Runs \ {r} : phase'[s] = phase[s]
  BY <1>1, <1>2, <1>3 DEF EndQuery, Phases
<1>7. \A e \in todo'[r] : \A f \in left : e < f
  <2>1. \A f \in seen[r] \ {x} : x < f
    BY <1>1, <1>3 DEF IsOldest
  <2> QED
    BY <1>2, <1>4, <2>1 DEF IInv, PublisherInv, ScanInv
<1>8. ScanInv'
  BY <1>4, <1>5, <1>6, <1>7 DEF IInv, PublisherInv, ScanInv
<1>9. ASSUME NEW f \in InRun(r)', NEW e \in emitted \ overtakable', e < f, KeyOf[e] = KeyOf[f]
      PROVE  e \in InRun(r)' \/ InLog(e)
  <2>1. f \in InRun(r)
    BY <1>2, <1>4, <1>5 DEF InRun
  <2>2. e \in InRun(r) \/ InLog(e)
    BY <1>4, <1>9, <2>1 DEF IInv, PublisherInv, NoneSkipped
  <2>3. CASE e \in seen[r] /\ e # x /\ left = {}
    <3>1. f \in todo[r] \cup {x}
      BY <1>4, <1>5, <2>3 DEF InRun
    <3>2. f <= e
      BY <1>1, <1>3, <2>3, <3>1 DEF IsOldest, IInv, PublisherInv, ScanInv
    <3>3. e \in Nat /\ f \in Nat
      BY <1>3, <3>1
    <3> QED
      BY <1>9, <3>2, <3>3
  <2>4. CASE e = x
    BY <1>4, <2>4 DEF InRun
  <2> QED
    BY <1>2, <1>4, <1>5, <2>2, <2>3, <2>4 DEF InRun
<1> QED
  BY <1>3, <1>4, <1>5, <1>6, <1>8, <1>9, QueryKeeps

LEMMA ScanFailsStep == ASSUME IInv, NEW r \in Runs, PubScanFails(r) PROVE IInv'
<1>1. /\ seen' = [seen EXCEPT ![r] = {}]
      /\ phase' = [phase EXCEPT ![r] = IF todo[r] = {} THEN "idle" ELSE "found"]
      /\ UNCHANGED <<emitted, published, todo, log, overtakable, consumerVars>>
      /\ faults' = faults + 1
  BY DEF PubScanFails, EndQuery, Fault, outboxVars
<1>2. /\ phase \in [Runs -> Phases] /\ seen \in [Runs -> SUBSET Events]
      /\ todo \in [Runs -> SUBSET Events] /\ faults \in Nat /\ overtakable \subseteq Events
      /\ \A s \in Runs : todo[s] \subseteq emitted /\ seen[s] \subseteq emitted
      /\ emitted \subseteq Nat
  BY DEF IInv, TypeOK, PublisherInv, KnownEvents, Events
<1>3. /\ phase' \in [Runs -> Phases]
      /\ phase'[r] = IF todo[r] = {} THEN "idle" ELSE "found"
      /\ seen' \in [Runs -> SUBSET emitted] /\ todo' \in [Runs -> SUBSET emitted]
      /\ seen'[r] = {} /\ todo'[r] = todo[r] /\ faults' \in Nat
      /\ \A s \in Runs \ {r} : phase'[s] = phase[s] /\ seen'[s] = seen[s] /\ todo'[s] = todo[s]
  BY <1>1, <1>2 DEF Phases
<1>4. ScanInv'
  BY <1>3 DEF IInv, PublisherInv, ScanInv
<1>5. ASSUME NEW f \in InRun(r)', NEW e \in emitted \ overtakable', e < f, KeyOf[e] = KeyOf[f]
      PROVE  e \in InRun(r)' \/ InLog(e)
  <2>1. f \in todo[r]
    BY <1>3 DEF InRun
  <2>2. e \in InRun(r) \/ InLog(e)
    BY <1>1, <1>5, <2>1 DEF IInv, PublisherInv, NoneSkipped, InRun
  <2>3. e \notin seen[r]
    <3>1. e \in Nat /\ f \in Nat
      BY <1>2, <2>1
    <3> QED
      BY <1>5, <2>1, <3>1 DEF IInv, PublisherInv, ScanInv
  <2> QED
    BY <1>3, <2>2, <2>3 DEF InRun
<1> QED
  BY <1>1, <1>2, <1>3, <1>4, <1>5, QueryKeeps

(* A message arrives, for an event nothing older is skipped for. *)
LEMMA Arrival ==
  ASSUME IInv, NEW r \in Runs, NEW e \in todo[r], IsNext(r, e), seen[r] = {},
         Deliver(e), emitted' = emitted, overtakable \subseteq overtakable'
  PROVE  /\ log' \in [Keys -> Seq(Events)]
         /\ \A k \in Keys : Len(log[k]) <= Len(log'[k])
         /\ InLog(e)' /\ \A f \in Events : InLog(f) => InLog(f)'
         /\ \A k \in Keys : \A j \in DOMAIN log'[k] :
              log'[k][j] \in emitted /\ KeyOf[log'[k][j]] = k
         /\ KeyOrderKept'
<1> DEFINE key == KeyOf[e]
           old == log[key]
           new == Append(old, e)
<1>1. /\ e \in Events /\ e \in emitted /\ key \in Keys /\ old \in Seq(Events)
      /\ log \in [Keys -> Seq(Events)] /\ emitted \subseteq Events /\ emitted \subseteq Nat
  <2>1. e \in emitted
    BY DEF IInv, PublisherInv, KnownEvents
  <2>2. emitted \subseteq Events /\ emitted \subseteq Nat /\ log \in [Keys -> Seq(Events)]
    BY DEF IInv, TypeOK, Events
  <2>3. key \in Keys
    BY <2>1, <2>2, KeyAssumption
  <2> QED
    BY <2>1, <2>2, <2>3
<1>2. \A k \in Keys : log'[k] = IF k = key THEN new ELSE log[k]
  BY <1>1 DEF Deliver
<1>3. /\ new \in Seq(Events) /\ Len(new) = Len(old) + 1 /\ Len(old) \in Nat
      /\ DOMAIN new = 1..(Len(old) + 1) /\ DOMAIN old = 1..Len(old)
      /\ \A i \in 1..Len(old) : new[i] = old[i]
      /\ new[Len(old) + 1] = e
  BY <1>1
<1> HIDE DEF new, key
<1>4. log' \in [Keys -> Seq(Events)]
  BY <1>1, <1>3 DEF Deliver, key, new
<1>5. \A k \in Keys : Len(log[k]) <= Len(log'[k])
  BY <1>1, <1>2, <1>3
<1>6. InLog(e)'
  <2>1. Len(old) + 1 \in DOMAIN log'[key] /\ log'[key][Len(old) + 1] = e
    BY <1>1, <1>2, <1>3
  <2> QED
    BY <2>1 DEF InLog, key
<1>7. \A f \in Events : InLog(f) => InLog(f)'
  <2> SUFFICES ASSUME NEW f \in Events, InLog(f) PROVE InLog(f)'
    OBVIOUS
  <2>1. KeyOf[f] \in Keys
    BY KeyAssumption
  <2>2. PICK i \in DOMAIN log[KeyOf[f]] : log[KeyOf[f]][i] = f
    BY DEF InLog
  <2>3. i \in DOMAIN log'[KeyOf[f]] /\ log'[KeyOf[f]][i] = f
    <3>1. CASE KeyOf[f] = key
      BY <1>2, <1>3, <2>1, <2>2, <3>1
    <3>2. CASE KeyOf[f] # key
      BY <1>2, <2>1, <2>2, <3>2
    <3> QED
      BY <3>1, <3>2
  <2> QED
    BY <2>3 DEF InLog
<1>8. ASSUME NEW k \in Keys, NEW j \in DOMAIN log'[k]
      PROVE  log'[k][j] \in emitted /\ KeyOf[log'[k][j]] = k
  <2>1. CASE k = key /\ j = Len(old) + 1
    BY <1>1, <1>2, <1>3, <2>1 DEF key
  <2>2. CASE ~(k = key /\ j = Len(old) + 1)
    <3>1. j \in DOMAIN log[k] /\ log'[k][j] = log[k][j]
      BY <1>2, <1>3, <2>2
    <3> QED
      BY <3>1 DEF IInv, PublisherInv, KnownEvents
  <2> QED
    BY <2>1, <2>2
<1>9. KeyOrderKept'
  <2> SUFFICES ASSUME NEW k \in Keys, NEW j \in DOMAIN log'[k], NEW f \in emitted \ overtakable,
                      KeyOf[f] = k, f < log'[k][j]
               PROVE  \E i \in 1..(j - 1) : log'[k][i] = f
    BY DEF KeyOrderKept
  <2>1. CASE k = key /\ j = Len(old) + 1
    <3>1. f < e
      BY <1>2, <1>3, <2>1
    <3>2. f \notin todo[r]
      <4>1. f \in Nat /\ e \in Nat
        BY <1>1
      <4> QED
        BY <3>1, <4>1 DEF IsNext, IsOldest
    <3>3. InLog(f)
      BY <2>1, <3>1, <3>2 DEF IInv, PublisherInv, NoneSkipped, InRun, key
    <3> QED
      BY <1>2, <1>3, <2>1, <3>3 DEF InLog
  <2>2. CASE ~(k = key /\ j = Len(old) + 1)
    <3>1. j \in DOMAIN log[k] /\ log'[k][j] = log[k][j]
      BY <1>2, <1>3, <2>2
    <3>2. PICK i \in 1..(j - 1) : log[k][i] = f
      BY <3>1 DEF IInv, PublisherInv, KeyOrderKept
    <3>3. j \in 1..Len(log[k]) /\ Len(log[k]) \in Nat
      BY <1>1, <3>1
    <3>4. i \in 1..Len(log[k]) /\ log'[k][i] = log[k][i]
      <4>1. i \in 1..Len(log[k])
        BY <3>2, <3>3
      <4>2. CASE k = key
        BY <1>2, <1>3, <4>1, <4>2
      <4>3. CASE k # key
        BY <1>2, <4>3
      <4> QED
        BY <4>1, <4>2, <4>3
    <3> QED
      BY <3>2, <3>4
  <2> QED
    BY <2>1, <2>2
<1> QED
  BY <1>4, <1>5, <1>6, <1>7, <1>8, <1>9

(* What is left of a run once it is done with an event. *)
LEMMA WentOn ==
  ASSUME IInv, NEW r \in Runs, NEW e \in todo[r], IsNext(r, e), GoOn(r, e),
         phase[r] # "query", UNCHANGED <<emitted, seen>>
  PROVE  /\ todo' \in [Runs -> SUBSET Events] /\ phase' \in [Runs -> Phases]
         /\ todo'[r] = todo[r] \ {e} /\ phase'[r] \in {"idle", "publish"}
         /\ \A s \in Runs \ {r} : todo'[s] = todo[s] /\ phase'[s] = phase[s]
         /\ ScanInv' /\ seen[r] = {}
<1>1. /\ todo' = [todo EXCEPT ![r] = @ \ {e}]
      /\ phase' = [phase EXCEPT ![r] = IF todo[r] = {e} THEN "idle" ELSE "publish"]
      /\ todo \in [Runs -> SUBSET Events] /\ phase \in [Runs -> Phases]
  BY DEF GoOn, IInv, TypeOK
<1>2. /\ todo' \in [Runs -> SUBSET Events] /\ phase' \in [Runs -> Phases]
      /\ todo'[r] = todo[r] \ {e}
      /\ phase'[r] = IF todo[r] = {e} THEN "idle" ELSE "publish"
      /\ \A s \in Runs \ {r} : todo'[s] = todo[s] /\ phase'[s] = phase[s]
  BY <1>1 DEF Phases
<1>3. seen[r] = {}
  BY DEF IInv, PublisherInv, ScanInv
<1>4. ScanInv'
  BY <1>2, <1>3 DEF IInv, PublisherInv, ScanInv
<1> QED
  BY <1>2, <1>3, <1>4

LEMMA SendStep == ASSUME IInv, NEW r \in Runs, PubSend(r) PROVE IInv'
<1>1. PICK e \in todo[r] :
        /\ phase[r] \in {"found", "publish"} /\ IsNext(r, e)
        /\ \/ /\ Deliver(e) /\ UNCHANGED faults
              /\ phase' = [phase EXCEPT ![r] = "sent"] /\ UNCHANGED <<todo, overtakable>>
           \/ /\ Fault /\ Arrivals(e) /\ GoOn(r, e)
              /\ overtakable' = overtakable \cup {e}
        /\ UNCHANGED <<outboxVars, seen, consumerVars>>
  BY DEF PubSend
<1>2. /\ e \in Events /\ e \in emitted /\ seen[r] = {}
      /\ UNCHANGED <<emitted, published, seen>>
      /\ overtakable' \subseteq Events /\ overtakable \subseteq overtakable' /\ faults' \in Nat
      /\ UNCHANGED <<position, committed, job, processed, charged, abandoned, dropped>>
  <2>1. e \in emitted /\ UNCHANGED <<emitted, published, seen, consumerVars>> /\ seen[r] = {}
    BY <1>1 DEF IInv, PublisherInv, KnownEvents, ScanInv, outboxVars
  <2>2. e \in Events /\ overtakable \subseteq Events /\ faults \in Nat
    BY <2>1 DEF IInv, TypeOK
  <2> QED
    BY <1>1, <2>1, <2>2 DEF consumerVars, Fault
<1>3. /\ log' \in [Keys -> Seq(Events)]
      /\ \A k \in Keys : Len(log[k]) <= Len(log'[k])
      /\ \A f \in Events : InLog(f) => InLog(f)'
      /\ \A k \in Keys : \A j \in DOMAIN log'[k] :
           log'[k][j] \in emitted /\ KeyOf[log'[k][j]] = k
      /\ KeyOrderKept'
      /\ Deliver(e) => InLog(e)'
  <2>1. CASE Deliver(e)
    BY <1>1, <1>2, <2>1, Arrival
  <2>2. CASE UNCHANGED log /\ ~Deliver(e)
    <3>1. \A k \in Keys : Len(log[k]) <= Len(log'[k])
      <4>1. \A k \in Keys : Len(log[k]) \in Nat
        BY DEF IInv, TypeOK
      <4> QED
        BY <2>2, <4>1
    <3>2. KeyOrderKept'
      BY <1>2, <2>2 DEF IInv, PublisherInv, KeyOrderKept
    <3>3. \A f \in Events : InLog(f) => InLog(f)'
      BY <2>2 DEF InLog
    <3>4. \A k \in Keys : \A j \in DOMAIN log'[k] :
            log'[k][j] \in emitted /\ KeyOf[log'[k][j]] = k
      BY <2>2 DEF IInv, PublisherInv, KnownEvents
    <3>5. log' \in [Keys -> Seq(Events)]
      BY <2>2 DEF IInv, TypeOK
    <3> QED
      BY <2>2, <3>1, <3>2, <3>3, <3>4, <3>5
  <2> QED
    BY <1>1, <2>1, <2>2 DEF Arrivals
<1>4. /\ todo' \in [Runs -> SUBSET Events] /\ phase' \in [Runs -> Phases]
      /\ \A s \in Runs \ {r} : todo'[s] = todo[s] /\ phase'[s] = phase[s]
      /\ ScanInv'
      /\ \/ Deliver(e) /\ todo' = todo
         \/ todo'[r] = todo[r] \ {e} /\ e \in overtakable' /\ phase'[r] # "sent"
  <2>1. CASE Deliver(e) /\ phase' = [phase EXCEPT ![r] = "sent"] /\ todo' = todo
    <3>1. /\ todo' \in [Runs -> SUBSET Events] /\ phase' \in [Runs -> Phases]
          /\ phase'[r] = "sent"
          /\ \A s \in Runs \ {r} : phase'[s] = phase[s]
      BY <2>1 DEF IInv, TypeOK, Phases
    <3> QED
      BY <1>2, <2>1, <3>1 DEF IInv, PublisherInv, ScanInv
  <2>2. CASE GoOn(r, e) /\ overtakable' = overtakable \cup {e}
    BY <1>1, <1>2, <2>2, WentOn
  <2> QED
    BY <1>1, <2>1, <2>2
<1>5. TypeOK'
  <2>1. /\ position \in [Keys -> Nat] /\ committed \in [Keys -> Nat]
        /\ \A k \in Keys : Len(log[k]) \in Nat /\ Len(log'[k]) \in Nat
    BY <1>3 DEF IInv, TypeOK
  <2>2. \A k \in Keys : committed[k] <= position[k] /\ position[k] <= Len(log'[k])
    BY <1>3, <2>1 DEF IInv, TypeOK
  <2> QED
    BY <1>2, <1>3, <1>4, <2>2 DEF IInv, TypeOK
<1>6. KnownEvents'
  BY <1>2, <1>3, <1>4 DEF IInv, PublisherInv, KnownEvents
<1>7. PublishedIsInLog'
  <2>1. published \subseteq Events
    BY DEF IInv, TypeOK
  <2> QED
    BY <1>2, <1>3, <2>1 DEF IInv, PublisherInv, PublishedIsInLog
<1>8. SentHasArrived'
  <2> SUFFICES ASSUME NEW s \in Runs, phase'[s] = "sent"
               PROVE  \E f \in todo'[s] : IsNext(s, f)' /\ InLog(f)'
    BY DEF SentHasArrived
  <2>1. CASE s = r
    BY <1>1, <1>3, <1>4, <2>1 DEF IsNext, IsOldest
  <2>2. CASE s # r
    <3>1. PICK f \in todo[s] : IsNext(s, f) /\ InLog(f)
      BY <1>4, <2>2 DEF IInv, PublisherInv, SentHasArrived
    <3>2. f \in Events
      BY DEF IInv, TypeOK
    <3> QED
      BY <1>3, <1>4, <2>2, <3>1, <3>2 DEF IsNext, IsOldest
  <2> QED
    BY <2>1, <2>2
<1>9. NoneSkipped'
  <2> SUFFICES ASSUME NEW s \in Runs, NEW f \in InRun(s)', NEW g \in emitted \ overtakable',
                      g < f, KeyOf[g] = KeyOf[f]
               PROVE  g \in InRun(s)' \/ InLog(g)'
    BY <1>2 DEF NoneSkipped
  <2>1. InRun(s)' \subseteq InRun(s) /\ InRun(s) \subseteq InRun(s)' \cup (IF e \in overtakable' THEN {e} ELSE {})
    BY <1>2, <1>4 DEF InRun
  <2>2. g \in InRun(s) \/ InLog(g)
    BY <1>2, <2>1 DEF IInv, PublisherInv, NoneSkipped
  <2>3. g \in Events
    BY DEF IInv, TypeOK
  <2> QED
    BY <1>3, <2>1, <2>2, <2>3
<1>10. ConsumerUnchanged
  BY <1>2 DEF ConsumerUnchanged
<1> QED
  BY <1>3, <1>4, <1>5, <1>6, <1>7, <1>8, <1>9, <1>10, ConsumerKept DEF IInv, PublisherInv

LEMMA MarkStep == ASSUME IInv, NEW r \in Runs, PubMark(r) PROVE IInv'
<1>1. PICK e \in todo[r] :
        /\ phase[r] = "sent" /\ IsNext(r, e)
        /\ \/ UpdateOutboxStatus(e) /\ UNCHANGED faults
           \/ Fault /\ UNCHANGED published
        /\ GoOn(r, e)
        /\ UNCHANGED <<emitted, seen, log, overtakable, consumerVars>>
  BY DEF PubMark
<1>2. /\ e \in emitted /\ e \in Events
      /\ published' \subseteq published \cup {e} /\ faults' \in Nat
      /\ UNCHANGED <<position, committed, job, processed, charged, abandoned, dropped>>
  BY <1>1 DEF IInv, TypeOK, PublisherInv, KnownEvents, UpdateOutboxStatus, Fault, consumerVars
<1>3. InLog(e) /\ (\A f : InLog(f)' <=> InLog(f))
  BY <1>1, <1>2, LeftHasArrived DEF BeingMarked, InLog
<1>4. /\ todo' \in [Runs -> SUBSET Events] /\ phase' \in [Runs -> Phases]
      /\ todo'[r] = todo[r] \ {e} /\ phase'[r] # "sent"
      /\ \A s \in Runs \ {r} : todo'[s] = todo[s] /\ phase'[s] = phase[s]
      /\ ScanInv'
  BY <1>1, WentOn
<1>5. TypeOK'
  BY <1>1, <1>2, <1>4 DEF IInv, TypeOK
<1>6. KnownEvents'
  BY <1>1, <1>4 DEF IInv, PublisherInv, KnownEvents
<1>7. PublishedIsInLog'
  BY <1>2, <1>3 DEF IInv, PublisherInv, PublishedIsInLog
<1>8. KeyOrderKept'
  BY <1>1 DEF IInv, PublisherInv, KeyOrderKept
<1>9. SentHasArrived'
  <2> SUFFICES ASSUME NEW s \in Runs, phase'[s] = "sent"
               PROVE  \E f \in todo'[s] : IsNext(s, f)' /\ InLog(f)'
    BY DEF SentHasArrived
  <2>1. s # r
    BY <1>4
  <2> QED
    BY <1>3, <1>4, <2>1 DEF IInv, PublisherInv, SentHasArrived, IsNext, IsOldest
<1>10. NoneSkipped'
  <2> SUFFICES ASSUME NEW s \in Runs, NEW f \in InRun(s)', NEW g \in emitted \ overtakable,
                      g < f, KeyOf[g] = KeyOf[f]
               PROVE  g \in InRun(s)' \/ InLog(g)
    BY <1>1, <1>3 DEF NoneSkipped
  <2>1. InRun(s)' \subseteq InRun(s) /\ InRun(s) \subseteq InRun(s)' \cup {e}
    BY <1>1, <1>4 DEF InRun
  <2>2. g \in InRun(s) \/ InLog(g)
    BY <2>1 DEF IInv, PublisherInv, NoneSkipped
  <2> QED
    BY <1>3, <2>1, <2>2
<1>11. ConsumerUnchanged
  BY <1>2 DEF ConsumerUnchanged
<1> QED
  BY <1>4, <1>5, <1>6, <1>7, <1>8, <1>9, <1>10, <1>11, ConsumerKept DEF IInv, PublisherInv

-----------------------------------------------------------------------------
(* The consumer. *)

LEMMA ReadStep == ASSUME IInv, NEW k \in Keys, Read(k) PROVE IInv'
<1>1. /\ job = NoJob /\ position[k] < Len(log[k])
      /\ position' = [position EXCEPT ![k] = @ + 1]
      /\ job' = [stage |-> "record", event |-> log[k][position[k] + 1]]
      /\ PublisherUnchanged
      /\ UNCHANGED <<committed, processed, charged, abandoned, dropped, faults>>
  BY DEF Read, outboxVars, publisherVars, PublisherUnchanged
<1>2. position[k] \in Nat /\ log[k] \in Seq(Events) /\ Len(log[k]) \in Nat
  BY DEF IInv, TypeOK
<1>3. log[k][position[k] + 1] \in Events
  BY <1>1, <1>2
<1>4. job' \in Jobs
  BY <1>1, <1>3 DEF Jobs
<1>5. /\ position' \in [Keys -> Nat]
      /\ \A l \in Keys : committed'[l] <= position'[l] /\ position'[l] <= Len(log'[l])
  <2> SUFFICES ASSUME NEW l \in Keys
               PROVE  committed[l] <= position'[l] /\ position'[l] <= Len(log[l])
    BY <1>1, <1>2 DEF IInv, TypeOK, PublisherUnchanged
  <2>1. position'[l] = IF l = k THEN position[l] + 1 ELSE position[l]
    BY <1>1 DEF IInv, TypeOK
  <2>2. /\ committed[l] \in Nat /\ position[l] \in Nat /\ Len(log[l]) \in Nat
        /\ committed[l] <= position[l] /\ position[l] <= Len(log[l])
    BY DEF IInv, TypeOK
  <2> QED
    BY <1>1, <2>1, <2>2
<1>6. TypeOK'
  BY <1>1, <1>4, <1>5 DEF IInv, TypeOK, PublisherUnchanged
<1>7. JobFits'
  BY <1>1 DEF JobFits, InHand
<1>8. ChargeIsRecorded'
  BY <1>1 DEF IInv, ChargeIsRecorded, IsRecorded, InHand, NoJob
<1> QED
  BY <1>1, <1>6, <1>7, <1>8, PublisherKept DEF IInv

LEMMA AutoCommitStep == ASSUME IInv, AutoCommit PROVE IInv'
<1>1. /\ committed' = position /\ PublisherUnchanged /\ ConsumerUnchanged
      /\ UNCHANGED <<position, dropped, faults>>
  BY DEF AutoCommit, outboxVars, publisherVars, PublisherUnchanged, ConsumerUnchanged
<1>2. TypeOK'
  <2>1. \A k \in Keys : position[k] <= position[k]
    BY DEF IInv, TypeOK
  <2> QED
    BY <1>1, <2>1 DEF IInv, TypeOK, PublisherUnchanged, ConsumerUnchanged
<1> QED
  BY <1>1, <1>2, PublisherKept, ConsumerKept DEF IInv

LEMMA RecordStep == ASSUME IInv, Record PROVE IInv'
<1>1. /\ job \in Jobs /\ job.stage = "record" /\ job.event \in Events
      /\ PublisherUnchanged
      /\ UNCHANGED <<position, committed, processed, charged, abandoned>>
      /\ dropped' \subseteq dropped \cup {job.event} /\ faults' \in Nat
  BY DEF Record, InHand, IInv, TypeOK, Jobs, NoJob, outboxVars, publisherVars,
         PublisherUnchanged, GiveUp, Fault
<1>2. \/ job' = NoJob
      \/ /\ job.event \notin processed
         /\ job' = [stage |-> IF job.event \in Charging THEN "charge" ELSE "commit",
                    event |-> job.event]
  <2>1. ASSUME NEW x
        PROVE  [job EXCEPT !.stage = x] = [stage |-> x, event |-> job.event]
    BY <1>1 DEF Jobs, NoJob
  <2> QED
    BY <2>1 DEF Record, GiveUp
<1>3. TypeOK'
  BY <1>1, <1>2 DEF IInv, TypeOK, Jobs, PublisherUnchanged
<1>4. JobFits'
  BY <1>1, <1>2 DEF JobFits, InHand, NoJob
<1>5. ChargeIsRecorded'
  BY <1>1, <1>2 DEF IInv, ChargeIsRecorded, IsRecorded, InHand, NoJob
<1> QED
  BY <1>1, <1>3, <1>4, <1>5, PublisherKept DEF IInv

LEMMA ChargeStep == ASSUME IInv, Charge PROVE IInv'
<1>1. /\ job \in Jobs /\ job.stage = "charge" /\ job.event \in Events
      /\ job.event \in Charging /\ job.event \notin processed
      /\ PublisherUnchanged
      /\ UNCHANGED <<position, committed, processed>>
      /\ dropped' \subseteq dropped \cup {job.event} /\ faults' \in Nat
  BY DEF Charge, InHand, IInv, TypeOK, JobFits, Jobs, NoJob, outboxVars, publisherVars,
         PublisherUnchanged, GiveUp, Fault
<1>2. \/ /\ Book(job.event) /\ abandoned' = abandoned
         /\ job' = [stage |-> "commit", event |-> job.event]
      \/ charged' = charged /\ abandoned' = abandoned /\ job' = NoJob
      \/ Book(job.event) /\ abandoned' = abandoned \cup {job.event} /\ job' = NoJob
  <2>1. [job EXCEPT !.stage = "commit"] = [stage |-> "commit", event |-> job.event]
    BY <1>1 DEF Jobs, NoJob
  <2> QED
    BY <2>1 DEF Charge, GiveUp
<1>3. Book(job.event) =>
        /\ charged' \in [Events -> Nat]
        /\ \A e \in Events : charged'[e] = IF e = job.event THEN charged[e] + 1 ELSE charged[e]
  BY <1>1 DEF Book, IInv, TypeOK
<1>4. TypeOK'
  BY <1>1, <1>2, <1>3 DEF IInv, TypeOK, Jobs, PublisherUnchanged
<1>5. JobFits'
  BY <1>1, <1>2 DEF JobFits, InHand, NoJob
<1>6. ChargeIsRecorded'
  <2> SUFFICES ASSUME NEW e \in Events, e \notin abandoned'
               PROVE  charged'[e] = IF e \in Charging /\ IsRecorded(e)' THEN 1 ELSE 0
    BY DEF ChargeIsRecorded
  <2>1. charged[e] = IF e \in Charging /\ IsRecorded(e) THEN 1 ELSE 0
    BY <1>2 DEF IInv, ChargeIsRecorded
  <2> QED
    BY <1>1, <1>2, <1>3, <2>1 DEF IsRecorded, InHand, NoJob
<1> QED
  BY <1>1, <1>4, <1>5, <1>6, PublisherKept DEF IInv

LEMMA CommitStep == ASSUME IInv, CommitRecord PROVE IInv'
<1>1. /\ job \in Jobs /\ job.stage = "commit" /\ job.event \in Events
      /\ PublisherUnchanged /\ job' = NoJob
      /\ UNCHANGED <<position, committed, charged>>
      /\ dropped' \subseteq dropped \cup {job.event} /\ faults' \in Nat
      /\ \/ processed' = processed \cup {job.event} /\ abandoned' = abandoned
         \/ processed' = processed /\ abandoned' = abandoned \cup {job.event}
  BY DEF CommitRecord, InHand, IInv, TypeOK, Jobs, NoJob, outboxVars, publisherVars,
         PublisherUnchanged, GiveUp, Fault
<1>2. TypeOK'
  BY <1>1 DEF IInv, TypeOK, Jobs, PublisherUnchanged
<1>3. JobFits'
  BY <1>1 DEF JobFits, InHand, NoJob
<1>4. ChargeIsRecorded'
  BY <1>1 DEF IInv, ChargeIsRecorded, IsRecorded, InHand, NoJob
<1> QED
  BY <1>1, <1>2, <1>3, <1>4, PublisherKept DEF IInv

LEMMA CrashStep == ASSUME IInv, Crash PROVE IInv'
<1>1. /\ phase' = [r \in Runs |-> "idle"]
      /\ seen' = [r \in Runs |-> {}] /\ todo' = [r \in Runs |-> {}]
      /\ position' = committed /\ job' = NoJob
      /\ UNCHANGED <<emitted, published, log, overtakable, committed, processed, charged>>
      /\ dropped' \subseteq dropped \cup (IF job = NoJob THEN {} ELSE {job.event})
      /\ faults' \in Nat
      /\ abandoned' = IF InHand("commit") THEN abandoned \cup {job.event} ELSE abandoned
  BY DEF Crash, IInv, TypeOK, outboxVars, Fault
<1>2. job # NoJob => job.event \in Events
  BY DEF IInv, TypeOK, Jobs
<1>3. InHand("commit") => job # NoJob
  BY DEF InHand, NoJob
<1>4. \A k \in Keys : committed[k] <= committed[k] /\ committed[k] <= Len(log[k])
  <2> SUFFICES ASSUME NEW k \in Keys
               PROVE  committed[k] <= committed[k] /\ committed[k] <= Len(log[k])
    OBVIOUS
  <2>1. /\ committed[k] \in Nat /\ position[k] \in Nat /\ Len(log[k]) \in Nat
        /\ committed[k] <= position[k] /\ position[k] <= Len(log[k])
    BY DEF IInv, TypeOK
  <2> QED
    BY <2>1
<1>5. TypeOK'
  BY <1>1, <1>2, <1>3, <1>4 DEF IInv, TypeOK, Jobs, Phases
<1>6. PublisherInv'
  BY <1>1 DEF IInv, PublisherInv, PublishedIsInLog, KeyOrderKept, KnownEvents, ScanInv,
              SentHasArrived, NoneSkipped, InRun, InLog
<1>7. JobFits'
  BY <1>1 DEF JobFits, InHand, NoJob
<1>8. ChargeIsRecorded'
  BY <1>1 DEF IInv, ChargeIsRecorded, IsRecorded, InHand, NoJob
<1> QED
  BY <1>5, <1>6, <1>7, <1>8 DEF IInv

-----------------------------------------------------------------------------

LEMMA Invariance == Spec => []IInv
<1>1. ASSUME IInv, [Next]_vars PROVE IInv'
  <2>1. CASE \E e \in Events : Emit(e)
    BY <1>1, <2>1, EmitStep
  <2>2. ASSUME NEW r \in Runs, PubRun(r) PROVE IInv'
    BY <1>1, <2>2, QueryStep, ScanStep, ScanFailsStep, SendStep, MarkStep
       DEF PubRun, FindPendingOutboxEvents
  <2>3. CASE Consume
    BY <1>1, <2>3, ReadStep, RecordStep, ChargeStep, CommitStep DEF Consume
  <2>4. CASE AutoCommit
    BY <1>1, <2>4, AutoCommitStep
  <2>5. CASE Crash
    BY <1>1, <2>5, CrashStep
  <2>6. CASE UNCHANGED vars
    <3>1. PublisherUnchanged /\ ConsumerUnchanged /\ TypeOK'
      BY <1>1, <2>6 DEF vars, outboxVars, publisherVars, consumerVars, PublisherUnchanged,
                        ConsumerUnchanged, IInv, TypeOK
    <3> QED
      BY <1>1, <3>1, PublisherKept, ConsumerKept DEF IInv
  <2> QED
    BY <1>1, <2>1, <2>2, <2>3, <2>4, <2>5, <2>6 DEF Next
<1> QED
  BY <1>1, InitIInv, PTL DEF Spec

(* All variables of the pipeline stay in their types, and a committed       *)
(* offset never passes what was handed out (consumer.go:56-68).             *)
THEOREM EventsTypeCorrect == Spec => []TypeOK
<1>1. IInv => TypeOK
  BY DEF IInv
<1> QED
  BY <1>1, Invariance, PTL

(* No row of the outbox says PUBLISHED without its message in Kafka         *)
(* (outbox.go:67-79).                                                       *)
THEOREM PublishedArrived == Spec => []PublishedIsInLog
<1>1. IInv => PublishedIsInLog
  BY DEF IInv, PublisherInv
<1> QED
  BY <1>1, Invariance, PTL

(* Messages of one aggregate are in the order of their events, except for   *)
(* events whose publish failed, whose row appeared late, or that a query    *)
(* left to another (kafka.go:57, outbox.go:46-73, merchant.go:292-315).     *)
THEOREM OrderKept == Spec => []KeyOrderKept
<1>1. IInv => KeyOrderKept
  BY DEF IInv, PublisherInv
<1> QED
  BY <1>1, Invariance, PTL

(* A recorded event was charged once, if every delivery that charged it was *)
(* recorded (consumer.go:98-142).                                           *)
THEOREM ChargedOnceRecorded == Spec => []ChargedWithRecord
<1>1. IInv => ChargedWithRecord
  <2> SUFFICES ASSUME IInv, NEW e \in Events \ abandoned
               PROVE  charged[e] <= 1 /\ (e \in processed /\ e \in Charging => charged[e] = 1)
    BY DEF ChargedWithRecord
  <2> QED
    BY DEF IInv, ChargeIsRecorded, IsRecorded
<1> QED
  BY <1>1, Invariance, PTL

-----------------------------------------------------------------------------
(* How far the consumer has come.  The message in hand is the last one      *)
(* handed out of its key; everything before it is done with.                *)

Handled(e) == e \in processed \cup dropped

HandPlace ==
  job # NoJob =>
    /\ position[KeyOf[job.event]] >= 1
    /\ log[KeyOf[job.event]][position[KeyOf[job.event]]] = job.event

PassedInv ==
  \A k \in Keys : \A i \in 1..position[k] :
    Handled(log[k][i]) \/ (job # NoJob /\ KeyOf[job.event] = k /\ i = position[k])

HandInv == HandPlace /\ PassedInv

LEMMA HandKept ==
  ASSUME IInv, HandInv, UNCHANGED <<position, job, processed, dropped>>,
         \A k \in Keys : \A i \in 1..Len(log[k]) : log'[k][i] = log[k][i]
  PROVE  HandInv'
<1>1. ASSUME NEW k \in Keys, NEW i \in 1..position[k]
      PROVE  i \in 1..Len(log[k])
  BY DEF IInv, TypeOK
<1>2. PassedInv'
  BY <1>1 DEF HandInv, PassedInv, Handled
<1>3. job # NoJob => KeyOf[job.event] \in Keys /\ position[KeyOf[job.event]] \in Nat
  BY KeyAssumption DEF IInv, TypeOK, Jobs
<1>4. HandPlace'
  BY <1>1, <1>3 DEF HandInv, HandPlace
<1> QED
  BY <1>2, <1>4 DEF HandInv

(* The consumer is done with the message in hand. *)
LEMMA HandEmptied ==
  ASSUME HandInv, job # NoJob, job' = NoJob, UNCHANGED <<position, log>>,
         processed \subseteq processed', dropped \subseteq dropped',
         job.event \in processed' \cup dropped'
  PROVE  HandInv'
<1>1. HandPlace'
  BY DEF HandPlace
<1>2. PassedInv'
  BY DEF HandInv, HandPlace, PassedInv, Handled
<1> QED
  BY <1>1, <1>2 DEF HandInv

(* It goes on with it. *)
LEMMA HandMoved ==
  ASSUME HandInv, job # NoJob, job' # NoJob, job'.event = job.event,
         UNCHANGED <<position, log, processed, dropped>>
  PROVE  HandInv'
BY DEF HandInv, HandPlace, PassedInv, Handled

LEMMA Appended ==
  ASSUME IInv, NEW e \in emitted, Deliver(e)
  PROVE  \A k \in Keys : \A i \in 1..Len(log[k]) : log'[k][i] = log[k][i]
<1> DEFINE old == log[KeyOf[e]]
<1>1. e \in Events /\ KeyOf[e] \in Keys /\ old \in Seq(Events) /\ log \in [Keys -> Seq(Events)]
  BY KeyAssumption DEF IInv, TypeOK
<1>2. \A k \in Keys : log'[k] = IF k = KeyOf[e] THEN Append(old, e) ELSE log[k]
  BY <1>1 DEF Deliver
<1>3. \A i \in 1..Len(old) : Append(old, e)[i] = old[i]
  BY <1>1
<1> QED
  BY <1>2, <1>3

LEMMA HandStep == ASSUME IInv, HandInv, [Next]_vars PROVE HandInv'
<1>0. job # NoJob => job.event \in Events /\ KeyOf[job.event] \in Keys
  BY KeyAssumption DEF IInv, TypeOK, Jobs
<1>1. ASSUME NEW r \in Runs, PubSend(r) PROVE HandInv'
  <2>1. PICK e \in todo[r] : Deliver(e) \/ UNCHANGED log
    BY <1>1 DEF PubSend, Arrivals
  <2>2. e \in emitted /\ UNCHANGED <<position, job, processed, dropped>>
    BY <1>1, <2>1 DEF PubSend, IInv, PublisherInv, KnownEvents, consumerVars
  <2> QED
    BY <2>1, <2>2, Appended, HandKept
<1>2. CASE \/ (\E e \in Events : Emit(e)) \/ AutoCommit \/ UNCHANGED vars
           \/ \E r \in Runs : FindPendingOutboxEvents(r) \/ PubMark(r)
  <2>1. UNCHANGED <<log, position, job, processed, dropped>>
    BY <1>2 DEF Emit, AutoCommit, FindPendingOutboxEvents, PubQuery, PubScan, PubScanFails,
                PubMark, vars, publisherVars, consumerVars
  <2> QED
    BY <2>1, HandKept
<1>3. ASSUME NEW k \in Keys, Read(k) PROVE HandInv'
  <2>1. /\ job = NoJob /\ position' = [position EXCEPT ![k] = @ + 1]
        /\ job' = [stage |-> "record", event |-> log[k][position[k] + 1]]
        /\ UNCHANGED <<log, processed, dropped>>
    BY <1>3 DEF Read, publisherVars
  <2>2. /\ position \in [Keys -> Nat] /\ position[k] + 1 \in DOMAIN log[k]
    BY <1>3 DEF Read, IInv, TypeOK
  <2>3. KeyOf[job'.event] = k /\ job' # NoJob
    BY <2>1, <2>2 DEF IInv, PublisherInv, KnownEvents, NoJob
  <2>4. \A l \in Keys : position'[l] = IF l = k THEN position[l] + 1 ELSE position[l]
    BY <2>1, <2>2
  <2>5. HandPlace'
    BY <2>1, <2>2, <2>3, <2>4 DEF HandPlace
  <2>6. PassedInv'
    <3> SUFFICES ASSUME NEW l \in Keys, NEW i \in 1..position'[l], ~(l = k /\ i = position'[k])
                 PROVE  Handled(log[l][i])
      BY <2>1, <2>3 DEF PassedInv, Handled
    <3>1. i \in 1..position[l]
      BY <2>2, <2>4
    <3> QED
      BY <2>1, <3>1 DEF HandInv, PassedInv
  <2> QED
    BY <2>5, <2>6 DEF HandInv
<1>4. CASE Record
  <2>1. job # NoJob /\ job \in Jobs /\ job.stage = "record" /\ UNCHANGED <<position, log, processed>>
    BY <1>4 DEF Record, InHand, NoJob, IInv, TypeOK, publisherVars
  <2>2. CASE job.event \in processed /\ job' = NoJob /\ UNCHANGED dropped
    BY <2>1, <2>2, HandEmptied
  <2>3. CASE GiveUp
    BY <2>1, <2>3, HandEmptied DEF GiveUp
  <2>4. CASE /\ UNCHANGED dropped
             /\ job' = [job EXCEPT !.stage = IF job.event \in Charging THEN "charge" ELSE "commit"]
    <3>1. job'.event = job.event /\ job'.stage # "none"
      BY <2>1, <2>4 DEF Jobs, NoJob
    <3> QED
      BY <2>1, <2>4, <3>1, HandMoved DEF NoJob
  <2> QED
    BY <1>4, <2>2, <2>3, <2>4 DEF Record
<1>5. CASE Charge
  <2>1. job # NoJob /\ job \in Jobs /\ job.stage = "charge" /\ UNCHANGED <<position, log, processed>>
    BY <1>5 DEF Charge, InHand, NoJob, IInv, TypeOK, publisherVars
  <2>2. CASE GiveUp
    BY <2>1, <2>2, HandEmptied DEF GiveUp
  <2>3. CASE UNCHANGED dropped /\ job' = [job EXCEPT !.stage = "commit"]
    <3>1. job'.event = job.event /\ job'.stage # "none"
      BY <2>1, <2>3 DEF Jobs, NoJob
    <3> QED
      BY <2>1, <2>3, <3>1, HandMoved DEF NoJob
  <2> QED
    BY <1>5, <2>2, <2>3 DEF Charge
<1>6. CASE CommitRecord
  <2>1. /\ job # NoJob /\ UNCHANGED <<position, log>> /\ job' = NoJob
        /\ \/ processed' = processed \cup {job.event} /\ dropped' = dropped
           \/ processed' = processed /\ dropped' = dropped \cup {job.event}
    BY <1>6 DEF CommitRecord, InHand, NoJob, publisherVars, GiveUp
  <2> QED
    BY <2>1, HandEmptied
<1>7. CASE Crash
  <2>1. /\ position' = committed /\ job' = NoJob /\ UNCHANGED <<log, processed>>
        /\ dropped' = IF /\ job # NoJob
                         /\ committed[KeyOf[job.event]] = position[KeyOf[job.event]]
                      THEN dropped \cup {job.event} ELSE dropped
    BY <1>7 DEF Crash
  <2>2. PassedInv'
    <3> SUFFICES ASSUME NEW k \in Keys, NEW i \in 1..committed[k]
                 PROVE  Handled(log[k][i])'
      BY <2>1 DEF PassedInv, Handled
    <3>1. /\ committed[k] \in Nat /\ position[k] \in Nat /\ committed[k] <= position[k]
      BY DEF IInv, TypeOK
    <3>2. CASE Handled(log[k][i])
      BY <2>1, <3>2 DEF Handled
    <3>3. CASE job # NoJob /\ KeyOf[job.event] = k /\ i = position[k]
      <4>1. committed[k] = position[k] /\ log[k][i] = job.event
        BY <3>1, <3>3 DEF HandInv, HandPlace
      <4> QED
        BY <2>1, <3>3, <4>1 DEF Handled
    <3> QED
      BY <3>1, <3>2, <3>3 DEF HandInv, PassedInv
  <2> QED
    BY <2>1, <2>2 DEF HandInv, HandPlace
<1> QED
  BY <1>1, <1>2, <1>3, <1>4, <1>5, <1>6, <1>7 DEF Next, PubRun, Consume

LEMMA HandHolds == Spec => [](IInv /\ HandInv)
<1>1. Init => HandInv
  BY DEF Init, HandInv, HandPlace, PassedInv, NoJob
<1> QED
  BY <1>1, HandStep, Invariance, PTL DEF Spec

(* The consumer passes over no message: every one handed out is in its      *)
(* hands, in the processing ledger, or given up for an error or a crash     *)
(* (consumer.go:56-145, offsets committed in the background included).      *)
THEOREM NothingPassedOver == Spec => []PassedIsHandled
<1>1. IInv /\ HandInv => PassedIsHandled
  BY DEF HandInv, HandPlace, PassedInv, PassedIsHandled, Handled
<1> QED
  BY <1>1, HandHolds, PTL

-----------------------------------------------------------------------------
(* Fees.  Besides the charge that is recorded, an event has at most one     *)
(* charge for each fault there has been.                                    *)

FeeInv == \A e \in Events : charged[e] <= faults + (IF IsRecorded(e) THEN 1 ELSE 0)

LEMMA FeeStep == ASSUME IInv, FeeInv, [Next]_vars PROVE FeeInv'
<1>0. /\ faults \in Nat /\ charged \in [Events -> Nat]
      /\ job \in Jobs /\ (job # NoJob => job.event \in Events)
  BY DEF IInv, TypeOK, Jobs
<1>1. CASE \/ (\E e \in Events : Emit(e)) \/ AutoCommit \/ UNCHANGED vars
           \/ \E r \in Runs : PubRun(r)
  <2>1. UNCHANGED <<job, processed, charged>> /\ faults' \in Nat /\ faults <= faults'
    BY <1>0, <1>1 DEF Emit, AutoCommit, PubRun, FindPendingOutboxEvents, PubQuery, PubScan,
                      PubScanFails, PubSend, PubMark, Fault, vars, consumerVars
  <2> QED
    BY <1>0, <2>1 DEF FeeInv, IsRecorded, InHand
<1>2. CASE \E k \in Keys : Read(k)
  BY <1>0, <1>2 DEF Read, FeeInv, IsRecorded, InHand, NoJob
<1>3. CASE Record
  <2>1. /\ UNCHANGED <<processed, charged>> /\ faults' \in Nat /\ faults <= faults'
        /\ job.stage = "record"
    BY <1>0, <1>3 DEF Record, InHand, Fault
  <2> QED
    BY <1>0, <2>1 DEF FeeInv, IsRecorded, InHand
<1>4. CASE Charge
  <2>1. /\ job.stage = "charge" /\ job.event \in Events /\ job.event \notin processed
        /\ UNCHANGED processed
    BY <1>0, <1>4 DEF Charge, InHand, NoJob, IInv, JobFits
  <2>2. Book(job.event) =>
          \A e \in Events : charged'[e] = IF e = job.event THEN charged[e] + 1 ELSE charged[e]
    BY <1>0, <2>1 DEF Book
  <2>3. CASE Book(job.event) /\ job' = [job EXCEPT !.stage = "commit"] /\ UNCHANGED faults
    <3>1. job'.stage = "commit" /\ job'.event = job.event
      BY <1>0, <2>1, <2>3 DEF Jobs, NoJob
    <3> QED
      BY <1>0, <2>1, <2>2, <2>3, <3>1 DEF FeeInv, IsRecorded, InHand
  <2>4. CASE faults' = faults + 1 /\ (Book(job.event) \/ UNCHANGED charged)
    BY <1>0, <2>1, <2>2, <2>4 DEF FeeInv, IsRecorded, InHand
  <2> QED
    BY <1>4, <2>3, <2>4 DEF Charge, Fault
<1>5. CASE CommitRecord
  <2>1. /\ job.stage = "commit" /\ job' = NoJob /\ UNCHANGED charged
        /\ \/ processed' = processed \cup {job.event} /\ UNCHANGED faults
           \/ UNCHANGED processed /\ faults' = faults + 1
    BY <1>5 DEF CommitRecord, InHand, GiveUp, Fault
  <2> QED
    BY <1>0, <2>1 DEF FeeInv, IsRecorded, InHand, NoJob
<1>6. CASE Crash
  <2>1. faults' = faults + 1 /\ job' = NoJob /\ UNCHANGED <<processed, charged>>
    BY <1>6 DEF Crash, Fault
  <2> QED
    BY <1>0, <2>1 DEF FeeInv, IsRecorded, InHand, NoJob
<1> QED
  BY <1>1, <1>2, <1>3, <1>4, <1>5, <1>6 DEF Next, Consume

(* Of an event charged n times, n - 1 charges at least were caused by       *)
(* faults; without faults no fee is charged twice, however runs overlap     *)
(* (consumer.go:101-142).                                                   *)
THEOREM FeesBounded == Spec => []FeesBoundedByFaults
<1>1. Init => FeeInv
  BY DEF Init, FeeInv, IsRecorded
<1>2. IInv /\ FeeInv => FeesBoundedByFaults
  BY DEF FeeInv, FeesBoundedByFaults, IInv, TypeOK
<1> QED
  BY <1>1, <1>2, FeeStep, Invariance, PTL DEF Spec

-----------------------------------------------------------------------------
(* EventPipeline implements OrderedDelivery: a publish that gets through is *)
(* the abstract Arrive, one reported failed and a row left to another query *)
(* are Doubt, giving a message up is Lose, committing its record Process;   *)
(* the other steps of queries, offsets and the steps of the consumer before *)
(* its commit are not seen.                                                 *)

Unseen == UNCHANGED Delivery!deliveryVars

Maps == Delivery!DeliveryNext \/ Unseen

(* Steps that touch neither the topic nor what the consumer has done.       *)
LEMMA QuietUnseen ==
  ASSUME UNCHANGED <<emitted, overtakable, log, published, dropped, processed>>
  PROVE  Unseen
BY DEF Unseen, Delivery!deliveryVars

LEMMA EmitMaps == ASSUME NEW e \in Events, Emit(e) PROVE Maps
<1>1. Delivery!Happen(e)
  BY DEF Emit, Newer, publisherVars, consumerVars, Delivery!Happen
<1> QED
  BY <1>1 DEF Events, Delivery!DeliveryNext, Maps

LEMMA QueryMaps ==
  ASSUME IInv, NEW r \in Runs, FindPendingOutboxEvents(r)
  PROVE  Maps
<1>1. CASE PubQuery(r) \/ PubScanFails(r)
  BY <1>1, QuietUnseen DEF PubQuery, PubScanFails, outboxVars, consumerVars, Maps
<1>2. ASSUME NEW e \in seen[r], Lock(r, e), UNCHANGED <<outboxVars, log, consumerVars>>
      PROVE  Maps
  <2>1. e \in emitted
    BY DEF IInv, PublisherInv, KnownEvents
  <2>2. CASE overtakable' = overtakable \cup {e}
    <3>1. Delivery!Doubt(e)
      BY <1>2, <2>2 DEF Delivery!Doubt, outboxVars, consumerVars
    <3> QED
      BY <2>1, <3>1 DEF Delivery!DeliveryNext, Maps
  <2>3. CASE UNCHANGED overtakable
    BY <1>2, <2>3, QuietUnseen DEF outboxVars, consumerVars, Maps
  <2> QED
    BY <1>2, <2>2, <2>3 DEF Lock
<1> QED
  BY <1>1, <1>2 DEF FindPendingOutboxEvents, PubScan

(* A run sends its oldest event: what is older has arrived or may be        *)
(* overtaken.                                                               *)
LEMMA ReachMaps ==
  ASSUME IInv, NEW r \in Runs, NEW e \in todo[r], IsNext(r, e), seen[r] = {}, Deliver(e)
  PROVE  Delivery!Reach(e)
<1>1. e \in emitted /\ emitted \subseteq Nat
  BY DEF IInv, PublisherInv, KnownEvents, TypeOK, Events
<1>2. ASSUME NEW f \in emitted, f < e, KeyOf[f] = KeyOf[e], f \notin overtakable
      PROVE  InLog(f)
  <2>1. f \notin todo[r]
    BY <1>1, <1>2 DEF IsNext, IsOldest
  <2> QED
    BY <1>1, <1>2, <2>1 DEF IInv, PublisherInv, NoneSkipped, InRun
<1> QED
  BY <1>2 DEF Delivery!Reach, Delivery!Older, Delivery!InTopic, InLog, Deliver

LEMMA SendMaps == ASSUME IInv, NEW r \in Runs, PubSend(r) PROVE Maps
<1>1. PICK e \in todo[r] :
        /\ phase[r] \in {"found", "publish"} /\ IsNext(r, e)
        /\ \/ Deliver(e) /\ UNCHANGED overtakable
           \/ Arrivals(e) /\ overtakable' = overtakable \cup {e}
        /\ UNCHANGED <<emitted, published, dropped, processed>>
  BY DEF PubSend, outboxVars, consumerVars
<1>2. e \in emitted /\ seen[r] = {}
  BY <1>1 DEF IInv, PublisherInv, KnownEvents, ScanInv
<1>3. CASE Deliver(e) /\ UNCHANGED overtakable
  BY <1>1, <1>2, <1>3, ReachMaps DEF Delivery!Arrive, Delivery!DeliveryNext, Maps
<1>4. CASE Arrivals(e) /\ overtakable' = overtakable \cup {e}
  <2>1. Delivery!Reach(e) \/ UNCHANGED log
    BY <1>1, <1>2, <1>4, ReachMaps DEF Arrivals
  <2> QED
    BY <1>1, <1>2, <1>4, <2>1 DEF Delivery!Doubt, Delivery!DeliveryNext, Maps
<1> QED
  BY <1>1, <1>3, <1>4

LEMMA MarkMaps == ASSUME IInv, NEW r \in Runs, PubMark(r) PROVE Maps
<1>1. PICK e \in todo[r] :
        /\ phase[r] = "sent" /\ IsNext(r, e)
        /\ UpdateOutboxStatus(e) \/ UNCHANGED published
        /\ UNCHANGED <<emitted, overtakable, log, dropped, processed>>
  BY DEF PubMark, consumerVars
<1>2. e \in emitted /\ InLog(e)
  BY <1>1, LeftHasArrived DEF IInv, PublisherInv, KnownEvents, BeingMarked
<1>3. CASE UNCHANGED published
  BY <1>1, <1>3, QuietUnseen DEF Maps
<1>4. CASE UpdateOutboxStatus(e)
  <2>1. Delivery!Mark(e)
    BY <1>1, <1>2, <1>4 DEF Delivery!Mark, Delivery!InTopic, InLog, UpdateOutboxStatus
  <2> QED
    BY <1>2, <2>1 DEF Delivery!DeliveryNext, Maps
<1> QED
  BY <1>1, <1>3, <1>4

(* The message in hand is one of the topic, all before it done with. *)
LEMMA InHandIsDue ==
  ASSUME IInv, HandInv, job # NoJob
  PROVE  /\ job.event \in emitted /\ Delivery!InTopic(job.event)
         /\ Delivery!IsDue(job.event)
<1> DEFINE k == KeyOf[job.event]
           n == position[k]
<1>1. k \in Keys /\ n \in Nat
  BY KeyAssumption DEF IInv, TypeOK, Jobs
<1>2. n \in DOMAIN log[k] /\ log[k][n] = job.event
  BY <1>1 DEF HandInv, HandPlace, IInv, TypeOK
<1>3. job.event \in emitted
  BY <1>1, <1>2 DEF IInv, PublisherInv, KnownEvents
<1>4. \A i \in 1..(n - 1) : log[k][i] \in processed \cup dropped
  <2> SUFFICES ASSUME NEW i \in 1..(n - 1) PROVE log[k][i] \in processed \cup dropped
    OBVIOUS
  <2>1. i \in 1..n /\ i # n
    BY <1>1
  <2> QED
    BY <1>1, <2>1 DEF HandInv, PassedInv, Handled
<1> QED
  BY <1>2, <1>3, <1>4 DEF Delivery!InTopic, Delivery!IsDue

LEMMA LoseMaps ==
  ASSUME IInv, HandInv, job # NoJob, dropped' = dropped \cup {job.event},
         UNCHANGED <<emitted, overtakable, log, published, processed>>
  PROVE  Maps
<1>1. Delivery!Lose(job.event)
  BY InHandIsDue DEF Delivery!Lose
<1> QED
  BY <1>1, InHandIsDue DEF Delivery!DeliveryNext, Maps

LEMMA ConsumerMaps ==
  ASSUME IInv, HandInv, Consume \/ Crash
  PROVE  Maps
<1>0. UNCHANGED <<emitted, overtakable, log, published>>
  BY DEF Consume, Read, Record, Charge, CommitRecord, Crash, outboxVars, publisherVars
<1>1. CASE UNCHANGED <<dropped, processed>>
  BY <1>0, <1>1, QuietUnseen DEF Maps
<1>2. CASE job # NoJob /\ dropped' = dropped \cup {job.event} /\ UNCHANGED processed
  BY <1>0, <1>2, LoseMaps
<1>3. CASE /\ InHand("commit") /\ processed' = processed \cup {job.event}
           /\ UNCHANGED dropped
  <2>1. job # NoJob /\ job.event \notin processed
    BY <1>3 DEF InHand, NoJob, IInv, JobFits
  <2>2. Delivery!Process(job.event)
    BY <1>0, <1>3, <2>1, InHandIsDue DEF Delivery!Process
  <2> QED
    BY <2>1, <2>2, InHandIsDue DEF Delivery!DeliveryNext, Maps
<1>4. CASE \E k \in Keys : Read(k)
  BY <1>1, <1>4 DEF Read
<1>5. CASE Record \/ Charge
  BY <1>1, <1>2, <1>5 DEF Record, Charge, GiveUp, InHand, NoJob
<1>6. CASE CommitRecord
  BY <1>2, <1>3, <1>6 DEF CommitRecord, GiveUp, InHand, NoJob
<1>7. CASE Crash
  BY <1>1, <1>2, <1>7 DEF Crash
<1> QED
  BY <1>4, <1>5, <1>6, <1>7 DEF Consume

(* From the outbox to the topic the order of each aggregate is kept but for *)
(* the ways the code has to let an event be overtaken, and the consumer     *)
(* follows the topic but for lost deliveries, whatever runs and queries     *)
(* overlap and whenever the process dies (outbox.go:46-81,                  *)
(* merchant.go:292-315, consumer.go:56-145).                                *)
THEOREM DeliveryImplemented == Spec => ImplementsDelivery
<1>1. Init => Delivery!DeliveryInit
  BY DEF Init, Delivery!DeliveryInit
<1>2. ASSUME IInv, HandInv, [Next]_vars PROVE Maps
  <2>1. CASE \E e \in Events : Emit(e)
    BY <2>1, EmitMaps
  <2>2. ASSUME NEW r \in Runs, PubRun(r) PROVE Maps
    BY <1>2, <2>2, QueryMaps, SendMaps, MarkMaps DEF PubRun
  <2>3. CASE Consume \/ Crash
    BY <1>2, <2>3, ConsumerMaps
  <2>4. CASE AutoCommit \/ UNCHANGED vars
    BY <2>4, QuietUnseen DEF AutoCommit, outboxVars, publisherVars, consumerVars, vars, Maps
  <2> QED
    BY <1>2, <2>1, <2>2, <2>3, <2>4 DEF Next
<1>3. (IInv /\ HandInv) /\ [Next]_vars =>
        [Delivery!DeliveryNext]_(Delivery!deliveryVars)
  BY <1>2 DEF Maps, Unseen
<1> QED
  BY <1>1, <1>3, HandHolds, PTL DEF Spec, ImplementsDelivery, Delivery!DeliverySpec

=============================================================================
