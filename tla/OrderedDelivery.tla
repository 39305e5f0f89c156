--------------------------- MODULE OrderedDelivery ---------------------------
(***************************************************************************)
(* What the services downstream may count on, and nothing of runs, locks,  *)
(* offsets and crashes.  Of each aggregate, an event reaches the topic     *)
(* after all older ones, unless an older one may be overtaken; and events  *)
(* have their effect in the order in which they reached the topic, unless  *)
(* a delivery was lost.  Only an event that arrived is marked as published *)
(* or processed, and nothing that happened is undone.  Module              *)
(* EventPipeline is shown to implement this.                               *)
(***************************************************************************)
EXTENDS Integers, Sequences

CONSTANTS
  NumEvents, \* number of events
  Keys,      \* aggregates
  KeyOf      \* the aggregate of each event

VARIABLES
  emitted,     \* events that have happened
  overtakable, \* events that newer ones may overtake on their way to the topic
  topic,       \* the messages of each aggregate
  published,   \* events known to have reached it
  lost,        \* events with a delivery that was lost
  processed    \* events that had their effect downstream

deliveryVars == <<emitted, overtakable, topic, published, lost, processed>>

DeliveryInit ==
  /\ emitted = {} /\ overtakable = {} /\ topic = [k \in Keys |-> <<>>]
  /\ published = {} /\ lost = {} /\ processed = {}

Older(e) == {f \in emitted : f < e /\ KeyOf[f] = KeyOf[e]}

(* An event happens; one that newer ones precede can only be overtaken.     *)
Happen(e) ==
  /\ e \notin emitted /\ emitted' = emitted \cup {e}
  /\ overtakable' = IF \E f \in emitted : f > e /\ KeyOf[f] = KeyOf[e]
                    THEN overtakable \cup {e} ELSE overtakable
  /\ UNCHANGED <<topic, published, lost, processed>>

InTopic(e) == \E i \in DOMAIN topic[KeyOf[e]] : topic[KeyOf[e]][i] = e

(* The event arrives, again or for the first time. *)
Reach(e) ==
  /\ \A f \in Older(e) : InTopic(f) \/ f \in overtakable
  /\ topic' = [topic EXCEPT ![KeyOf[e]] = Append(@, e)]

Arrive(e) == Reach(e) /\ UNCHANGED <<emitted, overtakable, published, lost, processed>>

(* A publish is reported failed, though it may have succeeded, or an event  *)
(* is left to somebody else.                                                *)
Doubt(e) ==
  /\ Reach(e) \/ UNCHANGED topic
  /\ overtakable' = overtakable \cup {e}
  /\ UNCHANGED <<emitted, published, lost, processed>>

Mark(e) ==
  /\ InTopic(e) /\ published' = published \cup {e}
  /\ UNCHANGED <<emitted, overtakable, topic, lost, processed>>

Lose(e) ==
  /\ InTopic(e) /\ lost' = lost \cup {e}
  /\ UNCHANGED <<emitted, overtakable, topic, published, processed>>

(* One of the event's messages, all before it processed or lost. *)
IsDue(e) ==
  \E i \in DOMAIN topic[KeyOf[e]] :
    /\ topic[KeyOf[e]][i] = e
    /\ \A j \in 1..(i - 1) : topic[KeyOf[e]][j] \in processed \cup lost

Process(e) ==
  /\ IsDue(e) /\ e \notin processed /\ processed' = processed \cup {e}
  /\ UNCHANGED <<emitted, overtakable, topic, published, lost>>

DeliveryNext ==
  \/ \E e \in 1..NumEvents : Happen(e)
  \/ \E e \in emitted : Arrive(e) \/ Doubt(e) \/ Mark(e) \/ Lose(e) \/ Process(e)

DeliverySpec == DeliveryInit /\ [][DeliveryNext]_deliveryVars

=============================================================================
