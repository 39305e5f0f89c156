------------------------------- MODULE MCEvents -------------------------------
(* Instances of EventPipeline for TLC. *)
EXTENDS EventPipeline

(* All events are of one transaction. *)
OneKey == [e \in Events |-> CHOOSE k \in Keys : TRUE]

(* Transactions that commit in the order in which they began. *)
Earlier(e) == 1..(e - 1)

InOrderSpec == Init /\ [][Next /\ \A e \in emitted' : Earlier(e) \subseteq emitted']_vars

=============================================================================
