-------------------------- MODULE IdempotentEndpoint --------------------------
(***************************************************************************)
(* What POST /onboard promises the merchant, and nothing of how: a key is  *)
(* tied once and for ever to one payload and one tracking id, and every    *)
(* acceptance ever returned for the key names that id.  Module Onboarding  *)
(* is shown to implement this.                                             *)
(***************************************************************************)
CONSTANTS
  Keys,    \* idempotency keys
  Bodies,  \* request payloads
  Ids,     \* tracking ids
  Unbound  \* a key that is not tied yet

VARIABLES
  bound,   \* what each key is tied to
  replies  \* acceptances returned so far

endpointVars == <<bound, replies>>

Bindings == [body : Bodies, id : Ids]

EndpointInit ==
  /\ bound = [k \in Keys |-> Unbound]
  /\ replies = {}

(* A key is tied to a payload and to an id no other key has. *)
Bind(k, b, i) ==
  /\ bound[k] = Unbound
  /\ \A x \in Keys : bound[x] # Unbound => bound[x].id # i
  /\ bound' = [bound EXCEPT ![k] = [body |-> b, id |-> i]]
  /\ UNCHANGED replies

(* A request is accepted only with the payload its key is tied to. *)
Accept(k) ==
  /\ bound[k] # Unbound
  /\ replies' = replies \cup {[key |-> k, body |-> bound[k].body, id |-> bound[k].id]}
  /\ UNCHANGED bound

EndpointNext ==
  \/ \E k \in Keys, b \in Bodies, i \in Ids : Bind(k, b, i)
  \/ \E k \in Keys : Accept(k)

EndpointSpec == EndpointInit /\ [][EndpointNext]_endpointVars

=============================================================================
