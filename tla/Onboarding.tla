------------------------------ MODULE Onboarding ------------------------------
(***************************************************************************)
(* POST /onboard: MerchantHandler.Onboard in internal/handlers/merchant.go *)
(* with the statements it makes.  Requests run side by side, each in five  *)
(* statements that no database transaction holds together: look the key    *)
(* up, store the transaction, create the saga, dispatch its first command, *)
(* store the idempotency record.  A request without a key is turned away   *)
(* before the first of them and is not modelled.                           *)
(*                                                                         *)
(* A payload stands for its SHA-256 hash too.  A client that hangs up      *)
(* cancels the context of its request, so that the remaining statements    *)
(* fail: DbFails covers it.                                                *)
(***************************************************************************)
EXTENDS SagaStore, Naturals

CONSTANTS
  Keys,       \* idempotency keys
  Bodies,     \* request payloads
  BadBodies,  \* those that are not JSON
  Reqs,       \* requests, each sent once
  None,       \* no value
  DbFails,    \* TRUE: a statement may fail, or succeed and be reported failed
  MaxCrashes  \* bound on the number of crashes

ASSUME BodyAssumption == BadBodies \subseteq Bodies
ASSUME NoneAssumption == /\ None \notin Keys \cup Bodies \cup Ids
                         /\ None \notin [body : Bodies, id : Ids]
ASSUME BoundAssumption == DbFails \in BOOLEAN /\ MaxCrashes \in Nat

VARIABLES
  req,          \* each request, and how far its handler has come
  record,       \* the idempotency_record row of each key
  transactions, \* tracking ids stored, with their TransactionCreatedEvent
  used,         \* tracking ids drawn
  crashes

onboardVars == <<req, record, transactions, used, crashes>>
allVars == <<onboardVars, sagaVars>>

Stages == {"unsent", "lookup", "save", "create", "dispatch", "remember", "reply",
           "answered", "lost"}

(* HTTP 202, 400, 409 and 500. *)
Answers == {"none", "accepted", "malformed", "conflict", "error"}

Requests == [stage : Stages, key : Keys \cup {None}, body : Bodies \cup {None},
             id : Ids \cup {None}, answer : Answers]

Records == [body : Bodies, id : Ids]

Blank == [stage |-> "unsent", key |-> None, body |-> None, id |-> None, answer |-> "none"]

Init ==
  /\ SagaInit
  /\ req = [r \in Reqs |-> Blank]
  /\ record = [k \in Keys |-> None]
  /\ transactions = {} /\ used = {} /\ crashes = 0

-----------------------------------------------------------------------------

Goto(r, stage) == req' = [req EXCEPT ![r] = [@ EXCEPT !.stage = stage]]

Answer(r, answer) ==
  req' = [req EXCEPT ![r] = [@ EXCEPT !.stage = "answered", !.answer = answer]]

Send(r, k, b) ==
  /\ req[r].stage = "unsent"
  /\ req' = [req EXCEPT ![r] = [@ EXCEPT !.stage = "lookup", !.key = k, !.body = b]]
  /\ UNCHANGED <<record, transactions, used, crashes, sagaVars>>

(* Slips that the runs must catch: a key reused with another payload is     *)
(* accepted, the first half of Start going on after an error, and a         *)
(* transaction taken for stored after an error.                             *)
RepeatUnchecked(r) ==
  LET known == record[req[r].key] IN
  /\ req[r].stage = "lookup" /\ known # None
  /\ req' = [req EXCEPT ![r] =
               [@ EXCEPT !.stage = "answered", !.answer = "accepted", !.id = known.id]]
  /\ UNCHANGED <<record, transactions, used, crashes, sagaVars>>

SaveErrorIgnored(r) ==
  /\ req[r].stage = "save" /\ Goto(r, "create")
  /\ \/ transactions' = transactions \cup {req[r].id}
     \/ DbFails /\ UNCHANGED transactions
  /\ UNCHANGED <<record, used, crashes, sagaVars>>

StartSagaErrorIgnored(r) ==
  /\ req[r].stage = "create" /\ Goto(r, "dispatch")
  /\ \/ CreateSaga(req[r].id, "VERIFY_IDENTITY")
     \/ DbFails /\ UNCHANGED sagaVars
  /\ UNCHANGED <<record, transactions, used, crashes>>

(* The key has a record: the saved answer is given again, to the same       *)
(* payload.                                                                 *)
Repeat(r) ==
  LET known == record[req[r].key] IN
  /\ req[r].stage = "lookup" /\ known # None
  /\ \/ known.body # req[r].body /\ Answer(r, "conflict")
     \/ /\ known.body = req[r].body
        /\ req' = [req EXCEPT ![r] =
                     [@ EXCEPT !.stage = "answered", !.answer = "accepted", !.id = known.id]]
  /\ UNCHANGED <<record, transactions, used, crashes, sagaVars>>

(* The key has no record, or the query failed, which the handler takes for  *)
(* the same thing.                                                          *)
Begin(r) ==
  /\ req[r].stage = "lookup"
  /\ record[req[r].key] = None \/ DbFails
  /\ \/ /\ req[r].body \in BadBodies /\ Answer(r, "malformed")
        /\ UNCHANGED used
     \/ /\ req[r].body \notin BadBodies
        /\ \E i \in Ids \ used :
             /\ req' = [req EXCEPT ![r] = [@ EXCEPT !.stage = "save", !.id = i]]
             /\ used' = used \cup {i}
  /\ UNCHANGED <<record, transactions, crashes, sagaVars>>

(* The transaction and its event, in one database transaction. *)
Save(r) ==
  /\ req[r].stage = "save"
  /\ \/ transactions' = transactions \cup {req[r].id} /\ Goto(r, "create")
     \/ /\ DbFails /\ Answer(r, "error")
        /\ transactions' \in {transactions, transactions \cup {req[r].id}}
  /\ UNCHANGED <<record, used, crashes, sagaVars>>

(* orchestrator.Start, first half.  An error is logged and no more. *)
StartSaga(r) ==
  /\ req[r].stage = "create"
  /\ \/ CreateSaga(req[r].id, "VERIFY_IDENTITY") /\ Goto(r, "dispatch")
     \/ /\ DbFails /\ Goto(r, "remember")
        /\ UNCHANGED sagaVars \/ CreateSaga(req[r].id, "VERIFY_IDENTITY")
  /\ UNCHANGED <<record, transactions, used, crashes>>

(* orchestrator.Start, second half. *)
DispatchFirst(r) ==
  /\ req[r].stage = "dispatch"
  /\ Goto(r, "remember")
  /\ \/ AdvanceSaga(req[r].id, "IN_PROGRESS", "VERIFY_IDENTITY", "FORWARD")
     \/ DbFails /\ UNCHANGED sagaVars
  /\ UNCHANGED <<record, transactions, used, crashes>>

RecordKey(r) ==
  record' = [record EXCEPT ![req[r].key] = [body |-> req[r].body, id |-> req[r].id]]

(* A slip that the runs must catch: the later record replaces the earlier. *)
RememberReplaces(r) ==
  /\ req[r].stage = "remember" /\ RecordKey(r)
  /\ req' = [req EXCEPT ![r] = [@ EXCEPT !.stage = "reply", !.answer = "accepted"]]
  /\ UNCHANGED <<transactions, used, crashes, sagaVars>>

(* idempotency_key is UNIQUE: the insert fails when another request came    *)
(* first, and every failure is answered 409.                                *)
Remember(r) ==
  /\ req[r].stage = "remember"
  /\ \/ /\ record[req[r].key] = None /\ RecordKey(r)
        /\ req' = [req EXCEPT ![r] = [@ EXCEPT !.stage = "reply", !.answer = "accepted"]]
     \/ /\ record[req[r].key] # None \/ DbFails
        /\ Answer(r, "conflict") /\ UNCHANGED record
     \/ /\ DbFails /\ record[req[r].key] = None /\ RecordKey(r)
        /\ Answer(r, "conflict")
  /\ UNCHANGED <<transactions, used, crashes, sagaVars>>

Reply(r) ==
  /\ req[r].stage = "reply" /\ Goto(r, "answered")
  /\ UNCHANGED <<record, transactions, used, crashes, sagaVars>>

Underway == {"lookup", "save", "create", "dispatch", "remember", "reply"}

(* The process dies; the requests under way get no answer. *)
Crash ==
  /\ crashes < MaxCrashes /\ crashes' = crashes + 1
  /\ req' = [r \in Reqs |-> IF req[r].stage \in Underway
                            THEN [req[r] EXCEPT !.stage = "lost"] ELSE req[r]]
  /\ UNCHANGED <<record, transactions, used, sagaVars>>

Handle(r) ==
  Repeat(r) \/ Begin(r) \/ Save(r) \/ StartSaga(r) \/ DispatchFirst(r) \/ Remember(r) \/ Reply(r)

Next ==
  \/ \E r \in Reqs, k \in Keys, b \in Bodies : Send(r, k, b)
  \/ \E r \in Reqs : Handle(r)
  \/ Crash

Spec == Init /\ [][Next]_allVars

-----------------------------------------------------------------------------

TypeOK ==
  /\ SagaTypeOK
  /\ req \in [Reqs -> Requests]
  /\ record \in [Keys -> Records \cup {None}]
  /\ transactions \subseteq used /\ used \subseteq Ids
  /\ crashes \in Nat

Accepted == {r \in Reqs : req[r].stage = "answered" /\ req[r].answer = "accepted"}

(* All clients that were told "accepted" for one key were told the same     *)
(* tracking id and had sent the same payload: through concurrent requests,  *)
(* lookups that failed, lost answers and crashes.                           *)
SameAnswer ==
  \A r, s \in Accepted : req[r].key = req[s].key =>
    req[r].id = req[s].id /\ req[r].body = req[s].body

(* What was accepted is stored: the tracking id belongs to a transaction,   *)
(* and the key's record will give the same answer again.                    *)
AcceptedIsStored ==
  \A r \in Accepted : /\ req[r].id \in transactions
                      /\ record[req[r].key] = [body |-> req[r].body, id |-> req[r].id]

(* Other services are only told of transactions that exist: a saga, and its *)
(* command, always has its transaction, and a command its saga.             *)
SagaHasTransaction ==
  /\ \A i \in Ids : saga[i] # NoSaga => i \in transactions
  /\ \A c \in commands : saga[c.id].status = "IN_PROGRESS"

AcceptedReplies ==
  {[key |-> req[r].key, body |-> req[r].body, id |-> req[r].id] : r \in Accepted}

Endpoint == INSTANCE IdempotentEndpoint
  WITH Unbound <- None, bound <- record, replies <- AcceptedReplies

(* The handler implements the endpoint's promise. *)
ImplementsEndpoint == Endpoint!EndpointSpec

=============================================================================
