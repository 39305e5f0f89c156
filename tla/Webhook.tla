------------------------------- MODULE Webhook -------------------------------
(***************************************************************************)
(* internal/handlers/webhook.go: the provider posts the status of a        *)
(* request, as often and as late as it likes; each delivery is handled in  *)
(* a goroutine of its own that first inserts the event id into             *)
(* webhook_audit, then looks the transaction up by its request id, then    *)
(* updates it.  Deliveries that end before the insert (unreadable body,    *)
(* bad signature, bad JSON, event id already there, failed insert) change  *)
(* nothing and are not steps of the model.                                 *)
(***************************************************************************)
EXTENDS Transactions

CONSTANTS
  Events, \* event ids the provider uses
  Hooks   \* deliveries handled at the same time

VARIABLES
  posted,       \* [event, ext, word] records the provider has posted
  webhookAudit, \* event ids in webhook_audit
  hookJob,      \* the delivery a goroutine is busy with (at most one)
  applied       \* events whose update reached the table

hookVars == <<posted, webhookAudit, hookJob, applied>>

Posts == [event : Events, ext : Ext, word : Words]

(* tx is NoTx until the transaction has been looked up. *)
HookJobs == [event : Events, ext : Ext, word : Words, tx : Tx \cup {NoTx}]

HookTypeOK ==
  /\ posted \subseteq Posts
  /\ webhookAudit \subseteq Events
  /\ hookJob \in [Hooks -> SUBSET HookJobs]
  /\ applied \subseteq Events

HookInit ==
  /\ posted = {} /\ webhookAudit = {} /\ applied = {}
  /\ hookJob = [h \in Hooks |-> {}]

-----------------------------------------------------------------------------

(* The provider reports the present state of request x as event e. *)
Post(e, x) ==
  /\ \A p \in posted : p.event # e
  /\ \E w \in Answers(x) : posted' = posted \cup {[event |-> e, ext |-> x, word |-> w]}
  /\ UNCHANGED <<webhookAudit, hookJob, applied, tableVars, providerVars>>

(* A slip the runs must catch: an audit that takes an event twice. *)
HookReceiveUnchecked(h, p) ==
  /\ hookJob[h] = {}
  /\ webhookAudit' = webhookAudit \cup {p.event}
  /\ hookJob' = [hookJob EXCEPT ![h] =
       {[event |-> p.event, ext |-> p.ext, word |-> p.word, tx |-> NoTx]}]
  /\ UNCHANGED <<posted, applied, tableVars, providerVars>>

(* SaveWebhookAudit succeeds: event_id is UNIQUE, so only once per event. *)
HookReceive(h, p) ==
  /\ hookJob[h] = {}
  /\ p.event \notin webhookAudit
  /\ webhookAudit' = webhookAudit \cup {p.event}
  /\ hookJob' = [hookJob EXCEPT ![h] =
       {[event |-> p.event, ext |-> p.ext, word |-> p.word, tx |-> NoTx]}]
  /\ UNCHANGED <<posted, applied, tableVars, providerVars>>

(* The transaction is looked up, and is not COMPLETED or FAILED.            *)
HookFind(h, t) ==
  \E j \in hookJob[h] :
    /\ j.tx = NoTx /\ row[t].ext = j.ext
    /\ row[t].status \notin {"COMPLETED", "FAILED"}
    /\ hookJob' = [hookJob EXCEPT ![h] = {[j EXCEPT !.tx = t]}]
    /\ UNCHANGED <<posted, webhookAudit, applied, tableVars, providerVars>>

(* No row has the request id, the row is final, or the query fails: the     *)
(* delivery is answered 200 and over.                                       *)
HookDismiss(h) ==
  \E j \in hookJob[h] :
    /\ j.tx = NoTx
    /\ \/ \A t \in Tx : row[t].ext # j.ext
       \/ \E t \in Tx : row[t].ext = j.ext /\ row[t].status \in {"COMPLETED", "FAILED"}
       \/ DbFails
    /\ hookJob' = [hookJob EXCEPT ![h] = {}]
    /\ UNCHANGED <<posted, webhookAudit, applied, tableVars, providerVars>>

HookWrite(h) ==
  \E j \in hookJob[h] :
    LET s == MapProviderStatus(j.word) IN
    /\ j.tx # NoTx
    /\ \/ /\ UpdateWebhookStatus(j.tx, s, s \in {"COMPLETED", "FAILED"})
          /\ applied' = applied \cup {j.event}
       \/ DbError /\ UNCHANGED applied
    /\ hookJob' = [hookJob EXCEPT ![h] = {}]
    /\ UNCHANGED <<posted, webhookAudit, aged, audit, outbox, providerVars>>

HookRun(h) ==
  \/ \E p \in posted : HookReceive(h, p)
  \/ \E t \in Tx : HookFind(h, t)
  \/ HookDismiss(h)
  \/ HookWrite(h)

=============================================================================
