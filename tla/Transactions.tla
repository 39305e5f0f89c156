---------------------------- MODULE Transactions ----------------------------
(***************************************************************************)
(* The table "transactions" with the statements of                         *)
(* internal/repository/merchant.go that write it, and the transition table *)
(* of internal/statemachine.  Every statement is one atomic step; the      *)
(* workers that issue them are modelled in Polling, RetryScheduler,        *)
(* Webhook and Reconciliation.                                             *)
(*                                                                         *)
(* Timestamps are kept only as far as a query tells them apart: a due time *)
(* is null, still ahead ("later") or passed ("due"); created_at shows only *)
(* in whether the row is older than 72 hours, updated_at only in whether   *)
(* the row has been left alone for 30 minutes.                             *)
(***************************************************************************)
EXTENDS Naturals, Provider

CONSTANTS
  MaxRetries, \* attempts after which the retry scheduler gives up (5)
  DbFails     \* TRUE: a statement may fail and have no effect

ASSUME RetryAssumption == MaxRetries \in Nat \ {0}
ASSUME DbAssumption == DbFails \in BOOLEAN

VARIABLES
  row,    \* the row of each transaction
  aged,   \* transactions created more than 72 hours ago
  quiet,  \* transactions whose updated_at is more than 30 minutes old
  audit,  \* rows of transaction_state_audit; "was" is the status replaced
  outbox  \* transaction events put into outbox_event

tableVars == <<row, aged, quiet, audit, outbox>>

Absent == "ABSENT"  \* no such row

Statuses == {"RECEIVED", "ACCEPTED", "PROCESSING", "COMPLETED", "FAILED",
             "TIMEOUT", "RETRYING", "RETRY_PENDING"}

When == {"null", "later", "due"}

Rows == [status : Statuses \cup {Absent}, ext : Ext \cup {NoExt},
         retries : 0..MaxRetries, nextRetry : When, nextPoll : When,
         completed : BOOLEAN]

AuditRows == [tx : Tx, old : Statuses, new : Statuses, was : Statuses \cup {Absent}]

OutboxRows == [tx : Tx, type : {"created", "changed"}, status : Statuses]

TableTypeOK ==
  /\ row \in [Tx -> Rows]
  /\ aged \subseteq Tx
  /\ quiet \subseteq Tx
  /\ audit \subseteq AuditRows
  /\ outbox \subseteq OutboxRows

-----------------------------------------------------------------------------
(* The state machine's rules. *)

Transitions == [s \in Statuses |->
  CASE s = "RECEIVED"      -> {"ACCEPTED", "FAILED", "RETRY_PENDING"}
    [] s = "ACCEPTED"      -> {"PROCESSING"}
    [] s = "PROCESSING"    -> {"COMPLETED", "FAILED", "RETRY_PENDING"}
    [] s = "RETRY_PENDING" -> {"RETRYING"}
    [] s = "RETRYING"      -> {"ACCEPTED", "FAILED", "TIMEOUT"}
    [] OTHER               -> {}]

IsTerminal(s) == s \in {"COMPLETED", "FAILED", "TIMEOUT"}

MayTransition(current, next) ==
  ~IsTerminal(current) /\ next \in Transitions[current]

(* A slip the runs must catch: every other word taken for a rejection. *)
MapDefaultFails(w) == IF w = "APPROVED" THEN "COMPLETED" ELSE "FAILED"

(* A provider's word as the poller and the webhook handler read it. *)
MapProviderStatus(w) ==
  CASE w = "APPROVED" -> "COMPLETED"
    [] w = "REJECTED" -> "FAILED"
    [] OTHER          -> "PROCESSING"

-----------------------------------------------------------------------------
(* Statements on the table. *)

(* Every UPDATE sets updated_at, so the row stops being quiet. *)
Put(t, r) ==
  /\ row' = [row EXCEPT ![t] = r]
  /\ quiet' = quiet \ {t}

(* The statement fails and changes nothing. *)
DbError == DbFails /\ UNCHANGED <<row, quiet>>

UpdatePollingStatus(t, s, nextPoll, completed) ==
  Put(t, [row[t] EXCEPT !.status = s, !.nextPoll = nextPoll, !.completed = completed])

UpdateWebhookStatus(t, s, completed) ==
  Put(t, [row[t] EXCEPT !.status = s, !.completed = completed])

UpdateProviderDetails(t, e, s) ==
  Put(t, [row[t] EXCEPT !.ext = e, !.status = s])

MarkForRetry(t, s, n, nextRetry) ==
  Put(t, [row[t] EXCEPT !.status = s, !.retries = n, !.nextRetry = nextRetry])

(* StateMachine.Transition once its guards hold: status, audit row and      *)
(* outbox event in one database transaction.  The UPDATE does not look at   *)
(* the status it replaces; the audit row records the caller's idea of it.   *)
UpdateStateAndAudit(t, old, new) ==
  /\ Put(t, [row[t] EXCEPT !.status = new])
  /\ audit' = audit \cup {[tx |-> t, old |-> old, new |-> new, was |-> row[t].status]}
  /\ outbox' = outbox \cup {[tx |-> t, type |-> "changed", status |-> new]}

(* Onboarding stores a new transaction and its event in one transaction. *)
Save(t) ==
  /\ row[t].status = Absent
  /\ Put(t, [row[t] EXCEPT !.status = "RECEIVED"])
  /\ outbox' = outbox \cup {[tx |-> t, type |-> "created", status |-> "RECEIVED"]}
  /\ UNCHANGED <<aged, audit, providerVars>>

-----------------------------------------------------------------------------
(* Time passes. *)

PollTimeArrives(t) ==
  /\ row[t].nextPoll = "later"
  /\ row' = [row EXCEPT ![t].nextPoll = "due"]
  /\ UNCHANGED <<aged, quiet, audit, outbox, providerVars>>

RetryTimeArrives(t) ==
  /\ row[t].nextRetry = "later"
  /\ row' = [row EXCEPT ![t].nextRetry = "due"]
  /\ UNCHANGED <<aged, quiet, audit, outbox, providerVars>>

Ages(t) ==
  /\ row[t].status # Absent /\ t \notin aged
  /\ aged' = aged \cup {t}
  /\ UNCHANGED <<row, quiet, audit, outbox, providerVars>>

(* Only a row the reconciliation query could select is worth tracking. *)
GoesQuiet(t) ==
  /\ row[t].status \in {"ACCEPTED", "PROCESSING"} /\ t \notin quiet
  /\ quiet' = quiet \cup {t}
  /\ UNCHANGED <<row, aged, audit, outbox, providerVars>>

TimePasses(t) ==
  PollTimeArrives(t) \/ RetryTimeArrives(t) \/ Ages(t) \/ GoesQuiet(t)

-----------------------------------------------------------------------------

NoRow == [status |-> Absent, ext |-> NoExt, retries |-> 0,
          nextRetry |-> "null", nextPoll |-> "null", completed |-> FALSE]

(* The table outlives the process.  Onboarding now leaves every transaction *)
(* in RECEIVED, so the schedulers work on rows written before: accepted by  *)
(* the provider under some request id, or waiting for a first retry.        *)
StartRows ==
  {NoRow, [NoRow EXCEPT !.status = "RETRY_PENDING", !.nextRetry = "later"]}
    \cup {[NoRow EXCEPT !.status = "ACCEPTED", !.ext = e] : e \in Ext}

TransactionsInit ==
  /\ row \in [Tx -> StartRows]
  /\ submittedFor \in [Ext -> Tx \cup {NoTx}]
  /\ \A t \in Tx : row[t].ext # NoExt => submittedFor[row[t].ext] = t
  /\ \A e \in Ext : submittedFor[e] # NoTx => row[submittedFor[e]].ext = e
  /\ verdict = [e \in Ext |-> IF submittedFor[e] = NoTx THEN "unused" ELSE "pending"]
  /\ refused = {} /\ aged = {} /\ quiet = {} /\ audit = {} /\ outbox = {}

=============================================================================
