------------------------------ MODULE Lifecycle ------------------------------
(***************************************************************************)
(* The life of an onboarding transaction: the table, its four kinds of     *)
(* writers running side by side, the provider, and the crash of the        *)
(* process, which loses what the writers had in hand and keeps the table.  *)
(***************************************************************************)
EXTENDS Polling, RetryScheduler, Webhook, Reconciliation

CONSTANT MaxCrashes  \* bound on the number of crashes

ASSUME CrashAssumption == MaxCrashes \in Nat

VARIABLE crashes

vars == <<tableVars, providerVars, pollVars, retryVars, hookVars, reconVars, crashes>>

Init ==
  /\ TransactionsInit
  /\ PollInit /\ RetryInit /\ HookInit /\ ReconInit
  /\ crashes = 0

-----------------------------------------------------------------------------

Poller(r) == PollRun(r) /\ UNCHANGED <<retryVars, hookVars, reconVars, crashes>>

Retrier(r) == RetryRun(r) /\ UNCHANGED <<pollVars, hookVars, reconVars, crashes>>

Callback(h) == HookRun(h) /\ UNCHANGED <<pollVars, retryVars, reconVars, crashes>>

Reconciler(r) == ReconRun(r) /\ UNCHANGED <<pollVars, retryVars, hookVars, crashes>>

Onboard(t) == Save(t) /\ UNCHANGED <<pollVars, retryVars, hookVars, reconVars, crashes>>

Clock(A) == A /\ UNCHANGED <<pollVars, retryVars, hookVars, reconVars, crashes>>

ProviderDecides(e) ==
  Decide(e) /\ UNCHANGED <<tableVars, pollVars, retryVars, hookVars, reconVars, crashes>>

ProviderPosts(e, x) ==
  Post(e, x) /\ UNCHANGED <<pollVars, retryVars, reconVars, crashes>>

(* The process dies and is started again: main.go builds every service      *)
(* anew and no work in hand survives.                                       *)
Crash ==
  /\ crashes < MaxCrashes
  /\ crashes' = crashes + 1
  /\ pollTodo' = [r \in PollRuns |-> {}] /\ pollAnswer' = [r \in PollRuns |-> {}]
  /\ reconTodo' = [r \in ReconRuns |-> {}] /\ reconJob' = [r \in ReconRuns |-> {}]
  /\ retryTodo' = [r \in RetryRuns |-> {}] /\ retryJob' = [r \in RetryRuns |-> {}]
  /\ hookJob' = [h \in Hooks |-> {}]
  /\ UNCHANGED <<tableVars, providerVars, retryAudit, submits, posted, webhookAudit,
                 applied, reconResults, reconExceptions>>

Next ==
  \/ \E t \in Tx : Onboard(t) \/ Clock(TimePasses(t))
  \/ \E e \in Ext : ProviderDecides(e)
  \/ \E e \in Events, x \in Ext : ProviderPosts(e, x)
  \/ \E r \in PollRuns : Poller(r)
  \/ \E r \in RetryRuns : Retrier(r)
  \/ \E h \in Hooks : Callback(h)
  \/ \E r \in ReconRuns : Reconciler(r)
  \/ Crash

Spec == Init /\ [][Next]_vars

(* The cron starts runs for ever and every call of a run returns: database  *)
(* statements end and the provider client times out after ten seconds.      *)
(* Time passes for every row on its own.  Nothing is assumed of the         *)
(* provider, of its callbacks, or of the clock that only reconciliation     *)
(* watches.                                                                 *)
Fairness ==
  /\ \A r \in PollRuns : WF_vars(Poller(r))
  /\ \A r \in RetryRuns : WF_vars(Retrier(r))
  /\ \A r \in ReconRuns : WF_vars(Reconciler(r))
  /\ \A t \in Tx : /\ WF_vars(Clock(PollTimeArrives(t)))
                   /\ WF_vars(Clock(RetryTimeArrives(t)))
                   /\ WF_vars(Clock(Ages(t)))

FairSpec == Spec /\ Fairness

-----------------------------------------------------------------------------

(* Every variable keeps to the values the code can give it; in particular   *)
(* retry_count never passes the maximum.                                    *)
TypeOK ==
  /\ ProviderTypeOK /\ TableTypeOK
  /\ PollTypeOK /\ RetryTypeOK /\ HookTypeOK /\ ReconTypeOK
  /\ crashes \in Nat

Approved(t) == \E e \in Ext : submittedFor[e] = t /\ verdict[e] = "approved"

TurnedDown(t) ==
  t \in refused \/ \E e \in Ext : submittedFor[e] = t /\ verdict[e] = "rejected"

Justified(t, s) ==
  /\ s = "COMPLETED" => Approved(t)
  /\ s = "FAILED" => TurnedDown(t)

(* A transaction is COMPLETED only if the provider approved, and FAILED     *)
(* only if it rejected or refused, a submission made for that transaction;  *)
(* the same goes for every status announced through the outbox.  This has   *)
(* to survive answers stored long after they were given, callbacks for old  *)
(* requests and retries that replace the request id.                        *)
FinalIsJustified ==
  /\ \A t \in Tx : Justified(t, row[t].status)
  /\ \A o \in outbox : Justified(o.tx, o.status)

(* A transaction times out only after 72 hours or after the last attempt.   *)
TimeoutIsJustified ==
  \A t \in Tx : row[t].status = "TIMEOUT" => t \in aged \/ row[t].retries = MaxRetries

(* A row the poller, the webhook or reconciliation may work on carries the  *)
(* id of a request the provider took in for this very transaction, so that  *)
(* it can be asked about and no other row answers to the same id.           *)
TrackedAtProvider ==
  \A t \in Tx :
    /\ row[t].status \in {"ACCEPTED", "PROCESSING", "COMPLETED"} => row[t].ext # NoExt
    /\ row[t].ext # NoExt => submittedFor[row[t].ext] = t

(* However often an event is delivered, and to however many goroutines at   *)
(* once, its update is made at most once: two deliveries never carry the    *)
(* same event past the audit, nor does one carry an event already applied.  *)
WebhookAppliedOnce ==
  \A h \in Hooks : \A j \in hookJob[h] :
    /\ j.event \notin applied
    /\ \A g \in Hooks \ {h} : \A k \in hookJob[g] : k.event # j.event

(* A reconciliation result AUTO_CORRECTED is recorded only for a correction *)
(* that was made, from the status compared to the one the provider reports. *)
CorrectionIsReal ==
  \A x \in reconResults : x.result = "AUTO_CORRECTED" =>
    \E a \in audit : a.tx = x.tx /\ a.old = x.internal /\ a.new = HealTarget(x.external)

AnsweredTwice(t) ==
  t \in refused \/ \E d, e \in Ext : d # e /\ submittedFor[d] = t /\ submittedFor[e] = t

(* Reconciliation decides on a row it has read long before, and its update  *)
(* does not look at the status it replaces.  It never reverses a decision   *)
(* stored in the meantime, unless the transaction was submitted twice and   *)
(* the provider gave two answers.                                           *)
HealingReversesNothing ==
  \A a \in audit :
    a.was \in {"COMPLETED", "FAILED"} /\ a.new # a.was => AnsweredTwice(a.tx)

(* One transaction is submitted at most MaxRetries times by the scheduler.  *)
SubmitsBounded == \A t \in Tx : submits[t] <= MaxRetries

-----------------------------------------------------------------------------

(* Some worker has read the row of t and has not finished with it. *)
InHand(t) ==
  \/ \E r \in PollRuns : \E x \in pollTodo[r] \cup pollAnswer[r] : x.tx = t
  \/ \E r \in RetryRuns : \E x \in retryTodo[r] \cup retryJob[r] : x.tx = t
  \/ \E h \in Hooks : \E j \in hookJob[h] : j.tx = t
  \/ \E r \in ReconRuns : \E x \in reconTodo[r] \cup reconJob[r] : x.tx = t

(* Once a transaction is COMPLETED or FAILED and no worker still holds an   *)
(* older reading of it, it keeps that status and no worker picks it up      *)
(* again: only a stale reading can undo a decision.                         *)
SettledStaysSettled ==
  [][\A t \in Tx : row[t].status \in {"COMPLETED", "FAILED"} /\ ~InHand(t) =>
       row'[t].status = row[t].status /\ ~InHand(t)']_vars

(* A transaction still RECEIVED belongs to onboarding: the schedulers, the  *)
(* callbacks and reconciliation, which work on the same table, never change *)
(* its status.  (Onboarding does not either, see ReceivedMovesOn.)          *)
ReceivedKept ==
  [][\A t \in Tx : row[t].status = "RECEIVED" => row'[t].status = "RECEIVED"]_vars

(* A transaction taken in by the provider reaches a terminal status, even   *)
(* if the provider never answers.                                           *)
PollingConcludes ==
  \A t \in Tx : row[t].status \in {"ACCEPTED", "PROCESSING"} ~> IsTerminal(row[t].status)

(* A transaction waiting for a retry is submitted, failed or timed out.     *)
RetriesConclude ==
  \A t \in Tx : row[t].status \in {"RETRY_PENDING", "RETRYING"} ~>
                  row[t].status \in {"ACCEPTED", "FAILED", "TIMEOUT"}

-----------------------------------------------------------------------------
(* What comments of the code say and the code does not keep. *)

(* statemachine.go: "Protect Terminal States". *)
TerminalProtected ==
  [][\A t \in Tx : IsTerminal(row[t].status) => row'[t].status = row[t].status]_vars

(* handlers/merchant.go: the answer ACCEPTED_FOR_PROCESSING, after which    *)
(* background work takes the transaction on.                                *)
ReceivedMovesOn ==
  \A t \in Tx : row[t].status = "RECEIVED" ~> row[t].status # "RECEIVED"

=============================================================================
