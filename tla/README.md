# TLA+ model of the merchant onboarding service

A Go service that takes merchant onboarding requests over HTTP, has them decided by an
external provider, tells the rest of the company through Kafka, keeps a double-entry ledger
and pays merchants out. All durable state is in PostgreSQL; one process runs the HTTP
handlers, five cron jobs and a Kafka consumer side by side (`src/cmd/app/main.go`). The
repository has no tests, and everything difficult in it happens between two SQL statements of
different goroutines. This directory models that.

## 1. Inventory

| Part | Source (`src/internal/`) | State | Operations |
|---|---|---|---|
| Onboarding endpoint | `handlers/merchant.go`, `repository/idempotency.go` | `idempotency_record`, `transactions`, `outbox_event` | `POST /onboard` (lookup, save, start saga, store the idempotency record, answer), `GET /transactions/:id` (reads only) |
| Transactions table, state machine | `repository/merchant.go`, `statemachine/` | `transactions`, `transaction_state_audit`, `outbox_event` | ten statements; `Transition` |
| Polling engine | `scheduler/poller.go` | rows read by a run, an answer not yet stored | every 5 minutes: fetch due rows, expire after 72 h, ask the provider, store |
| Retry scheduler | `scheduler/retry.go` | rows read by a run, a submission under way; `retry_audit` | every minute: mark RETRYING, submit again, store the outcome, audit |
| Webhook handler | `handlers/webhook.go` | `webhook_audit`, deliveries under way | per callback: audit insert, lookup, update |
| Reconciliation | `scheduler/reconciliation.go`, `repository/reconciliation.go` | rows read by a run; `reconciliation_result`, `reconciliation_exception` | every hour: fetch stuck rows, ask the provider, compare, heal through the state machine |
| Provider client | `client/provider.go` | none | `Submit`, `GetStatus`, 10 s timeout |
| Saga orchestrator | `saga/orchestrator.go`, `repository/saga.go` | `saga_instance`, `saga_audit`, commands in `outbox_event` | `Start`; `OnStepSuccess` and `OnStepFailed`, which nothing calls |
| Outbox publisher | `scheduler/outbox.go`, `messaging/kafka.go` | rows read by a run | publish PENDING events, mark PUBLISHED |
| Kafka consumer | `messaging/consumer.go` | `processing_ledger` | deduplicate, charge the onboarding fee |
| Ledger | `ledger/` | `journal_entry`, `ledger_entry`, `account_balance` | `Post`, `PostJournal` |
| Settlement engine | `scheduler/settlement.go`, `repository/settlement.go`, `client/bank.go` | `settlement_batch`, `settlement_exception` | read payable balances, compute shares, post, pay |

How they interact: only through tables and the provider. Onboarding writes `transactions`; the
poller, the retry scheduler, the webhook and reconciliation read and overwrite its rows; the
state machine and the saga put events in `outbox_event`, which the publisher sends to Kafka and
the consumer turns into ledger postings; settlement empties ledger balances.

What is hard:

* **Interleaving and stale state.** A worker reads a row, calls the provider for up to ten
  seconds and writes the row back without looking again. `FOR UPDATE SKIP LOCKED` runs outside
  a transaction, so it locks nothing; `robfig/cron` starts a run while the last one is busy.
* **Partial failure.** Most database errors are dropped or logged. A submission may be taken in
  and its answer lost.
* **Crashes** between two statements that belong together.
* **Duplicated and late callbacks**, and callbacks for a request the row has left behind.
* **Two vocabularies**: the poller and the webhook understand `APPROVED`/`REJECTED`,
  reconciliation `SUCCESS`/`FAILED`, of the same provider.
* **Limits**: five retries, 72 hours, amounts that round to zero, int64.

What makes each part correct: an idempotency key has one answer for ever; a final status has a
decision of the provider behind it; a callback is applied once; retries end; every transaction
ends; a recorded correction was made; what Kafka is told is true; the ledger balances and a
balance is paid once. PROJECT.json lists the hazards line by line.

## 2. Plan

1. *(done)* The life of a transaction: `Provider`, `Transactions`, the four writers, composed
   by `Lifecycle`; its safety proved.
2. *(done)* The onboarding endpoint, with the abstract `IdempotentEndpoint` it implements;
   both proved.
3. *(done)* `EventPipeline`: outbox publisher, Kafka topic, consumer with the processing
   ledger, under overlapping publishers, failed publishes, crashes; its safety proved.
4. *(done)* `Ledger` (postings entry by entry under row locks, shown to implement the
   abstract `AtomicLedger`) and `Settlement` on top of it, with overlapping runs and crashes;
   `Amounts` for the int64 arithmetic.
5. *(dropped)* The saga's `OnStepSuccess` and `OnStepFailed`: nothing calls them.
6. *(done)* Proofs about `Settlement`: types, `PaidIsBooked`, `StatusTellsTruth`, the refinement
   of `AtomicLedger`, `NoWaitCycle`, `OverdrawnOnlyByOverlap`; about `Amounts`: the shares add up.
7. *(done)* What findings leave standing, proved: the debits match the credits (sums over the
   accounts), the limit of submissions without overlap, RECEIVED for ever, the fees that faults can
   cause; `OrderedDelivery`, which `EventPipeline` implements.
8. An abstract specification of a transaction that `Lifecycle` implements as long as no stale
   answer is stored; the contents of the retried payload.

## 3. Modules

`Provider` is external and modelled from its client: a submission gets a fresh request id and
is decided once, a status query is answered with some word for the decision. Which words is a
constant; `VocabularyAssumption` only says the provider does not word an approval as a failure
or the reverse. The runs let it use both vocabularies.

`Transactions` has the table with one operator per statement of `repository/merchant.go`, and
the state machine's table. `row[t]` is a row; a due time is `null`, `later` or `due`; `aged` holds
rows older than 72 hours, `quiet` those not updated for 30 minutes. A statement is atomic, and
with `DbFails` it may fail. A statement that is carried out and reported failed needs no case of
its own here: the workers log the error and go on as after success, or stop, which the
model has as the success followed by a failure of the next statement. Start states have the rows
an earlier release left behind (accepted under some request id, or waiting for a first retry),
since the present endpoint leaves every transaction in RECEIVED.

`Polling`, `RetryScheduler`, `Webhook`, `Reconciliation` model one worker each, a step per
statement or call, in the order of the code:

| Module | Steps | Lines |
|---|---|---|
| `Polling` | `PollFetch`; per row `PollExpire`, `PollSkip` or `PollAsk`; `PollWrite` | `poller.go:44-89` |
| `RetryScheduler` | `RetryFetch`; per row `RetryMark`, `RetrySubmit`, `RetryRecord`, `SaveRetryAudit` | `retry.go:61-111` |
| `Webhook` | `HookReceive` (audit insert), `HookFind` or `HookDismiss`, `HookWrite` | `webhook.go:61-98` |
| `Reconciliation` | `ReconFetch`; per row `ReconSkip` or `ReconAsk`; `ReconMatch`, `ReconHeal` or `ReconHealFails`, `ReconReview`; `ReconSaveHealed`, `SaveException` | `reconciliation.go:55-116` |

What a run has read is in its `...Todo`, the row it is busy with in its `...Job` or `...Answer`;
the distance between the two and the table is what the properties are about. The sets
`PollRuns`, `RetryRuns`, `ReconRuns` and `Hooks` say how many can be under way at once.

`Lifecycle` composes them with the clock, the provider and `Crash`, which empties all work in
hand and keeps the tables (external: no line of the code makes the process die, as none
fills in the start states). `LifecycleInvariant` states the inductive invariant; `LifecycleProofs`
and `SettledProofs` prove the theorems. `MCLifecycle` adds the symmetry set for TLC.

`SagaStore` has `saga_instance`, `saga_audit` and the commands. `Onboarding` models the handler of
`POST /onboard`: `Send`, then `Repeat` (known key) or `Begin`, `Save`, `StartSaga`, `DispatchFirst`,
`Remember`, `Reply`, each one statement, any number of requests at a time. A payload stands for
its hash. `IdempotentEndpoint` is what the handler promises; `Onboarding!ImplementsEndpoint` maps
`bound` to the idempotency records and `replies` to the 202 answers given. `OnboardingProofs`
holds the theorems, `MCOnboarding` the symmetry set.

`EventPipeline` follows one event from its outbox row to the ledger, a step per statement:

| Actor | Steps | Lines |
|---|---|---|
| publisher run | `PubQuery` (snapshot), `PubScan` or `PubScanFails` (one row of the query), per event `PubSend` (publish), `PubMark` (mark it) | `outbox.go:44-81`, `kafka.go:50-74`, `repository/merchant.go:292-325` |
| Kafka client | `Read` hands a message out and stores its offset, `AutoCommit` commits it later | `consumer.go:58-75` |
| consumer | `Record` (begin, insert or already processed), `Charge` (`ledger.Post`), `CommitRecord` | `consumer.go:101-145` |

`log[k]` holds the messages of one aggregate (one key, hence one partition). Events are numbered in
the order of `created_at`, which is `CURRENT_TIMESTAMP` and so the start of the transaction that
inserts the row (ties are left out); `Emit` makes rows visible in any order, as transactions commit in
any order. The query has `FOR UPDATE SKIP LOCKED` and no transaction around it, so a run's locks last
as long as its query: not until the rows are published, but long enough for another run's query to
meet them. So a query is not one step. `PubQuery` takes the snapshot, `seen`; `PubScan` comes to
one row after the other, oldest first, and either skips it as locked by another query, or passes over
it as being marked or marked since (its message has arrived), or locks it. Two queries at once can therefore split the PENDING rows in any way.
`phase[r]` says where a run is; a query that has found its rows (`"found"`) may still hold its locks
for a moment (`MayHold`), so another one may or may not skip them. `PubSend` has three outcomes:
delivered, failed, and delivered but reported failed; after the latter two the run goes on to the next
event. `overtakable` records the events newer ones may reach Kafka before: their row appeared after
a newer one of their aggregate, a query left it to another query, or a publish reported failed.

`Crash` empties the runs and the open transaction and takes the consumer back to the committed
offset. Modelled from their use: the topic and the client's background commit. What the producer
repeats by itself looks like a publish of doubtful outcome. `ledger.Post` is a single step with three
outcomes here, which `Settlement!ImplementsAtomicLedger` justifies.

`OrderedDelivery` is what the services downstream may count on, without runs, locks, offsets and
crashes: of each aggregate, an event reaches the topic after all older ones but the overtakable, and
events are processed in the order in which they reached it, but for lost deliveries.
`EventPipeline!ImplementsDelivery` maps `topic` to `log`, `lost` to `dropped` and the rest by name.

`Amounts` has the int64 arithmetic (`Wrap` comes round at the end of the range, `Quot` truncates
towards zero), the shares of a settlement, and the two entry lists the program posts.

`Ledger` is `Post` and `PostJournal`: `Post` checks the entries and inserts the journal,
`WriteEntry` inserts an entry and upserts a balance, keeping its row in `holder` and the new
value in `draft`, `Commit` publishes. `WriteFails` is a failing statement: an account nobody
opened, a balance beyond BIGINT, or an error. `AtomicLedger` is what users of the ledger may
count on: a journal is booked whole, and every balance is moved by just that. The mapping is
by name (`booked`, `balance`): only `Commit` is a step of the abstract ledger.

`Settlement` adds the engine: `SettleFetch`, then per merchant `SettleNext` (batch row),
`SettlePost` and the ledger's steps, `SettleTransfer` or `SettleRefused`, `SettleComplete`,
`SettleRetryPending`, `LogException` (`scheduler/settlement.go:52-126`). The consumer posts its fee
beside it (`PostFee`, `FeePosted`), entry by entry. `BankFails` is the rule of `client/bank.go`: a net
amount ending in 99 is answered "status unknown", and may have been paid. External: `Earn`,
by which other services book what a merchant is owed, since no code here does. `Crash` may
come at any time and any number of times. `transfers` has a record of its own for every call of the
bank that paid, numbered per batch (`call`), so that a second payment of a batch would show.

Operators whose comment calls them slips are the mutated forms the properties were tried
against; no specification uses them.

## 4. Runs

| Run | Instance | Shows |
|---|---|---|
| `writers` | 1 transaction, 1 request, 1 poll run, 1 reconciliation run, 2 webhook goroutines, 1 event, failing statements, 1 crash | `FinalIsJustified`, `WebhookAppliedOnce`, `CorrectionIsReal`, `HealingReversesNothing`, `SettledStaysSettled`, and the inductive invariant `IInv` |
| `retry_overlap` | 1 transaction, 2 requests, 2 retry runs, limit 2, failing statements, 1 crash | `TypeOK`, `TimeoutIsJustified`, `TrackedAtProvider` |
| `conclude` | 1 transaction, 2 requests, a poll run, a retry run, 2 webhook goroutines, limit 2 | `PollingConcludes`, `RetriesConclude`, `SubmitsBounded`, `ReceivedKept` |
| `onboarding` | 3 requests, 2 keys, 3 payloads (one not JSON), 3 tracking ids, failing statements, 1 crash | `TypeOK`, `SameAnswer`, `AcceptedIsStored`, `SagaHasTransaction`, `ImplementsEndpoint` |
| `terminal_overwritten` | poll run and webhook | violated: `TerminalProtected` |
| `received_stays` | all workers, fairness | violated: `ReceivedMovesOn` |
| `retry_bound_overlap` | 2 retry runs, limit 5 as in the code | violated: `SubmitsBounded` |
| `overtaken` | 2 events of one aggregate whose rows appear in order, 1 publisher run, 1 fault | violated: `OrderPerKey` |
| `events` | 2 events of one aggregate whose rows appear in either order, 2 publisher runs whose queries split the rows in any way, limit 2, 1 fault (failing statement, query cut short, failed or doubtful publish, crash), fairness | `TypeOK`, `PublishedIsInLog`, `KeyOrderKept`, `ChargedWithRecord`, `FeesBoundedByFaults`, `PassedIsHandled`, `ImplementsDelivery`, `EventuallyPublished`, `EventuallyProcessed` |
| `settlement` | 2 merchants, 2 settlement runs, the consumer with a fee, 2 batches, 2 earnings of 339 or 400 paise, failing statements, crashes | `TypeOK`, `PaidIsBooked`, `StatusTellsTruth`, `LedgerBalances`, `NoWaitCycle`, `OverdrawnOnlyByOverlap`, `ImplementsAtomicLedger` |
| `settled_twice` | 2 settlement runs, nothing fails | violated: `PayableZeroedOut` |
| `charged_twice` | 1 event, 1 publisher run, 1 fault | violated: `ChargedAtMostOnce` |

Six runs are disagreements between a comment and the code:

* `statemachine.go:57` says "Protect Terminal States" of COMPLETED, FAILED and TIMEOUT. Only
  reconciliation goes through the state machine, and `webhook.go:79` does not count TIMEOUT among the
  final statuses. In the run, a row is older than 72 hours, the provider posts a callback while it is
  still undecided, the poll run stores TIMEOUT, and the callback stores PROCESSING over it. What
  survives is `FinalIsJustified` (a final status is never invented) and `SettledStaysSettled` (once
  no worker holds an old reading, nothing changes it).
* `handlers/merchant.go:137-138`: the request is accepted for processing and "the Saga does the
  heavy lifting", but no scheduler selects RECEIVED and nothing consumes the saga's replies. The
  theorem `ReceivedForever` makes this general: no step whatever takes a transaction out of RECEIVED.
* `retry.go:92-94` gives up at five attempts. Overlapping runs write back the `retry_count` they
  had read, so the count can go down and there is a sixth submission. (The count itself never
  passes the limit: `TypeOK`.) Overlap, or a statement that fails, is what it takes: the
  theorem `SubmitsLimited` shows that one run at a time over a database that does not fail keeps
  the limit, through crashes and whatever the other workers do.
* `kafka.go:50` keys messages by the aggregate "to guarantee ordering", `kafka.go:57` calls this
  "CRITICAL: Ensures ordering per transaction". After a failed publish the loop of `outbox.go:72` goes on
  to the next event of the same transaction. In the run, one publisher run has found both events, the
  publish of the first fails, and the second is in the topic without it. Two queries at once that split
  the rows, and a row that appears late, do the same with nothing failing. What holds is
  `KeyOrderKept`: nothing but these three lets an event be overtaken.
* `settlement.go:92`: a settlement is "Zeroing out the Payable account". Overlapping runs read one
  balance, and each posts and pays it, under a batch id, and so an idempotency key, of its own:
  the account ends below zero. `OverdrawnOnlyByOverlap` shows that nothing but overlap does it,
  whatever fails or is earned meanwhile.
* `consumer.go:114`: Kafka may redeliver, and the consumer "will never execute the business logic
  twice"; `consumer.go:138` calls the ledger record and the business updates "saved atomically".
  `ledger.Post` commits in a transaction of its own. In the run the process dies in between and
  the redelivered event is charged again. What does hold is `ChargedWithRecord`: every event
  whose charging deliveries were all recorded is charged once, and `FeesBoundedByFaults`: one extra
  charge takes one fault; overlapping publishers and duplicates alone cause none.

Not among them, but worth knowing: `UpdateStateAndAudit` does not check the status it replaces, so the
old status of an audit row is the one reconciliation had read, possibly minutes before. `audit` has
both, the status read (`old`) and the one replaced (`was`). `HealingReversesNothing` is what holds all
the same: a healing done on an old reading reverses no COMPLETED or FAILED stored meanwhile, as both
come from the one decision of the provider, unless the transaction was submitted twice (a lost answer
and a retry), when there may be two decisions.

No run is needed for `handlers/merchant.go:132`, "The system will recover this saga via a background
scheduler later": `main.go` starts no such scheduler, and no code reads sagas to resume.

**Bounds.** `MaxCrashes` bounds crashes, `MaxRetries` is the limit of five in the code: 2 shows a
first, a middle and a last attempt; `retry_bound_overlap` uses 5. `submits` is counted up to
one past the limit. `Ids` is as large as `Reqs`, so ids never run out. One transaction is enough
for races over a row, since the workers treat rows independently; that no answer or retry of
one transaction reaches another, and more runs, requests and crashes, are covered by the proofs,
which fix no number.

`MaxFaults` bounds the faults of the event pipeline: one of each kind at any point, with two
runs and two events of one aggregate, which is what overtaking (in each of its three ways) and
redelivery take; its safety is proved for any number. In `overtaken` the rows appear in order and
there is one run, so that only the failed publish is left. Events of different aggregates share nothing but the limit of the
query. In `settlement`, `MaxInt` is 5000 instead of the largest int64: balances above 500 then
make `gross * 10` come round, and one earning stays below it while two do not. 339 has a net
amount of 299, which the bank answers with "unknown"; 400 is paid. One account,
`ACC-ONBOARDING-REVENUE`, is opened at an arbitrary moment, the others before the start, so that
the consumer's journal fails halfway through and later succeeds. Two batches bound the number
of settlements; any number of crashes. `settled_twice` has an int64 in which nothing overflows.

**Fairness.** `Lifecycle!Fairness` is weak fairness of each run and of the clock of each row: cron
keeps starting runs, statements end, and the client's ten second timeout ends every call. None is
assumed of the provider (it may never decide nor answer), of callbacks, or of reconciliation
finding anything. `EventPipeline!Fairness` is weak fairness of each publisher run, whose
queries and publishes end, and of the consumer's loop; none is assumed of the background commit of
offsets, of new events or of faults. The liveness of the pipeline is checked with faults: the
outbox is empty of PENDING rows again and again, and again and again every event is processed or
had a delivery that was given up. The
`conclude` run has no crash and no failing statement, because with either `RetriesConclude` is not true of the code:
a row marked RETRYING whose run dies is never selected again.

The runs of the lifecycle check deadlock. In `Onboarding` all requests may be answered, in
`EventPipeline` all events processed and in `Settlement` all batch ids used, so their runs do not;
that posters do not wait on each other is `NoWaitCycle`.

## 5. Proofs

All for any number of transactions, requests, runs, events, keys, failures and crashes, from the
named assumptions on the constants only (`SubmitsLimited` has two more, which say what it is
about). `MerchantAssumption` asks the merchants to be finitely many, as the rows of a table are: the
sum of the balances is defined for finite sets only.

* `LifecycleProofs`: `IInv` is inductive (`Invariance`), hence `TypeCorrect`, `FinalStatusJustified`,
  `TimeoutJustified`, `RowsTracked`, `CallbackAppliedOnce`.
  The properties speak of rows, and none is inductive: a worker may at any time store what it
  has in hand. `IInv` says of each worker that what it carries is still true: a poll item's request id
  was submitted for its transaction and an answer in hand has a decision behind it
  (decisions are never taken back, so an old answer may be outdated but not false); a retry job's
  result has its reason and its attempt is within the limit; an event in hand is in the audit, in
  nobody else's hands and not applied; a correction about to be made is what the provider said.
  One lemma per action shows that each part is kept.
* `SettledProofs`: results about who holds a reading of a row. One lemma per worker
  (`PollPassesBy`, ...) says that it leaves alone a row it neither holds nor selects. From these:
  `SettledForever`; `ReceivedForever`, with the invariant `RestInv`, since the poller, callbacks and
  reconciliation come upon rows by their request id only, and a RECEIVED row has none; and
  `SubmitsLimited`: without overlap and failing statements a row counts its submissions
  (`BoundInv`), as what a run has read stays true until it marks the row, and no other worker can
  reach a row that waits for a retry. `NothingReversed` rests on `AuditInv`: the status a correction
  replaced and the one it stored each have a decision of the provider on that transaction behind
  them, so if they differ there were two. `CorrectionsReal` stands by itself.
* `OnboardingProofs`: `Inv` is inductive, hence `OnboardingTypeCorrect`, `OneAnswerPerKey`,
  `AcceptedStored`, `SagasStored`. The argument: a tracking id is drawn once, so a request about to
  store its record has an id no record has (`IdsApart`, `RecordsOK`); a record never changes; every
  202 repeats it.
  `EndpointImplemented`: `Remember` is the abstract `Bind`, `Reply` and `Repeat` are `Accept`, all
  other steps stutter.
* `EventProofs`: `IInv` is inductive, hence `EventsTypeCorrect`, `PublishedArrived`, `OrderKept`,
  `ChargedOnceRecorded`. For the order, the invariant speaks of what a run has in hand or has yet to
  scan: whatever is older than one of these events, of the same aggregate and not overtakable, is among
  them too or has arrived (`NoneSkipped`). A scan goes from old to new (`ScanInv`), so a row it passes over as
  marked has arrived, one it leaves to another query becomes overtakable, and what is cut off by the
  limit is newer than all that was kept; a run sends its oldest event first, and other runs only
  add messages.
  For the charge, `ChargeIsRecorded` says where the one charge of an event is recorded: in the
  processing ledger, or in the open transaction of the message in hand; `FeeInv` counts the others
  against the faults, for `FeesBounded`. `NothingPassedOver`: the message in hand is the last one
  handed out of its key, and all before it are done with (`HandInv`); a crash goes back to a
  committed offset, which is never ahead of that. `DeliveryImplemented` puts the two halves together:
  a publish finds all that is older in the topic or overtakable (`NoneSkipped`), which makes it the
  abstract `Arrive`, and what precedes the message in hand in the topic has been handled (`HandInv`),
  which makes committing its record the abstract `Process`.
* `LedgerProofs` and `SettlementProofs`: `IInv` is inductive, hence `SettlementTypeCorrect`,
  `PaidBooked`, `StatusesTrue`. Of the ledger it says that the rows a posting has locked are those
  of the entries it has written, and that its draft of each is the committed balance plus the
  entry (so nobody else has moved it). Of the engine: no two runs have one batch in hand; what a
  run is posting is the journal of its batch and has no journal yet; the row of a batch in hand is
  as the stage of its run says. `PaidBooked` has that no batch is paid twice: a run leaves the stage in
  which it pays whatever the bank answers, and no run comes to a batch that has been in another's hands.
* `BalanceProofs`: `LedgerIsAtomic`: a commit moves every balance by what the journal's entry
  says, because of the locks; all else stutters. `NeverInARing`: the journals of the runs name
  accounts in one order, so a run that waits for a run has come less far; and once the consumer
  has the one row a run may want, it has all it needs. `OverdrawnByOverlap`: as long as runs
  never overlapped, whatever the one run has still to settle is covered by the balances (`Solvent`),
  which only its own commits lower, one merchant at a time. `SharesAddUp`: the shares of a gross
  amount add up to it, and one is zero (so that `Post` turns the journal away) exactly below 300
  paise, as long as ten times the amount fits an int64. `AcceptedAddsUp` has no such condition:
  whenever all shares are positive, and `Post` accepts no other, they add up to the gross amount
  exactly, even if ten times the amount came round. Hence `DebitsMatchCredits`: every journal that is
  committed (settlement, fee, or earned elsewhere) moves the sum of all balances by zero.
* `SumTheorems`: what that takes of sums. `SumFunctionOnSet` is a fold over a set, and the library's
  induction theorems take an operator the provers cannot instantiate. `SubsetInduction` is
  stated for a set of subsets instead: if a subset of a finite set is in it whenever its proper
  subsets are, all are; else a smallest one missing would be a contradiction, since
  strict inclusion is well-founded there. With it: the fold satisfies its equation (`SumUnfold`), is an
  integer (`SumType`), and is additive (`SumAdds`).

Only model-checked: liveness (`PollingConcludes`, `RetriesConclude`, `EventuallyPublished`,
`EventuallyProcessed`), which is beyond the prover, and of course the violations. Every safety
property of a passing run is stated by a theorem.

## 6. Not modelled

* The saga after its first step: `OnStepSuccess` and `OnStepFailed` have no caller.
* Recovery that the code lacks: nothing resumes a saga, retries a RETRY_PENDING batch or finishes a
  PROCESSING one. A batch whose commit was carried out and reported failed is FAILED with its
  journal booked; no text of the repository says otherwise, so no property does.
* Whether a transaction should be charged once or for each status change; the code calls its
  fee a mock and charges each.
* Messages that do not parse; the publisher marshals them itself.
* HTTP routing, JSON and signatures (requests that fail them change nothing), log lines, the
  contents of payloads (so not that a retry decodes them with other field names), the length of
  idempotency keys (an insert that fails is one of the outcomes), backoff and poll intervals (any
  time may pass between `later` and `due`), schema creation.
