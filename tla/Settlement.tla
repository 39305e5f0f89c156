------------------------------ MODULE Settlement ------------------------------
(***************************************************************************)
(* The settlement engine, internal/scheduler/settlement.go, with its       *)
(* tables and the bank, on top of Ledger.  Cron starts a run every minute  *)
(* whether or not the last one has ended; a run reads the positive payable *)
(* balances and settles them one after the other: store a batch, post its  *)
(* journal, have the bank pay the net amount, store the outcome.           *)
(*                                                                         *)
(* The other users of the ledger are here too: the Kafka consumer, which   *)
(* posts onboarding fees, and the services that make merchants' balances   *)
(* grow, which are external.                                               *)
(***************************************************************************)
EXTENDS Ledger

CONSTANTS
  Runs,      \* settlement runs that may be under way at once
  Consumer,  \* the goroutine of the Kafka consumer
  Batches,   \* batch ids
  Fees,      \* onboarding fees to be posted
  Earnings,  \* amounts that come in for merchants
  Amounts,   \* their possible sizes
  NoBatch    \* no row

ASSUME RunAssumption == Posters = Runs \cup {Consumer} /\ Consumer \notin Runs
ASSUME RefsAssumption ==
  /\ Refs = Batches \cup Fees \cup Earnings
  /\ Batches \cap Fees = {} /\ Batches \cap Earnings = {} /\ Fees \cap Earnings = {}
ASSUME AmountAssumption == Amounts \subseteq 1..MaxInt
ASSUME BatchAssumption ==
  NoBatch \notin [merchant : Merchants, gross : Int64,
                  status : {"PROCESSING", "COMPLETED", "FAILED", "RETRY_PENDING"}]

VARIABLES
  todo,       \* balances each run has read and not come to yet
  job,        \* the settlement each run is busy with
  batch,      \* the settlement_batch row of each batch
  exceptions, \* batches with a row in settlement_exception
  transfers,  \* payments the bank has made
  overlapped  \* TRUE once a run was started while another was under way

engineVars == <<todo, job, batch, exceptions, transfers, overlapped>>
vars == <<ledgerVars, engineVars>>

(* CREATED is declared and never stored. *)
Rows == [merchant : Merchants, gross : Int64,
         status : {"PROCESSING", "COMPLETED", "FAILED", "RETRY_PENDING"}]

Payables == [merchant : Merchants, amount : 1..MaxInt]

NoJob == [stage |-> "none", batch |-> NoRef]

Jobs == [stage : {"none", "post", "ledger", "complete", "retry", "except"},
         batch : Batches \cup {NoRef}]

(* A payment is known by its batch, the idempotency key, and by which of    *)
(* the payments of that batch it is.                                        *)
Transfers == [batch : Batches, merchant : Merchants, amount : Int64, call : Nat]

Init ==
  /\ LedgerInit
  /\ todo = [r \in Runs |-> {}] /\ job = [r \in Runs |-> NoJob]
  /\ batch = [b \in Batches |-> NoBatch]
  /\ exceptions = {} /\ transfers = {} /\ overlapped = FALSE

-----------------------------------------------------------------------------
(* The statements of repository/settlement.go. *)

(* A slip that the runs must catch: a balance of zero is read too. *)
FindAllBalances ==
  {[merchant |-> m, amount |-> balance[m]] : m \in {x \in Merchants : balance[x] >= 0}}

FindEligibleBalances ==
  {[merchant |-> m, amount |-> balance[m]] : m \in {x \in Merchants : balance[x] > 0}}

CreateBatch(b, t) ==
  batch' = [batch EXCEPT ![b] =
              [merchant |-> t.merchant, gross |-> t.amount, status |-> "PROCESSING"]]

UpdateBatchStatus(b, status) == batch' = [batch EXCEPT ![b].status = status]

-----------------------------------------------------------------------------

Busy(r) == todo[r] # {} \/ job[r] # NoJob

Goto(r, stage) == job' = [job EXCEPT ![r].stage = stage]

SettleFetch(r) ==
  /\ ~Busy(r) /\ FindEligibleBalances # {}
  /\ todo' = [todo EXCEPT ![r] = FindEligibleBalances]
  /\ overlapped' = (overlapped \/ \E s \in Runs : Busy(s))
  /\ UNCHANGED <<ledgerVars, job, batch, exceptions, transfers>>

(* A slip that the runs must catch: the balance stays on the list. *)
SettleNextAgain(r) ==
  \E t \in todo[r], b \in Batches :
    /\ job[r] = NoJob /\ batch[b] = NoBatch
    /\ CreateBatch(b, t) /\ job' = [job EXCEPT ![r] = [stage |-> "post", batch |-> b]]
    /\ UNCHANGED <<ledgerVars, todo, exceptions, transfers, overlapped>>

(* The next balance, in whatever order they were read: store its batch.  If *)
(* that fails the merchant is left for the next run.                        *)
SettleNext(r) ==
  \E t \in todo[r], b \in Batches :
    /\ job[r] = NoJob /\ batch[b] = NoBatch
    /\ todo' = [todo EXCEPT ![r] = @ \ {t}]
    /\ \/ CreateBatch(b, t) /\ job' = [job EXCEPT ![r] = [stage |-> "post", batch |-> b]]
       \/ /\ DbFails /\ UNCHANGED job
          /\ CreateBatch(b, t) \/ UNCHANGED batch
    /\ UNCHANGED <<ledgerVars, exceptions, transfers, overlapped>>

SettlePost(r) ==
  LET b == job[r].batch IN
  /\ job[r].stage = "post" /\ Goto(r, "ledger")
  /\ Post(r, b, SettlementEntries(batch[b].merchant, batch[b].gross))
  /\ UNCHANGED <<todo, batch, exceptions, transfers, overlapped>>

(* The journal was turned away or rolled back: the batch has failed.  Errors *)
(* of the statement that says so are dropped.                                *)
SettleRefused(r) ==
  /\ job[r].stage = "ledger" /\ posting[r].stage = "refused"
  /\ Goto(r, "except") /\ Return(r)
  /\ UpdateBatchStatus(job[r].batch, "FAILED") \/ (DbFails /\ UNCHANGED batch)
  /\ UNCHANGED <<opened, draft, holder, booked, balance, todo, exceptions, transfers, overlapped>>

(* BankClient.Transfer: a net amount that ends in 99 is answered "transfer  *)
(* status unknown", and may have been paid.                                 *)
BankFails(amount) == amount % 100 = 99

Done(b) == {x \in transfers : x.batch = b}

(* Every payment counts, the repetition of an earlier one too. *)
Transfer(b) ==
  transfers' = transfers \cup
    {[batch |-> b, merchant |-> batch[b].merchant, amount |-> Net(batch[b].gross),
      call |-> Cardinality(Done(b)) + 1]}

(* Slips that the runs must catch: a transfer of unknown outcome is tried   *)
(* again at once; before its outcome is known the batch is COMPLETED.       *)
SettleTransferRetried(r) ==
  LET b == job[r].batch IN
  /\ job[r].stage = "ledger" /\ posting[r].stage = "posted" /\ Transfer(b)
  /\ IF BankFails(Net(batch[b].gross))
     THEN UNCHANGED <<posting, job>> ELSE Return(r) /\ Goto(r, "complete")
  /\ UNCHANGED <<opened, draft, holder, booked, balance, todo, batch, exceptions, overlapped>>

SettleTransferLast(r) ==
  LET b == job[r].batch IN
  /\ job[r].stage = "ledger" /\ posting[r].stage = "posted"
  /\ Return(r) /\ Goto(r, "complete") /\ UpdateBatchStatus(b, "COMPLETED")
  /\ UNCHANGED <<opened, draft, holder, booked, balance, todo, exceptions, transfers, overlapped>>

SettleTransfer(r) ==
  LET b == job[r].batch IN
  /\ job[r].stage = "ledger" /\ posting[r].stage = "posted"
  /\ Return(r)
  /\ \/ ~BankFails(Net(batch[b].gross)) /\ Transfer(b) /\ Goto(r, "complete")
     \/ /\ BankFails(Net(batch[b].gross)) /\ Goto(r, "retry")
        /\ Transfer(b) \/ UNCHANGED transfers
  /\ UNCHANGED <<opened, draft, holder, booked, balance, todo, batch, exceptions, overlapped>>

SettleComplete(r) ==
  /\ job[r].stage = "complete"
  /\ job' = [job EXCEPT ![r] = NoJob]
  /\ UpdateBatchStatus(job[r].batch, "COMPLETED") \/ (DbFails /\ UNCHANGED batch)
  /\ UNCHANGED <<ledgerVars, todo, exceptions, transfers, overlapped>>

SettleRetryPending(r) ==
  /\ job[r].stage = "retry" /\ Goto(r, "except")
  /\ UpdateBatchStatus(job[r].batch, "RETRY_PENDING") \/ (DbFails /\ UNCHANGED batch)
  /\ UNCHANGED <<ledgerVars, todo, exceptions, transfers, overlapped>>

LogException(r) ==
  /\ job[r].stage = "except"
  /\ job' = [job EXCEPT ![r] = NoJob]
  /\ exceptions' = exceptions \cup {job[r].batch} \/ (DbFails /\ UNCHANGED exceptions)
  /\ UNCHANGED <<ledgerVars, todo, batch, transfers, overlapped>>

SettleRun(r) ==
  \/ SettleFetch(r) \/ SettleNext(r) \/ SettlePost(r) \/ SettleRefused(r)
  \/ SettleTransfer(r) \/ SettleComplete(r) \/ SettleRetryPending(r) \/ LogException(r)

-----------------------------------------------------------------------------
(* The other users of the ledger. *)

Journals == {j.ref : j \in booked}

PostFee(f) ==
  /\ f \notin Journals /\ Post(Consumer, f, FeeEntries) /\ UNCHANGED engineVars

FeePosted ==
  /\ posting[Consumer].stage \in {"posted", "refused"} /\ Return(Consumer)
  /\ UNCHANGED <<opened, draft, holder, booked, balance, engineVars>>

(* Another service books what a merchant is owed; it waits for row locks    *)
(* like any user of the tables.                                             *)
Earn(e, m, x) ==
  /\ e \notin Journals /\ {m, "CLEARING"} \subseteq opened
  /\ holder[m] = NoPoster /\ holder["CLEARING"] = NoPoster
  /\ balance[m] + x \in Int64 /\ balance["CLEARING"] - x \in Int64
  /\ booked' = booked \cup {[ref |-> e, entries |-> <<Debit("CLEARING", x), Credit(m, x)>>]}
  /\ balance' = [balance EXCEPT ![m] = @ + x, !["CLEARING"] = @ - x]
  /\ UNCHANGED <<opened, posting, draft, holder, engineVars>>

(* At any time, and any number of times. *)
Crash ==
  /\ LedgerCrash
  /\ todo' = [r \in Runs |-> {}] /\ job' = [r \in Runs |-> NoJob]
  /\ UNCHANGED <<batch, exceptions, transfers, overlapped>>

Next ==
  \/ \E r \in Runs : SettleRun(r)
  \/ \E p \in Posters : LedgerStep(p) /\ UNCHANGED engineVars
  \/ (\E f \in Fees : PostFee(f)) \/ FeePosted
  \/ \E e \in Earnings, m \in Merchants, x \in Amounts : Earn(e, m, x)
  \/ \E a \in Accounts : CreateAccount(a) /\ UNCHANGED engineVars
  \/ Crash

Spec == Init /\ [][Next]_vars

-----------------------------------------------------------------------------

TypeOK ==
  /\ LedgerTypeOK
  /\ todo \in [Runs -> SUBSET Payables]
  /\ job \in [Runs -> Jobs]
  /\ batch \in [Batches -> Rows \cup {NoBatch}]
  /\ exceptions \subseteq Batches
  /\ transfers \subseteq Transfers
  /\ overlapped \in BOOLEAN

JournalOf(b) == SettlementEntries(batch[b].merchant, batch[b].gross)

(* No money leaves before the ledger has it: whatever the bank paid was     *)
(* booked first, as the same net amount of the same batch, and no batch is  *)
(* paid a second time - with posts that fail, answers of the bank that are  *)
(* lost and crashes in between.                                             *)
PaidIsBooked ==
  /\ \A x \in transfers :
       /\ [ref |-> x.batch, entries |-> JournalOf(x.batch)] \in booked
       /\ \E i \in 1..5 : JournalOf(x.batch)[i] = Credit("BANK-SETTLEMENT", x.amount)
  /\ \A x, y \in transfers : x.batch = y.batch => x = y

(* What the status of a batch says is so: COMPLETED was paid and needs no   *)
(* review, FAILED was not paid, RETRY_PENDING has its journal booked, so    *)
(* that a retry must pay and not post again.                                *)
StatusTellsTruth ==
  \A b \in Batches : batch[b] # NoBatch =>
    /\ batch[b].status = "COMPLETED" => Done(b) # {} /\ b \notin exceptions
    /\ batch[b].status = "FAILED" => Done(b) = {}
    /\ batch[b].status = "RETRY_PENDING" => b \in Journals

(* Debits and credits stay equal over the whole ledger.                     *)
LedgerBalances == SumFunction(balance) = 0

(* settlement.go:92, "Zeroing out the Payable account": a settlement takes  *)
(* a payable account to zero and never below.                               *)
PayableZeroedOut == \A m \in Merchants : balance[m] >= 0

(* What holds of the code: a merchant is paid more than the account holds   *)
(* only after two runs were under way at once; failing statements, lost     *)
(* answers, crashes and earnings that come in meanwhile do not do it.       *)
OverdrawnOnlyByOverlap == overlapped \/ PayableZeroedOut

=============================================================================
