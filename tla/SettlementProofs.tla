--------------------------- MODULE SettlementProofs ---------------------------
(***************************************************************************)
(* Proofs about Settlement for any number of merchants, runs, batches and  *)
(* crashes, and any width of the integers.                                 *)
(*                                                                         *)
(* No property is inductive.  The invariant adds what each actor may rely  *)
(* on: no two runs have one batch in hand; the batch in hand is as the     *)
(* stage of its run says; what a run is posting is the journal of that     *)
(* batch, and what the consumer is posting is the onboarding fee.          *)
(***************************************************************************)
EXTENDS Settlement, LedgerProofs, FiniteSetTheorems

EngineTypeOK ==
  /\ todo \in [Runs -> SUBSET Payables]
  /\ job \in [Runs -> Jobs]
  /\ batch \in [Batches -> Rows \cup {NoBatch}]
  /\ exceptions \subseteq Batches
  /\ transfers \subseteq Transfers
  /\ overlapped \in BOOLEAN

PostsFee ==
  posting[Consumer].stage # "none" =>
    posting[Consumer].ref \in Fees /\ posting[Consumer].entries = FeeEntries

PostsItsBatch(r) ==
  /\ job[r].stage = "ledger" <=> posting[r].stage # "none"
  /\ job[r].stage = "ledger" =>
       posting[r].ref = job[r].batch /\ posting[r].entries = JournalOf(job[r].batch)

PostingsKnown == PostsFee /\ \A r \in Runs : PostsItsBatch(r)

Idle(r) == job[r].stage = "none"

OneJobEach ==
  \A r, s \in Runs : ~Idle(r) /\ ~Idle(s) /\ job[r].batch = job[s].batch => r = s

(* A batch in hand, by the stage of its run. *)
InHandOK(r) ==
  LET b == job[r].batch IN
  /\ b \in Batches /\ batch[b] # NoBatch
  /\ job[r].stage # "except" => batch[b].status = "PROCESSING" /\ b \notin exceptions
  /\ job[r].stage = "except" => batch[b].status # "COMPLETED"
  /\ job[r].stage \in {"post", "ledger"} => Done(b) = {}
  /\ job[r].stage = "complete" => Done(b) # {}
  /\ job[r].stage = "retry" => b \in Journals

JobsOK == \A r \in Runs : IF Idle(r) THEN job[r] = NoJob ELSE InHandOK(r)

(* A payment is the first of its batch, and the net amount of a stored      *)
(* batch whose journal is booked.                                           *)
PaymentsOK ==
  \A x \in transfers :
    /\ batch[x.batch] # NoBatch /\ x.call = 1
    /\ x.merchant = batch[x.batch].merchant /\ x.amount = Net(batch[x.batch].gross)
    /\ [ref |-> x.batch, entries |-> JournalOf(x.batch)] \in booked

ExceptionsKnown == \A b \in exceptions : batch[b] # NoBatch

(* Nothing is booked twice: what is being posted has no journal yet. *)
NewJournals ==
  /\ \A b \in Batches : batch[b] = NoBatch => b \notin Journals
  /\ \A r \in Runs : job[r].stage = "post" => job[r].batch \notin Journals
  /\ \A p \in Posters : posting[p].stage = "writing" => posting[p].ref \notin Journals

BatchInv == OneJobEach /\ JobsOK /\ PaymentsOK /\ StatusTellsTruth /\ ExceptionsKnown

EngineInv == EngineTypeOK /\ PostingsKnown /\ BatchInv /\ NewJournals

IInv == LedgerInv /\ EngineInv

-----------------------------------------------------------------------------
(* The two entry lists. *)

LEMMA QuotType == ASSUME NEW x \in Int64, NEW d \in Nat, d > 0 PROVE Quot(x, d) \in Int64
<1>1. MaxInt \in Nat /\ x \in Int /\ -MaxInt - 1 <= x /\ x <= MaxInt
  BY WidthAssumption DEF Int64
<1>2. ASSUME NEW y \in Nat PROVE y \div d \in Nat /\ y \div d <= y
  <2>1. y \div d \in Int /\ y = d * (y \div d) + (y % d) /\ y % d \in 0..(d - 1)
    OBVIOUS
  <2> DEFINE q == y \div d
             m == y % d
  <2> HIDE DEF q, m
  <2>2. q \in Int /\ m \in Nat /\ y = d * q + m /\ m < d
    BY <2>1 DEF q, m
  <2>3. q >= 0
    BY <2>2
  <2>4. d * q >= q
    BY <2>2, <2>3
  <2> QED
    BY <2>2, <2>3, <2>4 DEF q
<1>3. CASE x >= 0
  BY <1>1, <1>2, <1>3 DEF Quot, Int64
<1>4. CASE ~(x >= 0)
  <2>1. (-x) \in Nat /\ -x <= MaxInt + 1
    BY <1>1, <1>4
  <2>2. (-x) \div d \in Nat /\ (-x) \div d <= MaxInt + 1
    BY <1>1, <1>2, <2>1
  <2> QED
    BY <1>1, <1>4, <2>2 DEF Quot, Int64
<1> QED
  BY <1>3, <1>4

LEMMA PercentType ==
  ASSUME NEW x \in Int64, NEW c \in Nat PROVE Quot(Wrap(x * c), 100) \in Int64
<1>1. x \in Int
  BY Int64Facts
<1>2. x * c \in Int
  BY <1>1
<1>3. Wrap(x * c) \in Int64
  BY <1>2, WrapType
<1> DEFINE w == Wrap(x * c)
<1> HIDE DEF w
<1>4. Quot(w, 100) \in Int64
  BY <1>3, QuotType DEF w
<1> QED
  BY <1>4 DEF w

LEMMA ShareTypes ==
  ASSUME NEW gross \in Int64
  PROVE  /\ Fee(gross) \in Int64 /\ Tax(gross) \in Int64
         /\ Reserve(gross) \in Int64 /\ Net(gross) \in Int64
<1>1. Fee(gross) \in Int64 /\ Reserve(gross) \in Int64
  BY PercentType DEF Fee, Reserve
<1>2. Tax(gross) \in Int64
  BY <1>1, PercentType DEF Tax
<1>3. Net(gross) \in Int64
  <2>1. gross \in Int /\ Fee(gross) \in Int /\ Tax(gross) \in Int /\ Reserve(gross) \in Int
    BY <1>1, <1>2, Int64Facts
  <2>2. gross - Fee(gross) - Tax(gross) - Reserve(gross) \in Int
    BY <2>1
  <2> QED
    BY <2>2, WrapType DEF Net
<1> QED
  BY <1>1, <1>2, <1>3

LEMMA SettlementJournal ==
  ASSUME NEW m \in Merchants, NEW gross \in Int64
  PROVE  /\ SettlementEntries(m, gross) \in Seq(Entries)
         /\ OneEntryEach(SettlementEntries(m, gross))
<1>1. m \in Accounts /\ Fixed \subseteq Accounts /\ m \notin Fixed
  BY MerchantAssumption DEF Accounts
<1>2. \A a \in Accounts : \A x \in Int64 : Debit(a, x) \in Entries /\ Credit(a, x) \in Entries
  BY DEF Debit, Credit, Entries
<1>3. \A a, x : Debit(a, x).account = a /\ Credit(a, x).account = a
  BY DEF Debit, Credit
<1>4. {"REVENUE-FEES", "TAX-PAYABLE", "RESERVE-HOLDBACK", "BANK-SETTLEMENT"} \subseteq Fixed
  BY DEF Fixed
<1>5. SettlementEntries(m, gross) \in Seq(Entries)
  BY <1>1, <1>2, <1>4, ShareTypes DEF SettlementEntries
<1>6. OneEntryEach(SettlementEntries(m, gross))
  BY <1>1, <1>3, <1>4 DEF SettlementEntries, OneEntryEach
<1> QED
  BY <1>5, <1>6

LEMMA FeeJournal == FeeEntries \in Seq(Entries) /\ OneEntryEach(FeeEntries)
<1>1. {5000, 4500, 500} \subseteq Int64
  BY WidthAssumption DEF Int64
<1>2. {"MERCHANT-WALLET", "ONBOARDING-REVENUE", "TAX-PAYABLE"} \subseteq Accounts
  BY DEF Accounts, Fixed
<1>3. \A a \in Accounts : \A x \in Int64 : Debit(a, x) \in Entries /\ Credit(a, x) \in Entries
  BY DEF Debit, Credit, Entries
<1>4. \A a, x : Debit(a, x).account = a /\ Credit(a, x).account = a
  BY DEF Debit, Credit
<1>5. FeeEntries \in Seq(Entries)
  BY <1>1, <1>2, <1>3 DEF FeeEntries
<1>6. OneEntryEach(FeeEntries)
  BY <1>4 DEF FeeEntries, OneEntryEach
<1> QED
  BY <1>5, <1>6

-----------------------------------------------------------------------------

LEMMA InitIInv == Init => IInv
<1> SUFFICES ASSUME Init PROVE IInv
  OBVIOUS
<1>1. LedgerInv
  BY InitLedgerInv DEF Init
<1>2. \A p \in Posters : posting[p].stage = "none"
  BY DEF Init, LedgerInit, NotPosting
<1>3. Consumer \in Posters /\ Runs \subseteq Posters
  BY RunAssumption
<1> USE DEF Init
<1>4. EngineTypeOK
  BY DEF EngineTypeOK, Jobs, NoJob
<1>5. PostingsKnown /\ OneJobEach /\ JobsOK
  BY <1>2, <1>3 DEF PostingsKnown, PostsFee, PostsItsBatch, OneJobEach, JobsOK, Idle, NoJob
<1>6. PaymentsOK /\ StatusTellsTruth /\ ExceptionsKnown
  BY DEF PaymentsOK, StatusTellsTruth, ExceptionsKnown
<1>7. NewJournals
  BY <1>2 DEF NewJournals, Journals, LedgerInit, NoJob
<1> QED
  BY <1>1, <1>4, <1>5, <1>6, <1>7 DEF IInv, EngineInv, BatchInv

-----------------------------------------------------------------------------
(* What holds of the batches when one actor moves. *)

RowsKept ==
  \A b \in Batches : batch[b] # NoBatch =>
    /\ batch'[b] # NoBatch
    /\ batch'[b].merchant = batch[b].merchant /\ batch'[b].gross = batch[b].gross

Same(b) ==
  /\ batch'[b] = batch[b] /\ Done(b)' = Done(b)
  /\ b \in exceptions' <=> b \in exceptions

StatusTrue(b) ==
  batch[b] # NoBatch =>
    /\ batch[b].status = "COMPLETED" => Done(b) # {} /\ b \notin exceptions
    /\ batch[b].status = "FAILED" => Done(b) = {}
    /\ batch[b].status = "RETRY_PENDING" => b \in Journals

PaymentOK(x) ==
  /\ batch[x.batch] # NoBatch /\ x.call = 1
  /\ x.merchant = batch[x.batch].merchant /\ x.amount = Net(batch[x.batch].gross)
  /\ [ref |-> x.batch, entries |-> JournalOf(x.batch)] \in booked

LEMMA JournalsGrow == ASSUME booked \subseteq booked' PROVE Journals \subseteq Journals'
BY DEF Journals

LEMMA PaymentsKept ==
  ASSUME EngineTypeOK, PaymentsOK, RowsKept, booked \subseteq booked',
         \A x \in transfers' : x \in transfers \/ PaymentOK(x)'
  PROVE  PaymentsOK'
<1> SUFFICES ASSUME NEW x \in transfers' PROVE PaymentOK(x)'
  BY DEF PaymentsOK, PaymentOK
<1>1. CASE x \in transfers
  <2>1. x.batch \in Batches
    BY <1>1 DEF EngineTypeOK, Transfers
  <2>2. PaymentOK(x)
    BY <1>1 DEF PaymentsOK, PaymentOK
  <2>3. JournalOf(x.batch)' = JournalOf(x.batch)
    BY <2>1, <2>2 DEF RowsKept, PaymentOK, JournalOf
  <2> QED
    BY <2>1, <2>2, <2>3 DEF RowsKept, PaymentOK
<1> QED
  BY <1>1

(* Someone moves who has no batch in hand. *)
LEMMA Bystander ==
  ASSUME EngineTypeOK, BatchInv, UNCHANGED <<job, batch, exceptions, transfers>>,
         booked \subseteq booked'
  PROVE  BatchInv'
<1>1. Journals \subseteq Journals'
  BY JournalsGrow
<1>2. OneJobEach' /\ ExceptionsKnown'
  BY DEF BatchInv, OneJobEach, Idle, ExceptionsKnown
<1>3. JobsOK'
  BY <1>1 DEF BatchInv, JobsOK, Idle, InHandOK, Done
<1>4. StatusTellsTruth'
  BY <1>1 DEF BatchInv, StatusTellsTruth, Done
<1>5. PaymentsOK'
  BY PaymentsKept DEF BatchInv, RowsKept
<1> QED
  BY <1>2, <1>3, <1>4, <1>5 DEF BatchInv

(* Run r moves, with batch B in hand or taken in hand. *)
LEMMA RunMoves ==
  ASSUME EngineTypeOK, BatchInv, NEW r \in Runs, NEW B \in Batches,
         RowsKept, UNCHANGED booked,
         \A s \in Runs : s # r => job'[s] = job[s] /\ (~Idle(s) => job[s].batch # B),
         \A b \in Batches : b # B => Same(b),
         IF Idle(r)' THEN job'[r] = NoJob ELSE job'[r].batch = B /\ InHandOK(r)',
         StatusTrue(B)', batch'[B] # NoBatch,
         \A x \in transfers' : x \in transfers \/ PaymentOK(x)',
         \A b \in exceptions' : b \in exceptions \/ b = B
  PROVE  BatchInv'
<1>1. Journals' = Journals
  BY DEF Journals
<1>2. OneJobEach'
  BY DEF BatchInv, OneJobEach, Idle
<1>3. JobsOK'
  <2> SUFFICES ASSUME NEW s \in Runs
               PROVE  IF Idle(s)' THEN job'[s] = NoJob ELSE InHandOK(s)'
    BY DEF JobsOK
  <2>1. CASE s = r
    BY <2>1
  <2>2. CASE s # r
    <3>1. job'[s] = job[s] /\ (Idle(s)' <=> Idle(s))
      BY <2>2 DEF Idle
    <3>2. CASE Idle(s)
      BY <3>1, <3>2 DEF BatchInv, JobsOK
    <3>3. CASE ~Idle(s)
      <4>1. InHandOK(s) /\ job[s].batch \in Batches /\ job[s].batch # B
        BY <2>2, <3>3 DEF BatchInv, JobsOK, InHandOK
      <4>2. Same(job[s].batch)
        BY <4>1
      <4> QED
        BY <1>1, <3>1, <3>3, <4>1, <4>2 DEF InHandOK, Same
    <3> QED
      BY <3>2, <3>3
  <2> QED
    BY <2>1, <2>2
<1>4. StatusTellsTruth'
  <2> SUFFICES ASSUME NEW b \in Batches PROVE StatusTrue(b)'
    BY DEF StatusTellsTruth, StatusTrue
  <2>1. CASE b = B
    BY <2>1
  <2>2. CASE b # B
    <3>1. StatusTrue(b)
      BY DEF BatchInv, StatusTellsTruth, StatusTrue
    <3>2. Same(b)
      BY <2>2
    <3> QED
      BY <1>1, <3>1, <3>2 DEF StatusTrue, Same
  <2> QED
    BY <2>1, <2>2
<1>5. PaymentsOK'
  BY PaymentsKept DEF BatchInv
<1>6. ExceptionsKnown'
  BY DEF BatchInv, ExceptionsKnown, EngineTypeOK, RowsKept
<1> QED
  BY <1>2, <1>3, <1>4, <1>5, <1>6 DEF BatchInv

(* A statement that stores a status, or does not. *)
LEMMA StatusStored ==
  ASSUME EngineTypeOK, NEW b \in Batches, batch[b] # NoBatch,
         NEW status \in {"COMPLETED", "FAILED", "RETRY_PENDING"},
         UpdateBatchStatus(b, status) \/ UNCHANGED batch
  PROVE  /\ batch' \in [Batches -> Rows \cup {NoBatch}]
         /\ \A c \in Batches : c # b => batch'[c] = batch[c]
         /\ batch'[b] # NoBatch /\ batch'[b].status \in {status, batch[b].status}
         /\ RowsKept
<1>1. batch \in [Batches -> Rows \cup {NoBatch}] /\ batch[b] \in Rows
  BY DEF EngineTypeOK
<1>2. CASE UpdateBatchStatus(b, status)
  <2> DEFINE q == [batch[b] EXCEPT !.status = status]
  <2>1. /\ q \in Rows /\ q.status = status
        /\ q.merchant = batch[b].merchant /\ q.gross = batch[b].gross
    BY <1>1 DEF Rows
  <2>2. q # NoBatch
    BY <2>1, BatchAssumption DEF Rows
  <2>3. batch' = [batch EXCEPT ![b] = q]
    BY <1>2 DEF UpdateBatchStatus
  <2> HIDE DEF q
  <2>4. batch'[b] = q /\ \A c \in Batches : c # b => batch'[c] = batch[c]
    BY <1>1, <2>3
  <2>5. batch' \in [Batches -> Rows \cup {NoBatch}]
    BY <1>1, <2>1, <2>3
  <2> QED
    BY <2>1, <2>2, <2>4, <2>5 DEF RowsKept
<1>3. CASE UNCHANGED batch
  BY <1>1, <1>3 DEF RowsKept
<1> QED
  BY <1>2, <1>3

LEMMA PostingsKept ==
  ASSUME EngineTypeOK, BatchInv, PostingsKnown, RowsKept, NEW M,
         \A s \in Runs : s \notin M =>
           /\ posting'[s] = posting[s] /\ (job'[s].stage = "ledger" <=> job[s].stage = "ledger")
           /\ job[s].stage = "ledger" => job'[s].batch = job[s].batch,
         \A s \in M : PostsItsBatch(s)',
         posting'[Consumer] = posting[Consumer] \/ PostsFee'
  PROVE  PostingsKnown'
<1>1. PostsFee'
  BY DEF PostingsKnown, PostsFee
<1>2. ASSUME NEW s \in Runs PROVE PostsItsBatch(s)'
  <2>1. CASE s \in M
    BY <2>1
  <2>2. CASE s \notin M
    <3>1. /\ posting'[s] = posting[s] /\ (job'[s].stage = "ledger" <=> job[s].stage = "ledger")
          /\ job[s].stage = "ledger" => job'[s].batch = job[s].batch
      BY <2>2
    <3>2. PostsItsBatch(s)
      BY DEF PostingsKnown
    <3>3. CASE job[s].stage = "ledger"
      <4>1. job[s].batch \in Batches /\ batch[job[s].batch] # NoBatch
        BY <3>3 DEF BatchInv, JobsOK, Idle, InHandOK
      <4>2. JournalOf(job[s].batch)' = JournalOf(job[s].batch)
        BY <3>1, <3>3, <4>1 DEF RowsKept, JournalOf
      <4> QED
        BY <3>1, <3>2, <3>3, <4>2 DEF PostsItsBatch
    <3>4. CASE job[s].stage # "ledger"
      BY <3>1, <3>2, <3>4 DEF PostsItsBatch
    <3> QED
      BY <3>3, <3>4
  <2> QED
    BY <2>1, <2>2
<1> QED
  BY <1>1, <1>2 DEF PostingsKnown

LEMMA NewKept ==
  ASSUME NewJournals, UNCHANGED booked, RowsKept,
         \A r \in Runs : job'[r].stage = "post" => job'[r].batch \notin Journals,
         \A p \in Posters : posting'[p].stage = "writing" => posting'[p].ref \notin Journals
  PROVE  NewJournals'
<1>1. Journals' = Journals
  BY DEF Journals
<1> QED
  BY <1>1 DEF NewJournals, RowsKept

LEMMA GoneTo ==
  ASSUME EngineTypeOK, NEW r \in Runs,
         NEW stage \in {"ledger", "complete", "retry", "except"}, Goto(r, stage)
  PROVE  /\ job' \in [Runs -> Jobs] /\ \A s \in Runs : s # r => job'[s] = job[s]
         /\ job'[r].stage = stage /\ job'[r].batch = job[r].batch
<1> DEFINE q == [job[r] EXCEPT !.stage = stage]
<1>1. job \in [Runs -> Jobs] /\ job[r] \in Jobs
  BY DEF EngineTypeOK
<1>2. q \in Jobs /\ q.stage = stage /\ q.batch = job[r].batch
  BY <1>1 DEF Jobs
<1>3. job' = [job EXCEPT ![r] = q]
  BY DEF Goto
<1> HIDE DEF q
<1> QED
  BY <1>1, <1>2, <1>3

LEMMA Finished ==
  ASSUME EngineTypeOK, NEW r \in Runs, job' = [job EXCEPT ![r] = NoJob]
  PROVE  /\ job' \in [Runs -> Jobs] /\ \A s \in Runs : s # r => job'[s] = job[s]
         /\ job'[r] = NoJob /\ job'[r].stage = "none" /\ Idle(r)'
BY DEF EngineTypeOK, Jobs, NoJob, Idle

(* What a busy run may rely on. *)
LEMMA BatchInHand ==
  ASSUME EngineInv, NEW r \in Runs, job[r].stage # "none"
  PROVE  /\ job[r].batch \in Batches /\ InHandOK(r)
         /\ batch[job[r].batch] \in Rows /\ batch[job[r].batch] # NoBatch
         /\ \A s \in Runs : s # r /\ ~Idle(s) => job[s].batch # job[r].batch
         /\ StatusTrue(job[r].batch)
<1>1. InHandOK(r)
  BY DEF EngineInv, BatchInv, JobsOK, Idle
<1>2. job[r].batch \in Batches /\ batch[job[r].batch] # NoBatch
  BY <1>1 DEF InHandOK
<1>3. batch[job[r].batch] \in Rows
  BY <1>2 DEF EngineInv, EngineTypeOK
<1>4. \A s \in Runs : s # r /\ ~Idle(s) => job[s].batch # job[r].batch
  BY DEF EngineInv, BatchInv, OneJobEach, Idle
<1>5. StatusTrue(job[r].batch)
  BY <1>2 DEF EngineInv, BatchInv, StatusTellsTruth, StatusTrue
<1> QED
  BY <1>1, <1>2, <1>3, <1>4, <1>5

-----------------------------------------------------------------------------
(* The engine, where it leaves the ledger alone. *)

(* Nobody's postings, and what is booked, change. *)
LEMMA LedgerAside ==
  ASSUME IInv, UNCHANGED ledgerVars, RowsKept,
         \A s \in Runs :
           /\ job'[s].stage = "ledger" <=> job[s].stage = "ledger"
           /\ job[s].stage = "ledger" => job'[s].batch = job[s].batch
           /\ job'[s].stage = "post" => job'[s].batch \notin Journals
  PROVE  LedgerInv' /\ PostingsKnown' /\ NewJournals'
<1>1. UNCHANGED <<posting, booked>>
  BY DEF ledgerVars
<1>2. LedgerInv'
  BY LedgerKept DEF IInv
<1>3. PostingsKnown'
  <2> DEFINE M == {}
  <2>1. \A s \in M : PostsItsBatch(s)'
    OBVIOUS
  <2>2. \A s \in Runs : s \notin M =>
          /\ posting'[s] = posting[s] /\ (job'[s].stage = "ledger" <=> job[s].stage = "ledger")
          /\ job[s].stage = "ledger" => job'[s].batch = job[s].batch
    BY <1>1
  <2> HIDE DEF M
  <2> QED
    BY <1>1, <2>1, <2>2, PostingsKept DEF IInv, EngineInv
<1>4. NewJournals'
  <2>1. \A q \in Posters : posting'[q].stage = "writing" => posting'[q].ref \notin Journals
    BY <1>1 DEF IInv, EngineInv, NewJournals
  <2> QED
    BY <1>1, <2>1, NewKept DEF IInv, EngineInv
<1> QED
  BY <1>2, <1>3, <1>4

LEMMA FetchStep == ASSUME IInv, NEW r \in Runs, SettleFetch(r) PROVE IInv'
<1>1. UNCHANGED ledgerVars /\ UNCHANGED <<job, batch, exceptions, transfers>>
  BY DEF SettleFetch
<1>2. UNCHANGED booked
  BY <1>1 DEF ledgerVars
<1>3. FindEligibleBalances \subseteq Payables
  <2>1. \A m \in Merchants : balance[m] \in Int64
    BY DEF IInv, LedgerInv, LedgerTypeOK, Accounts
  <2>2. \A m \in Merchants : balance[m] > 0 => balance[m] \in 1..MaxInt
    BY <2>1, WidthAssumption DEF Int64
  <2> QED
    BY <2>2 DEF FindEligibleBalances, Payables
<1>4. EngineTypeOK'
  BY <1>1, <1>3 DEF SettleFetch, IInv, EngineInv, EngineTypeOK
<1>5. BatchInv'
  BY <1>1, <1>2, Bystander DEF IInv, EngineInv
<1>6. LedgerInv' /\ PostingsKnown' /\ NewJournals'
  <2>1. RowsKept
    BY <1>1 DEF RowsKept
  <2>2. \A s \in Runs : job[s].stage = "post" => job[s].batch \notin Journals
    BY DEF IInv, EngineInv, NewJournals
  <2> QED
    BY <1>1, <2>1, <2>2, LedgerAside
<1> QED
  BY <1>4, <1>5, <1>6 DEF IInv, EngineInv

LEMMA NextStep == ASSUME IInv, NEW r \in Runs, SettleNext(r) PROVE IInv'
<1>1. PICK t \in todo[r], b \in Batches :
        /\ job[r] = NoJob /\ batch[b] = NoBatch
        /\ todo' = [todo EXCEPT ![r] = @ \ {t}]
        /\ \/ CreateBatch(b, t) /\ job' = [job EXCEPT ![r] = [stage |-> "post", batch |-> b]]
           \/ UNCHANGED job /\ (CreateBatch(b, t) \/ UNCHANGED batch)
        /\ UNCHANGED <<ledgerVars, exceptions, transfers, overlapped>>
  BY DEF SettleNext
<1>2. EngineTypeOK /\ BatchInv /\ NewJournals
  BY DEF IInv, EngineInv
<1>3. UNCHANGED booked /\ Journals' = Journals /\ b \notin Journals
  BY <1>1, <1>2 DEF ledgerVars, Journals, NewJournals
<1>4. Done(b)' = {} /\ b \notin exceptions'
  <2>1. Done(b) = {}
    BY <1>1, <1>2 DEF BatchInv, PaymentsOK, Done
  <2>2. b \notin exceptions
    BY <1>1, <1>2 DEF BatchInv, ExceptionsKnown
  <2> QED
    BY <1>1, <2>1, <2>2 DEF Done
<1>5. ASSUME CreateBatch(b, t)
      PROVE  /\ batch' \in [Batches -> Rows \cup {NoBatch}] /\ RowsKept
             /\ batch'[b] # NoBatch /\ batch'[b].status = "PROCESSING"
             /\ \A c \in Batches : c # b => batch'[c] = batch[c]
  <2> DEFINE q == [merchant |-> t.merchant, gross |-> t.amount, status |-> "PROCESSING"]
  <2>1. t.merchant \in Merchants /\ t.amount \in Int64
    BY <1>2, Int64Facts DEF EngineTypeOK, Payables
  <2>2. q \in Rows /\ q # NoBatch
    BY <2>1, BatchAssumption DEF Rows
  <2>3. batch' = [batch EXCEPT ![b] = q] /\ batch \in [Batches -> Rows \cup {NoBatch}]
    BY <1>2, <1>5 DEF CreateBatch, EngineTypeOK
  <2>4. q.status = "PROCESSING"
    OBVIOUS
  <2> HIDE DEF q
  <2> QED
    BY <1>1, <2>2, <2>3, <2>4 DEF RowsKept
<1>6. RowsKept /\ batch' \in [Batches -> Rows \cup {NoBatch}]
  BY <1>1, <1>2, <1>5 DEF RowsKept, EngineTypeOK
<1>7. \A s \in Runs : ~Idle(s) => job[s].batch # b
  BY <1>1, <1>2 DEF BatchInv, JobsOK, InHandOK
<1>8. job' \in [Runs -> Jobs] /\ \A s \in Runs : s # r => job'[s] = job[s]
  BY <1>1, <1>2 DEF EngineTypeOK, Jobs
<1>9. job'[r] = NoJob \/ (job'[r] = [stage |-> "post", batch |-> b] /\ CreateBatch(b, t))
  BY <1>1, <1>2 DEF EngineTypeOK
<1>10. EngineTypeOK'
  BY <1>1, <1>2, <1>6, <1>8 DEF EngineTypeOK
<1>11. BatchInv'
  <2>1. CASE UNCHANGED batch /\ UNCHANGED job
    BY <1>1, <1>2, <1>3, <2>1, Bystander
  <2>2. CASE CreateBatch(b, t)
    <3>1. \A c \in Batches : c # b => Same(c)
      BY <1>1, <1>5, <2>2 DEF Same, Done
    <3>2. IF Idle(r)' THEN job'[r] = NoJob ELSE job'[r].batch = b /\ InHandOK(r)'
      BY <1>4, <1>5, <1>9, <2>2 DEF Idle, NoJob, InHandOK
    <3>3. StatusTrue(b)'
      BY <1>5, <2>2 DEF StatusTrue
    <3>4. /\ \A x \in transfers' : x \in transfers \/ PaymentOK(x)'
          /\ \A c \in exceptions' : c \in exceptions \/ c = b
      BY <1>1
    <3> QED
      BY <1>2, <1>3, <1>5, <1>7, <1>8, <2>2, <3>1, <3>2, <3>3, <3>4, RunMoves
  <2> QED
    BY <1>1, <2>1, <2>2
<1>12. LedgerInv' /\ PostingsKnown' /\ NewJournals'
  <2>1. \A s \in Runs :
          /\ job'[s].stage = "ledger" <=> job[s].stage = "ledger"
          /\ job[s].stage = "ledger" => job'[s].batch = job[s].batch
          /\ job'[s].stage = "post" => job'[s].batch \notin Journals
    BY <1>1, <1>2, <1>3, <1>8, <1>9 DEF NoJob, NewJournals
  <2> QED
    BY <1>1, <1>6, <2>1, LedgerAside
<1> QED
  BY <1>10, <1>11, <1>12 DEF IInv, EngineInv

LEMMA CompleteStep == ASSUME IInv, NEW r \in Runs, SettleComplete(r) PROVE IInv'
<1>0. PICK b \in Batches : b = job[r].batch
  BY BatchInHand DEF IInv, SettleComplete
<1>1. /\ job[r].stage = "complete" /\ job' = [job EXCEPT ![r] = NoJob]
      /\ UpdateBatchStatus(b, "COMPLETED") \/ UNCHANGED batch
      /\ UNCHANGED <<ledgerVars, todo, exceptions, transfers, overlapped>>
  BY <1>0 DEF SettleComplete
<1>2. EngineInv /\ EngineTypeOK /\ BatchInv /\ NewJournals
  BY DEF IInv, EngineInv
<1>3. /\ b \in Batches /\ InHandOK(r) /\ batch[b] # NoBatch /\ StatusTrue(b)
      /\ \A s \in Runs : s # r /\ ~Idle(s) => job[s].batch # b
  BY <1>0, <1>1, <1>2, BatchInHand
<1>4. /\ job' \in [Runs -> Jobs] /\ \A s \in Runs : s # r => job'[s] = job[s]
      /\ job'[r] = NoJob /\ job'[r].stage = "none" /\ Idle(r)'
  BY <1>1, <1>2, Finished
<1>5. /\ batch[b].status = "PROCESSING" /\ b \notin exceptions /\ Done(b) # {}
  BY <1>0, <1>1, <1>3 DEF InHandOK
<1>6. /\ batch' \in [Batches -> Rows \cup {NoBatch}]
      /\ \A c \in Batches : c # b => batch'[c] = batch[c]
      /\ batch'[b] # NoBatch /\ batch'[b].status \in {"COMPLETED", "PROCESSING"}
      /\ RowsKept
  BY <1>1, <1>2, <1>3, <1>5, StatusStored
<1>7. EngineTypeOK'
  BY <1>1, <1>2, <1>4, <1>6 DEF EngineTypeOK
<1>8. BatchInv'
  <2>1. \A c \in Batches : c # b => Same(c)
    BY <1>1, <1>6 DEF Same, Done
  <2>2. StatusTrue(b)'
    BY <1>1, <1>5, <1>6 DEF StatusTrue, Done
  <2>3. UNCHANGED booked
    BY <1>1 DEF ledgerVars
  <2> QED
    BY <1>1, <1>2, <1>3, <1>4, <1>6, <2>1, <2>2, <2>3, RunMoves
<1>9. LedgerInv' /\ PostingsKnown' /\ NewJournals'
  BY <1>1, <1>2, <1>4, <1>6, LedgerAside DEF NewJournals
<1> QED
  BY <1>7, <1>8, <1>9 DEF IInv, EngineInv

LEMMA RetryPendingStep == ASSUME IInv, NEW r \in Runs, SettleRetryPending(r) PROVE IInv'
<1>0. PICK b \in Batches : b = job[r].batch
  BY BatchInHand DEF IInv, SettleRetryPending
<1>1. /\ job[r].stage = "retry" /\ Goto(r, "except")
      /\ UpdateBatchStatus(b, "RETRY_PENDING") \/ UNCHANGED batch
      /\ UNCHANGED <<ledgerVars, todo, exceptions, transfers, overlapped>>
  BY <1>0 DEF SettleRetryPending
<1>2. EngineInv /\ EngineTypeOK /\ BatchInv /\ NewJournals
  BY DEF IInv, EngineInv
<1>3. /\ b \in Batches /\ InHandOK(r) /\ batch[b] # NoBatch /\ StatusTrue(b)
      /\ \A s \in Runs : s # r /\ ~Idle(s) => job[s].batch # b
  BY <1>0, <1>1, <1>2, BatchInHand
<1>4. /\ job' \in [Runs -> Jobs] /\ \A s \in Runs : s # r => job'[s] = job[s]
      /\ job'[r].stage = "except" /\ job'[r].batch = b
  BY <1>0, <1>1, <1>2, GoneTo
<1>5. batch[b].status = "PROCESSING" /\ b \in Journals
  BY <1>0, <1>1, <1>3 DEF InHandOK
<1>6. /\ batch' \in [Batches -> Rows \cup {NoBatch}]
      /\ \A c \in Batches : c # b => batch'[c] = batch[c]
      /\ batch'[b] # NoBatch /\ batch'[b].status \in {"RETRY_PENDING", "PROCESSING"}
      /\ RowsKept
  BY <1>1, <1>2, <1>3, <1>5, StatusStored
<1>7. EngineTypeOK'
  BY <1>1, <1>2, <1>4, <1>6 DEF EngineTypeOK
<1>8. BatchInv'
  <2>1. \A c \in Batches : c # b => Same(c)
    BY <1>1, <1>6 DEF Same, Done
  <2>2. UNCHANGED booked /\ Journals' = Journals
    BY <1>1 DEF ledgerVars, Journals
  <2>3. StatusTrue(b)'
    BY <1>5, <1>6, <2>2 DEF StatusTrue
  <2>4. job'[r].batch = b /\ InHandOK(r)' /\ ~Idle(r)'
    BY <1>3, <1>4, <1>6 DEF InHandOK, Idle
  <2> QED
    BY <1>1, <1>2, <1>3, <1>4, <1>6, <2>1, <2>2, <2>3, <2>4, RunMoves
<1>9. LedgerInv' /\ PostingsKnown' /\ NewJournals'
  BY <1>1, <1>2, <1>4, <1>6, LedgerAside DEF NewJournals
<1> QED
  BY <1>7, <1>8, <1>9 DEF IInv, EngineInv

LEMMA LogStep == ASSUME IInv, NEW r \in Runs, LogException(r) PROVE IInv'
<1>0. PICK b \in Batches : b = job[r].batch
  BY BatchInHand DEF IInv, LogException
<1>1. /\ job[r].stage = "except" /\ job' = [job EXCEPT ![r] = NoJob]
      /\ exceptions' = exceptions \cup {b} \/ UNCHANGED exceptions
      /\ UNCHANGED <<ledgerVars, todo, batch, transfers, overlapped>>
  BY <1>0 DEF LogException
<1>2. EngineInv /\ EngineTypeOK /\ BatchInv /\ NewJournals
  BY DEF IInv, EngineInv
<1>3. /\ b \in Batches /\ InHandOK(r) /\ batch[b] # NoBatch /\ StatusTrue(b)
      /\ \A s \in Runs : s # r /\ ~Idle(s) => job[s].batch # b
  BY <1>0, <1>1, <1>2, BatchInHand
<1>4. /\ job' \in [Runs -> Jobs] /\ \A s \in Runs : s # r => job'[s] = job[s]
      /\ job'[r] = NoJob /\ job'[r].stage = "none" /\ Idle(r)'
  BY <1>1, <1>2, Finished
<1>5. batch[b].status # "COMPLETED"
  BY <1>0, <1>1, <1>3 DEF InHandOK
<1>6. RowsKept
  BY <1>1 DEF RowsKept
<1>7. EngineTypeOK'
  BY <1>1, <1>2, <1>3, <1>4 DEF EngineTypeOK
<1>8. BatchInv'
  <2>1. \A c \in Batches : c # b => Same(c)
    BY <1>1 DEF Same, Done
  <2>2. UNCHANGED booked /\ Journals' = Journals
    BY <1>1 DEF ledgerVars, Journals
  <2>3. StatusTrue(b)'
    BY <1>1, <1>3, <1>5, <2>2 DEF StatusTrue, Done
  <2> QED
    BY <1>1, <1>2, <1>3, <1>4, <1>6, <2>1, <2>2, <2>3, RunMoves
<1>9. LedgerInv' /\ PostingsKnown' /\ NewJournals'
  BY <1>1, <1>2, <1>4, <1>6, LedgerAside DEF NewJournals
<1> QED
  BY <1>7, <1>8, <1>9 DEF IInv, EngineInv

-----------------------------------------------------------------------------
(* The engine, where it posts or takes the result. *)

LEMMA RunPosts ==
  ASSUME IInv, NEW r \in Runs, RowsKept, UNCHANGED booked,
         \A s \in Runs : s # r => job'[s] = job[s],
         \A q \in Posters : q # r => posting'[q] = posting[q],
         PostsItsBatch(r)', job'[r].stage # "post",
         posting'[r].stage = "writing" => posting'[r].ref \notin Journals
  PROVE  PostingsKnown' /\ NewJournals'
<1>1. Consumer \in Posters /\ Consumer # r /\ Runs \subseteq Posters
  BY RunAssumption
<1>2. PostingsKnown'
  <2> DEFINE M == {r}
  <2>1. \A s \in M : PostsItsBatch(s)'
    OBVIOUS
  <2>2. \A s \in Runs : s \notin M =>
          /\ posting'[s] = posting[s] /\ (job'[s].stage = "ledger" <=> job[s].stage = "ledger")
          /\ job[s].stage = "ledger" => job'[s].batch = job[s].batch
    BY <1>1
  <2> HIDE DEF M
  <2> QED
    BY <1>1, <2>1, <2>2, PostingsKept DEF IInv, EngineInv
<1>3. NewJournals'
  <2>1. /\ \A q \in Posters : posting'[q].stage = "writing" => posting'[q].ref \notin Journals
        /\ \A s \in Runs : job'[s].stage = "post" => job'[s].batch \notin Journals
    BY DEF IInv, EngineInv, NewJournals
  <2> QED
    BY <2>1, NewKept DEF IInv, EngineInv
<1> QED
  BY <1>2, <1>3

LEMMA SettlePostStep == ASSUME IInv, NEW r \in Runs, SettlePost(r) PROVE IInv'
<1>0. PICK b \in Batches : b = job[r].batch
  BY BatchInHand DEF IInv, SettlePost
<1>1. /\ job[r].stage = "post" /\ Goto(r, "ledger") /\ Post(r, b, JournalOf(b))
      /\ UNCHANGED <<todo, batch, exceptions, transfers, overlapped>>
  BY <1>0 DEF SettlePost, JournalOf
<1>2. EngineInv /\ EngineTypeOK /\ BatchInv /\ NewJournals /\ LedgerInv
  BY DEF IInv, EngineInv
<1>3. /\ InHandOK(r) /\ batch[b] \in Rows /\ batch[b] # NoBatch /\ StatusTrue(b)
      /\ \A s \in Runs : s # r /\ ~Idle(s) => job[s].batch # b
  BY <1>0, <1>1, <1>2, BatchInHand
<1>4. /\ job' \in [Runs -> Jobs] /\ \A s \in Runs : s # r => job'[s] = job[s]
      /\ job'[r].stage = "ledger" /\ job'[r].batch = b
  BY <1>0, <1>1, <1>2, GoneTo
<1>5. r \in Posters /\ b \in Refs /\ b \notin Journals
  BY <1>0, <1>1, <1>2, RunAssumption, RefsAssumption DEF NewJournals
<1>6. JournalOf(b) \in Seq(Entries) /\ OneEntryEach(JournalOf(b))
  BY <1>3, SettlementJournal DEF Rows, JournalOf
<1>7. LedgerInv'
  BY <1>1, <1>2, <1>5, <1>6, PostStep
<1>8. /\ \A q \in Posters : q # r => posting'[q] = posting[q]
      /\ posting'[r].stage # "none" /\ posting'[r].ref = b
      /\ posting'[r].entries = JournalOf(b) /\ UNCHANGED booked
  BY <1>1, <1>2, <1>5 DEF Post, LedgerInv, LedgerTypeOK
<1>9. RowsKept /\ JournalOf(b)' = JournalOf(b) /\ Journals' = Journals
  BY <1>1, <1>8 DEF RowsKept, JournalOf, Journals
<1>10. EngineTypeOK'
  BY <1>1, <1>2, <1>4 DEF EngineTypeOK
<1>11. BatchInv'
  <2>1. \A c \in Batches : c # b => Same(c)
    BY <1>1 DEF Same, Done
  <2>2. StatusTrue(b)'
    BY <1>1, <1>3, <1>9 DEF StatusTrue, Done
  <2>3. InHandOK(r)' /\ ~Idle(r)'
    BY <1>0, <1>1, <1>3, <1>4 DEF InHandOK, Idle, Done
  <2> QED
    BY <1>1, <1>2, <1>3, <1>4, <1>8, <1>9, <2>1, <2>2, <2>3, RunMoves
<1>12. PostingsKnown' /\ NewJournals'
  <2>1. PostsItsBatch(r)'
    BY <1>4, <1>8, <1>9 DEF PostsItsBatch
  <2> QED
    BY <1>4, <1>5, <1>8, <1>9, <2>1, RunPosts
<1> QED
  BY <1>7, <1>10, <1>11, <1>12 DEF IInv, EngineInv

(* A run takes the result of its posting. *)
LEMMA ResultTaken ==
  ASSUME IInv, NEW r \in Runs, job[r].stage = "ledger", posting[r].stage # "writing", Return(r),
         UNCHANGED <<opened, draft, holder, booked, balance>>, RowsKept,
         \A s \in Runs : s # r => job'[s] = job[s],
         job'[r].stage \in {"complete", "retry", "except"}
  PROVE  LedgerInv' /\ PostingsKnown' /\ NewJournals'
<1>1. r \in Posters
  BY RunAssumption
<1>2. LedgerInv'
  BY <1>1, ReturnStep DEF IInv
<1>3. posting'[r].stage = "none" /\ \A q \in Posters : q # r => posting'[q] = posting[q]
  BY <1>1 DEF Return, NotPosting, IInv, LedgerInv, LedgerTypeOK
<1>4. PostsItsBatch(r)'
  BY <1>3 DEF PostsItsBatch
<1>5. PostingsKnown' /\ NewJournals'
  BY <1>3, <1>4, RunPosts
<1> QED
  BY <1>2, <1>5

LEMMA RefusedStep == ASSUME IInv, NEW r \in Runs, SettleRefused(r) PROVE IInv'
<1>0. PICK b \in Batches : b = job[r].batch
  BY BatchInHand DEF IInv, SettleRefused
<1>1. /\ job[r].stage = "ledger" /\ posting[r].stage = "refused"
      /\ Goto(r, "except") /\ Return(r)
      /\ UpdateBatchStatus(b, "FAILED") \/ UNCHANGED batch
      /\ UNCHANGED <<opened, draft, holder, booked, balance>>
      /\ UNCHANGED <<todo, exceptions, transfers, overlapped>>
  BY <1>0 DEF SettleRefused
<1>2. EngineInv /\ EngineTypeOK /\ BatchInv
  BY DEF IInv, EngineInv
<1>3. /\ InHandOK(r) /\ batch[b] # NoBatch
      /\ \A s \in Runs : s # r /\ ~Idle(s) => job[s].batch # b
  BY <1>0, <1>1, <1>2, BatchInHand
<1>4. /\ job' \in [Runs -> Jobs] /\ \A s \in Runs : s # r => job'[s] = job[s]
      /\ job'[r].stage = "except" /\ job'[r].batch = b
  BY <1>0, <1>1, <1>2, GoneTo
<1>5. batch[b].status = "PROCESSING" /\ Done(b) = {}
  BY <1>0, <1>1, <1>3 DEF InHandOK
<1>6. /\ batch' \in [Batches -> Rows \cup {NoBatch}]
      /\ \A c \in Batches : c # b => batch'[c] = batch[c]
      /\ batch'[b] # NoBatch /\ batch'[b].status \in {"FAILED", "PROCESSING"}
      /\ RowsKept
  BY <1>1, <1>2, <1>3, <1>5, StatusStored
<1>7. EngineTypeOK'
  BY <1>1, <1>2, <1>4, <1>6 DEF EngineTypeOK
<1>8. BatchInv'
  <2>1. \A c \in Batches : c # b => Same(c)
    BY <1>1, <1>6 DEF Same, Done
  <2>2. StatusTrue(b)'
    BY <1>1, <1>5, <1>6 DEF StatusTrue, Done
  <2>3. InHandOK(r)' /\ ~Idle(r)'
    BY <1>4, <1>6 DEF InHandOK, Idle
  <2> QED
    BY <1>1, <1>2, <1>3, <1>4, <1>6, <2>1, <2>2, <2>3, RunMoves
<1>9. LedgerInv' /\ PostingsKnown' /\ NewJournals'
  BY <1>1, <1>4, <1>6, ResultTaken
<1> QED
  BY <1>7, <1>8, <1>9 DEF IInv, EngineInv

LEMMA TransferStep == ASSUME IInv, NEW r \in Runs, SettleTransfer(r) PROVE IInv'
<1>0. PICK b \in Batches : b = job[r].batch
  BY BatchInHand DEF IInv, SettleTransfer
<1>1. /\ job[r].stage = "ledger" /\ posting[r].stage = "posted" /\ Return(r)
      /\ \/ Transfer(b) /\ Goto(r, "complete")
         \/ Goto(r, "retry") /\ (Transfer(b) \/ UNCHANGED transfers)
      /\ UNCHANGED <<opened, draft, holder, booked, balance>>
      /\ UNCHANGED <<todo, batch, exceptions, overlapped>>
  BY <1>0 DEF SettleTransfer
<1>2. EngineInv /\ EngineTypeOK /\ BatchInv
  BY DEF IInv, EngineInv
<1>3. /\ InHandOK(r) /\ batch[b] \in Rows /\ batch[b] # NoBatch
      /\ \A s \in Runs : s # r /\ ~Idle(s) => job[s].batch # b
  BY <1>0, <1>1, <1>2, BatchInHand
<1>4. PICK stage \in {"complete", "retry"} :
        /\ Goto(r, stage) /\ (Transfer(b) \/ UNCHANGED transfers)
        /\ stage = "complete" => Transfer(b)
  BY <1>1
<1>5. /\ job' \in [Runs -> Jobs] /\ \A s \in Runs : s # r => job'[s] = job[s]
      /\ job'[r].stage = stage /\ job'[r].batch = b
  BY <1>0, <1>2, <1>4, GoneTo
<1>6. /\ batch[b].status = "PROCESSING" /\ b \notin exceptions
  BY <1>0, <1>1, <1>3 DEF InHandOK
<1>7. [ref |-> b, entries |-> JournalOf(b)] \in booked /\ b \in Journals
  <2>1. [ref |-> posting[r].ref, entries |-> posting[r].entries] \in booked
    BY <1>1, RunAssumption DEF IInv, LedgerInv, PostedIsBooked
  <2>2. posting[r].ref = b /\ posting[r].entries = JournalOf(b)
    BY <1>0, <1>1 DEF IInv, EngineInv, PostingsKnown, PostsItsBatch
  <2> QED
    BY <2>1, <2>2 DEF Journals
<1>8. PICK x : /\ x = [batch |-> b, merchant |-> batch[b].merchant, amount |-> Net(batch[b].gross),
                        call |-> 1]
               /\ Transfer(b) => transfers' = transfers \cup {x}
  <2>1. Done(b) = {}
    BY <1>0, <1>1, <1>3 DEF InHandOK
  <2>2. Cardinality(Done(b)) + 1 = 1
    BY <2>1, FS_EmptySet
  <2> QED
    BY <2>2 DEF Transfer
<1>9. x \in Transfers /\ x.batch = b
  BY <1>3, <1>8, ShareTypes DEF Transfers, Rows
<1>10. RowsKept /\ Journals' = Journals /\ JournalOf(b)' = JournalOf(b)
  BY <1>1 DEF RowsKept, Journals, JournalOf
<1>11. EngineTypeOK'
  BY <1>1, <1>2, <1>4, <1>5, <1>8, <1>9 DEF EngineTypeOK
<1>12. BatchInv'
  <2>1. \A c \in Batches : c # b => Same(c)
    BY <1>1, <1>4, <1>8, <1>9 DEF Same, Done
  <2>2. StatusTrue(b)'
    BY <1>1, <1>6 DEF StatusTrue
  <2>3. stage = "complete" => Done(b)' # {}
    BY <1>4, <1>8, <1>9 DEF Done
  <2>4. InHandOK(r)' /\ ~Idle(r)'
    BY <1>1, <1>3, <1>5, <1>6, <1>7, <1>10, <2>3 DEF InHandOK, Idle
  <2>5. PaymentOK(x)'
    BY <1>1, <1>3, <1>7, <1>8, <1>10 DEF PaymentOK
  <2>6. \A y \in transfers' : y \in transfers \/ PaymentOK(y)'
    BY <1>4, <1>8, <2>5
  <2> QED
    BY <1>1, <1>2, <1>3, <1>5, <1>10, <2>1, <2>2, <2>4, <2>6, RunMoves
<1>13. LedgerInv' /\ PostingsKnown' /\ NewJournals'
  BY <1>1, <1>5, <1>10, ResultTaken
<1> QED
  BY <1>11, <1>12, <1>13 DEF IInv, EngineInv

-----------------------------------------------------------------------------
(* Everyone else. *)

LEMMA OthersMove ==
  ASSUME IInv, LedgerInv', UNCHANGED engineVars, booked \subseteq booked',
         PostingsKnown', NewJournals'
  PROVE  IInv'
<1>1. UNCHANGED <<todo, job, batch, exceptions, transfers, overlapped>>
  BY DEF engineVars
<1>2. EngineTypeOK'
  BY <1>1 DEF IInv, EngineInv, EngineTypeOK
<1>3. BatchInv'
  BY <1>1, Bystander DEF IInv, EngineInv
<1> QED
  BY <1>2, <1>3 DEF IInv, EngineInv

(* References tell the postings apart: no two posters post for one.         *)
LEMMA RefsApart ==
  ASSUME EngineInv, NEW p \in Posters, NEW q \in Posters, p # q,
         posting[p].stage # "none", posting[q].stage # "none"
  PROVE  posting[p].ref # posting[q].ref
<1>1. \A r \in Runs : posting[r].stage # "none" =>
        /\ posting[r].ref = job[r].batch /\ posting[r].ref \in Batches /\ ~Idle(r)
  BY BatchInHand DEF EngineInv, PostingsKnown, PostsItsBatch, Idle
<1>2. posting[Consumer].stage # "none" => posting[Consumer].ref \in Fees
  BY DEF EngineInv, PostingsKnown, PostsFee
<1>3. \A r, s \in Runs : ~Idle(r) /\ ~Idle(s) /\ job[r].batch = job[s].batch => r = s
  BY DEF EngineInv, BatchInv, OneJobEach
<1> QED
  BY <1>1, <1>2, <1>3, RunAssumption, RefsAssumption

LEMMA PostingStep ==
  ASSUME IInv, NEW p \in Posters, LedgerStep(p), UNCHANGED engineVars PROVE IInv'
<1>1. /\ posting[p].stage = "writing"
      /\ \A s \in Posters : s # p => posting'[s] = posting[s]
      /\ posting'[p].ref = posting[p].ref /\ posting'[p].entries = posting[p].entries
      /\ posting'[p].stage \in {"writing", "posted", "refused"}
      /\ \/ UNCHANGED booked
         \/ AllWritten(p) /\ Booked(p) /\ posting'[p].stage # "writing"
  BY LedgerMoves DEF IInv
<1>2. LedgerInv'
  BY LedgerStepKeeps DEF IInv
<1>3. UNCHANGED <<todo, job, batch, exceptions, transfers, overlapped>>
  BY DEF engineVars
<1>4. /\ booked \subseteq booked'
      /\ Journals' = Journals \/ (Journals' = Journals \cup {posting[p].ref}
                                  /\ posting'[p].stage # "writing")
  BY <1>1 DEF Booked, Journals
<1>5. PostingsKnown'
  <2>1. \A b : JournalOf(b)' = JournalOf(b)
    BY <1>3 DEF JournalOf
  <2>2. \A s \in Posters : /\ posting'[s].stage = "none" <=> posting[s].stage = "none"
                           /\ posting'[s].ref = posting[s].ref
                           /\ posting'[s].entries = posting[s].entries
    BY <1>1
  <2> QED
    BY <1>3, <2>1, <2>2, RunAssumption DEF IInv, EngineInv, PostingsKnown, PostsFee, PostsItsBatch
<1>6. NewJournals'
  <2>1. \A s \in Posters : posting'[s].stage = "writing" => posting'[s].ref \notin Journals'
    <3> SUFFICES ASSUME NEW s \in Posters, posting'[s].stage = "writing"
                 PROVE  posting'[s].ref \notin Journals'
      OBVIOUS
    <3>1. posting[s].stage = "writing" /\ posting'[s].ref = posting[s].ref
      BY <1>1
    <3>2. posting[s].ref \notin Journals
      BY <3>1 DEF IInv, EngineInv, NewJournals
    <3>3. s # p => posting[s].ref # posting[p].ref
      BY <1>1, <3>1, RefsApart DEF IInv
    <3> QED
      BY <1>4, <3>1, <3>2, <3>3
  <2>2. \A b \in Batches : batch[b] = NoBatch => b # posting[p].ref
    <3>1. p \in Runs => job[p].batch = posting[p].ref /\ batch[job[p].batch] # NoBatch
      BY <1>1, BatchInHand DEF IInv, EngineInv, PostingsKnown, PostsItsBatch
    <3>2. p = Consumer => posting[p].ref \in Fees
      BY <1>1 DEF IInv, EngineInv, PostingsKnown, PostsFee
    <3> QED
      BY <3>1, <3>2, RunAssumption, RefsAssumption
  <2>3. \A r \in Runs : job[r].stage = "post" => job[r].batch # posting[p].ref
    <3> SUFFICES ASSUME NEW r \in Runs, job[r].stage = "post"
                 PROVE  job[r].batch # posting[p].ref
      OBVIOUS
    <3>1. job[r].batch \in Batches /\ ~Idle(r)
      BY BatchInHand DEF IInv, Idle
    <3>2. CASE p = Consumer
      BY <1>1, <3>1, <3>2, RefsAssumption DEF IInv, EngineInv, PostingsKnown, PostsFee
    <3>3. CASE p \in Runs
      <4>1. job[p].stage = "ledger" /\ posting[p].ref = job[p].batch
        BY <1>1, <3>3 DEF IInv, EngineInv, PostingsKnown, PostsItsBatch
      <4> QED
        BY <3>1, <3>3, <4>1 DEF IInv, EngineInv, BatchInv, OneJobEach, Idle
    <3> QED
      BY <3>2, <3>3, RunAssumption
  <2> QED
    BY <1>3, <1>4, <2>1, <2>2, <2>3 DEF IInv, EngineInv, NewJournals
<1> QED
  BY <1>2, <1>4, <1>5, <1>6, OthersMove

LEMMA PostFeeStep == ASSUME IInv, NEW f \in Fees, PostFee(f) PROVE IInv'
<1>1. f \notin Journals /\ Post(Consumer, f, FeeEntries) /\ UNCHANGED engineVars
  BY DEF PostFee
<1>2. Consumer \in Posters /\ f \in Refs
  BY RunAssumption, RefsAssumption
<1>3. LedgerInv'
  BY <1>1, <1>2, FeeJournal, PostStep DEF IInv
<1>4. /\ \A q \in Posters : q # Consumer => posting'[q] = posting[q]
      /\ posting'[Consumer].ref = f /\ posting'[Consumer].entries = FeeEntries
      /\ UNCHANGED booked
  BY <1>1, <1>2 DEF Post, IInv, LedgerInv, LedgerTypeOK
<1>5. UNCHANGED <<job, batch>> /\ Journals' = Journals
  BY <1>1, <1>4 DEF engineVars, Journals
<1>6. PostingsKnown'
  BY <1>4, <1>5, RunAssumption
     DEF IInv, EngineInv, PostingsKnown, PostsFee, PostsItsBatch, JournalOf
<1>7. NewJournals'
  BY <1>1, <1>4, <1>5 DEF IInv, EngineInv, NewJournals
<1> QED
  BY <1>1, <1>3, <1>4, <1>6, <1>7, OthersMove

LEMMA FeePostedStep == ASSUME IInv, FeePosted PROVE IInv'
<1>1. /\ posting[Consumer].stage # "writing" /\ Return(Consumer) /\ UNCHANGED engineVars
      /\ UNCHANGED <<opened, draft, holder, booked, balance>>
  BY DEF FeePosted
<1>2. Consumer \in Posters
  BY RunAssumption
<1>3. LedgerInv'
  BY <1>1, <1>2, ReturnStep DEF IInv
<1>4. /\ \A q \in Posters : q # Consumer => posting'[q] = posting[q]
      /\ posting'[Consumer].stage = "none"
  BY <1>1, <1>2 DEF Return, NotPosting, IInv, LedgerInv, LedgerTypeOK
<1>5. UNCHANGED <<job, batch>> /\ Journals' = Journals
  BY <1>1 DEF engineVars, Journals
<1>6. PostingsKnown'
  BY <1>4, <1>5, RunAssumption
     DEF IInv, EngineInv, PostingsKnown, PostsFee, PostsItsBatch, JournalOf
<1>7. NewJournals'
  BY <1>4, <1>5 DEF IInv, EngineInv, NewJournals
<1> QED
  BY <1>1, <1>3, <1>6, <1>7, OthersMove

LEMMA EarnStep ==
  ASSUME IInv, NEW e \in Earnings, NEW m \in Merchants, NEW x \in Amounts, Earn(e, m, x)
  PROVE  IInv'
<1> DEFINE j == [ref |-> e, entries |-> <<Debit("CLEARING", x), Credit(m, x)>>]
<1>1. /\ {m, "CLEARING"} \subseteq opened
      /\ holder[m] = NoPoster /\ holder["CLEARING"] = NoPoster
      /\ balance[m] + x \in Int64 /\ balance["CLEARING"] - x \in Int64
      /\ booked' = booked \cup {j}
      /\ balance' = [balance EXCEPT ![m] = @ + x, !["CLEARING"] = @ - x]
      /\ UNCHANGED <<opened, posting, draft, holder, engineVars>>
  BY DEF Earn
<1>2. m \in Accounts /\ "CLEARING" \in Accounts /\ m # "CLEARING"
  BY MerchantAssumption DEF Accounts, Fixed
<1>3. x \in Int64
  BY AmountAssumption, Int64Facts
<1>4. e \in Refs /\ e \notin Batches /\ e \notin Fees
  BY RefsAssumption
<1>5. j \in [ref : Refs, entries : Seq(Entries)]
  <2>1. Debit("CLEARING", x) \in Entries /\ Credit(m, x) \in Entries
    BY <1>2, <1>3 DEF Debit, Credit, Entries
  <2> QED
    BY <1>4, <2>1
<1>0. j.ref = e
  OBVIOUS
<1> HIDE DEF j
<1>6. Journals' = Journals \cup {e} /\ booked \subseteq booked'
  BY <1>0, <1>1 DEF Journals
<1>7. /\ balance' \in [Accounts -> Int64]
      /\ \A a \in Accounts : holder[a] # NoPoster => balance'[a] = balance[a]
  BY <1>1, <1>2 DEF IInv, LedgerInv, LedgerTypeOK
<1>8. LedgerInv'
  <2>1. booked' \subseteq [ref : Refs, entries : Seq(Entries)]
    BY <1>1, <1>5 DEF IInv, LedgerInv, LedgerTypeOK
  <2> QED
    BY <1>1, <1>6, <1>7, <2>1, OthersStep DEF IInv
<1>9. UNCHANGED <<job, batch, posting>>
  BY <1>1 DEF engineVars
<1>10. PostingsKnown'
  BY <1>9 DEF IInv, EngineInv, PostingsKnown, PostsFee, PostsItsBatch, JournalOf
<1>11. NewJournals'
  <2>1. \A r \in Runs : job[r].stage = "post" => job[r].batch \in Batches
    BY BatchInHand DEF IInv
  <2>2. \A p \in Posters : posting[p].stage = "writing" => posting[p].ref \in Batches \cup Fees
    <3>1. \A r \in Runs : posting[r].stage = "writing" => posting[r].ref \in Batches
      BY BatchInHand DEF IInv, EngineInv, PostingsKnown, PostsItsBatch
    <3> QED
      BY <3>1, RunAssumption DEF IInv, EngineInv, PostingsKnown, PostsFee
  <2> QED
    BY <1>4, <1>6, <1>9, <2>1, <2>2 DEF IInv, EngineInv, NewJournals
<1> QED
  BY <1>1, <1>6, <1>8, <1>10, <1>11, OthersMove

LEMMA OpeningStep ==
  ASSUME IInv, NEW a \in Accounts, CreateAccount(a), UNCHANGED engineVars PROVE IInv'
<1>1. UNCHANGED <<posting, booked>> /\ UNCHANGED <<job, batch>>
  BY DEF CreateAccount, engineVars
<1>2. LedgerInv'
  BY AccountStep DEF IInv
<1>3. PostingsKnown' /\ NewJournals'
  BY <1>1 DEF IInv, EngineInv, PostingsKnown, PostsFee, PostsItsBatch, JournalOf, NewJournals,
     Journals
<1> QED
  BY <1>1, <1>2, <1>3, OthersMove

LEMMA DyingStep == ASSUME IInv, Crash PROVE IInv'
<1>1. /\ LedgerCrash /\ todo' = [r \in Runs |-> {}] /\ job' = [r \in Runs |-> NoJob]
      /\ UNCHANGED <<batch, exceptions, transfers, overlapped>>
  BY DEF Crash
<1>2. EngineTypeOK /\ BatchInv /\ LedgerInv
  BY DEF IInv, EngineInv
<1>3. LedgerInv'
  BY <1>1, <1>2, CrashStep
<1>4. /\ UNCHANGED booked /\ Journals' = Journals
      /\ \A p \in Posters : posting'[p].stage = "none"
      /\ \A r \in Runs : job'[r] = NoJob /\ job'[r].stage = "none"
  BY <1>1 DEF LedgerCrash, NotPosting, NoJob, Journals
<1>5. EngineTypeOK'
  BY <1>1, <1>2 DEF EngineTypeOK, Jobs, NoJob
<1>6. BatchInv'
  <2>1. OneJobEach' /\ JobsOK'
    BY <1>4 DEF OneJobEach, JobsOK, Idle
  <2>2. RowsKept
    BY <1>1 DEF RowsKept
  <2>3. PaymentsOK'
    BY <1>1, <1>2, <1>4, <2>2, PaymentsKept DEF BatchInv
  <2>4. StatusTellsTruth' /\ ExceptionsKnown'
    BY <1>1, <1>2, <1>4 DEF BatchInv, StatusTellsTruth, Done, ExceptionsKnown
  <2> QED
    BY <2>1, <2>3, <2>4 DEF BatchInv
<1>7. PostingsKnown' /\ NewJournals'
  BY <1>1, <1>4, RunAssumption
     DEF IInv, EngineInv, PostingsKnown, PostsFee, PostsItsBatch, NewJournals
<1> QED
  BY <1>3, <1>5, <1>6, <1>7 DEF IInv, EngineInv

LEMMA NextKeeps == ASSUME IInv, Next PROVE IInv'
<1>1. ASSUME NEW r \in Runs, SettleRun(r) PROVE IInv'
  BY <1>1, FetchStep, NextStep, SettlePostStep, RefusedStep, TransferStep, CompleteStep,
     RetryPendingStep, LogStep DEF SettleRun
<1> QED
  BY <1>1, PostingStep, PostFeeStep, FeePostedStep, EarnStep, OpeningStep, DyingStep DEF Next

(* The invariant of the settlement engine and the ledger under it.          *)
THEOREM Invariance == Spec => []IInv
<1>1. ASSUME IInv, UNCHANGED vars PROVE IInv'
  <2>1. UNCHANGED ledgerVars /\ UNCHANGED engineVars
    BY <1>1 DEF vars
  <2>2. LedgerInv'
    BY <1>1, <2>1, LedgerKept DEF IInv
  <2>3. UNCHANGED <<posting, booked>> /\ UNCHANGED <<job, batch>>
    BY <2>1 DEF ledgerVars, engineVars
  <2>4. PostingsKnown' /\ NewJournals'
    BY <1>1, <2>3 DEF IInv, EngineInv, PostingsKnown, PostsFee, PostsItsBatch, JournalOf,
       NewJournals, Journals
  <2> QED
    BY <1>1, <2>1, <2>2, <2>3, <2>4, OthersMove
<1>2. IInv /\ [Next]_vars => IInv'
  BY <1>1, NextKeeps
<1> QED
  BY InitIInv, <1>2, PTL DEF Spec

-----------------------------------------------------------------------------

(* All variables of the ledger and the engine stay in their types; balances *)
(* fit their BIGINT whatever is posted.                                     *)
THEOREM SettlementTypeCorrect == Spec => []TypeOK
<1>1. IInv => TypeOK
  BY DEF IInv, LedgerInv, EngineInv, EngineTypeOK, TypeOK
<1> QED
  BY <1>1, Invariance, PTL

(* What the bank paid for a batch was booked first, as the same net amount, *)
(* and no batch is paid a second time: a run has the one chance, before it  *)
(* knows the outcome, and after a crash no run comes back to the batch.     *)
THEOREM PaidBooked == Spec => []PaidIsBooked
<1>1. IInv => PaidIsBooked
  <2> SUFFICES ASSUME IInv PROVE PaidIsBooked
    OBVIOUS
  <2>1. PaymentsOK /\ transfers \subseteq Transfers
    BY DEF IInv, EngineInv, BatchInv, EngineTypeOK
  <2>2. ASSUME NEW x \in transfers
        PROVE  \E i \in 1..5 : JournalOf(x.batch)[i] = Credit("BANK-SETTLEMENT", x.amount)
    <3>1. JournalOf(x.batch)[5] = Credit("BANK-SETTLEMENT", Net(batch[x.batch].gross))
      BY DEF JournalOf, SettlementEntries
    <3>2. x.amount = Net(batch[x.batch].gross)
      BY <2>1 DEF PaymentsOK
    <3>3. JournalOf(x.batch)[5] = Credit("BANK-SETTLEMENT", x.amount) /\ 5 \in 1..5
      BY <3>1, <3>2
    <3> QED
      BY <3>3
  <2>3. ASSUME NEW x \in transfers, NEW y \in transfers, x.batch = y.batch PROVE x = y
    <3>1. x.merchant = y.merchant /\ x.amount = y.amount /\ x.call = y.call
      BY <2>1, <2>3 DEF PaymentsOK
    <3> QED
      BY <2>1, <2>3, <3>1 DEF Transfers
  <2> QED
    BY <2>1, <2>2, <2>3 DEF PaidIsBooked, PaymentsOK
<1> QED
  BY <1>1, Invariance, PTL

(* COMPLETED was paid, FAILED was not, RETRY_PENDING has its journal.       *)
THEOREM StatusesTrue == Spec => []StatusTellsTruth
<1>1. IInv => StatusTellsTruth
  BY DEF IInv, EngineInv, BatchInv
<1> QED
  BY <1>1, Invariance, PTL

===============================================================================
