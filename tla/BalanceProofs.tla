---------------------------- MODULE BalanceProofs ----------------------------
(***************************************************************************)
(* What module Settlement keeps of the balances: the ledger under it       *)
(* implements AtomicLedger, postings never wait for each other in a ring,  *)
(* an account is overdrawn only after two settlement runs overlapped, the  *)
(* shares of a settlement add up, and the balances of all accounts sum up  *)
(* to zero.                                                                *)
(***************************************************************************)
EXTENDS SettlementProofs, SumTheorems

(* A journal that is committed is new. *)
LEMMA FreshJournal ==
  ASSUME IInv, NEW p \in Posters, posting[p].stage = "writing"
  PROVE  [ref |-> posting[p].ref, entries |-> posting[p].entries] \notin booked
<1>1. posting[p].ref \notin Journals
  BY DEF IInv, EngineInv, NewJournals
<1> QED
  BY <1>1 DEF Journals

(* What others book for a merchant moves every balance by its journal.      *)
LEMMA EarnMoves ==
  ASSUME IInv, NEW e \in Earnings, NEW m \in Merchants, NEW x \in Amounts, Earn(e, m, x)
  PROVE  balance' = [a \in Accounts |->
                       balance[a] + Impact(<<Debit("CLEARING", x), Credit(m, x)>>, a)]
<1> DEFINE es == <<Debit("CLEARING", x), Credit(m, x)>>
<1>1. balance' = [balance EXCEPT ![m] = @ + x, !["CLEARING"] = @ - x]
  BY DEF Earn
<1>2. m \in Accounts /\ "CLEARING" \in Accounts /\ m # "CLEARING"
  BY MerchantAssumption DEF Accounts, Fixed
<1>3. x \in Int /\ x > 0
  BY AmountAssumption, WidthAssumption
<1>4. /\ DOMAIN es = {1, 2}
      /\ es[1].account = "CLEARING" /\ es[1].side = "DEBIT" /\ es[1].amount = x
      /\ es[2].account = m /\ es[2].side = "CREDIT" /\ es[2].amount = x
  BY DEF Debit, Credit
<1> HIDE DEF es
<1>5. ASSUME NEW a \in Accounts PROVE balance'[a] = balance[a] + Impact(es, a)
  <2>0. balance[a] \in Int /\ balance \in [Accounts -> Int64]
    BY Int64Facts DEF IInv, LedgerInv, LedgerTypeOK
  <2>1. CASE a = m
    <3>1. Names(es, a) /\ \A i \in DOMAIN es : es[i].account = a => i = 2
      BY <1>2, <1>4, <2>1 DEF Names
    <3>2. (CHOOSE i \in DOMAIN es : es[i].account = a) = 2
      BY <1>4, <2>1, <3>1
    <3>3. Impact(es, a) = x
      BY <1>4, <3>1, <3>2 DEF Impact, Signed
    <3> QED
      BY <1>1, <1>2, <2>0, <2>1, <3>3
  <2>2. CASE a = "CLEARING"
    <3>1. Names(es, a) /\ \A i \in DOMAIN es : es[i].account = a => i = 1
      BY <1>2, <1>4, <2>2 DEF Names
    <3>2. (CHOOSE i \in DOMAIN es : es[i].account = a) = 1
      BY <1>4, <2>2, <3>1
    <3>3. Impact(es, a) = -x
      BY <1>4, <3>1, <3>2 DEF Impact, Signed
    <3> QED
      BY <1>1, <1>2, <1>3, <2>0, <2>2, <3>3
  <2>3. CASE a # m /\ a # "CLEARING"
    <3>1. ~Names(es, a)
      BY <1>4, <2>3 DEF Names
    <3> QED
      BY <1>1, <2>0, <2>3, <3>1 DEF Impact
  <2> QED
    BY <2>1, <2>2, <2>3
<1>6. balance' = [a \in Accounts |-> balance'[a]]
  BY <1>1 DEF IInv, LedgerInv, LedgerTypeOK
<1> QED
  BY <1>5, <1>6 DEF es

(* It is a step of the abstract ledger too. *)
LEMMA EarnBooks ==
  ASSUME IInv, NEW e \in Earnings, NEW m \in Merchants, NEW x \in Amounts, Earn(e, m, x)
  PROVE  Atomic!AtomicNext
<1> DEFINE es == <<Debit("CLEARING", x), Credit(m, x)>>
           j == [ref |-> e, entries |-> es]
<1>1. e \notin Journals /\ booked' = booked \cup {j}
  BY DEF Earn
<1>2. balance' = [a \in Accounts |-> balance[a] + Impact(es, a)]
  BY EarnMoves
<1>3. x \in Int /\ x > 0
  BY AmountAssumption, WidthAssumption
<1>4. /\ DOMAIN es = {1, 2}
      /\ es[1].account = "CLEARING" /\ es[1].side = "DEBIT" /\ es[1].amount = x
      /\ es[2].account = m /\ es[2].side = "CREDIT" /\ es[2].amount = x
  BY DEF Debit, Credit
<1>5. j.entries = es /\ j.ref = e
  OBVIOUS
<1> HIDE DEF es, j
<1>6. TotalOf(es, "DEBIT") = TotalOf(es, "CREDIT")
  <2>1. {k \in DOMAIN es : es[k].side = "DEBIT"} = {1}
    BY <1>4
  <2>2. {k \in DOMAIN es : es[k].side = "CREDIT"} = {2}
    BY <1>4
  <2>3. TotalOf(es, "DEBIT") = Wrap(x + 0)
    BY <1>4, <2>1, TotalOfOne
  <2>4. TotalOf(es, "CREDIT") = Wrap(x + 0)
    BY <1>4, <2>2, TotalOfOne
  <2> QED
    BY <2>3, <2>4
<1>7. ~Rejects(es)
  BY <1>3, <1>4, <1>6 DEF Rejects
<1>8. Atomic!Book(j)
  BY <1>1, <1>2, <1>5, <1>7, SameAmounts DEF Atomic!Book
<1>9. j \notin booked
  BY <1>1, <1>5 DEF Journals
<1> QED
  BY <1>1, <1>8, <1>9 DEF Atomic!AtomicNext

LEMMA StepBooks == ASSUME IInv, Next PROVE Atomic!AtomicNext \/ UNCHANGED <<booked, balance>>
<1>1. ASSUME NEW r \in Runs, SettleRun(r) PROVE UNCHANGED <<booked, balance>>
  BY <1>1 DEF SettleRun, SettleFetch, SettleNext, SettlePost, Post, SettleRefused, SettleTransfer,
     SettleComplete, SettleRetryPending, LogException, ledgerVars
<1>2. ASSUME NEW p \in Posters, LedgerStep(p)
      PROVE  Atomic!AtomicNext \/ UNCHANGED <<booked, balance>>
  BY <1>2, LedgerMoves, FreshJournal, CommitBooks DEF IInv
<1>3. ASSUME NEW f \in Fees, PostFee(f) PROVE UNCHANGED <<booked, balance>>
  BY <1>3 DEF PostFee, Post
<1>4. ASSUME FeePosted \/ Crash \/ \E a \in Accounts : CreateAccount(a)
      PROVE  UNCHANGED <<booked, balance>>
  BY <1>4 DEF FeePosted, Crash, LedgerCrash, CreateAccount
<1> QED
  BY <1>1, <1>2, <1>3, <1>4, EarnBooks DEF Next

(* The ledger that settlement and consumer use side by side, entry by entry *)
(* under row locks, is an atomic one: journals are booked whole, and no     *)
(* update of a balance is lost.                                             *)
THEOREM LedgerIsAtomic == Spec => ImplementsAtomicLedger
<1>1. Init => Atomic!AtomicInit
  BY SameAmounts DEF Init, LedgerInit, Atomic!AtomicInit
<1>2. IInv /\ [Next]_vars => [Atomic!AtomicNext]_(Atomic!ledgerView)
  BY StepBooks DEF vars, ledgerVars, Atomic!ledgerView
<1> QED
  BY <1>1, <1>2, Invariance, PTL DEF Spec, ImplementsAtomicLedger, Atomic!AtomicSpec

-----------------------------------------------------------------------------

(* The rows a posting holds are those of the first entries of its list.     *)
LEMMA HeldRow ==
  ASSUME IInv, NEW p \in Posters, NEW q \in Posters, WaitsFor(p, q)
  PROVE  /\ posting[p].stage = "writing" /\ posting[q].stage = "writing"
         /\ posting[p].done \in Nat /\ posting[p].done + 1 <= Len(posting[p].entries)
         /\ \E i \in 1..posting[q].done :
              posting[q].entries[i].account = posting[p].entries[posting[p].done + 1].account
<1>1. Writing(p) /\ holder[NextEntry(p).account] = q
  BY DEF WaitsFor
<1>2. /\ posting[p].done \in Nat /\ posting[p].done + 1 \in 1..Len(posting[p].entries)
      /\ NextEntry(p).account \in Accounts
  BY <1>1, NextEntryTypes DEF IInv
<1>3. /\ posting[q].stage = "writing"
      /\ \E i \in 1..posting[q].done : posting[q].entries[i].account = NextEntry(p).account
  BY <1>1, <1>2 DEF IInv, LedgerInv, LocksAreOfEntries
<1> QED
  BY <1>1, <1>2, <1>3 DEF Writing, NextEntry

LEMMA RunEntries ==
  ASSUME IInv, NEW r \in Runs, posting[r].stage = "writing"
  PROVE  \E m \in Merchants :
           /\ Len(posting[r].entries) = 5
           /\ posting[r].entries[1].account = m
           /\ posting[r].entries[2].account = "REVENUE-FEES"
           /\ posting[r].entries[3].account = "TAX-PAYABLE"
           /\ posting[r].entries[4].account = "RESERVE-HOLDBACK"
           /\ posting[r].entries[5].account = "BANK-SETTLEMENT"
<1>1. job[r].stage = "ledger" /\ posting[r].entries = JournalOf(job[r].batch)
  BY DEF IInv, EngineInv, PostingsKnown, PostsItsBatch
<1>2. batch[job[r].batch].merchant \in Merchants
  BY <1>1, BatchInHand DEF IInv, Rows
<1> QED
  BY <1>1, <1>2 DEF JournalOf, SettlementEntries, Debit, Credit

LEMMA ConsumerEntries ==
  ASSUME IInv, posting[Consumer].stage = "writing"
  PROVE  /\ Len(posting[Consumer].entries) = 3
         /\ posting[Consumer].entries[1].account = "MERCHANT-WALLET"
         /\ posting[Consumer].entries[2].account = "ONBOARDING-REVENUE"
         /\ posting[Consumer].entries[3].account = "TAX-PAYABLE"
BY DEF IInv, EngineInv, PostingsKnown, PostsFee, FeeEntries, Debit, Credit

(* The consumer is done when it holds a row a run may want.                 *)
LEMMA ConsumerNotInTheWay ==
  ASSUME IInv, NEW r \in Runs, WaitsFor(r, Consumer), NEW q \in Posters
  PROVE  ~WaitsFor(Consumer, q)
<1> SUFFICES ASSUME WaitsFor(Consumer, q) PROVE FALSE
  OBVIOUS
<1>1. r \in Posters /\ Consumer \in Posters
  BY RunAssumption
<1>2. /\ posting[r].stage = "writing" /\ posting[Consumer].stage = "writing"
      /\ posting[r].done \in Nat /\ posting[r].done + 1 <= Len(posting[r].entries)
  BY <1>1, HeldRow
<1>3. PICK i \in 1..posting[Consumer].done :
        posting[Consumer].entries[i].account = posting[r].entries[posting[r].done + 1].account
  BY <1>1, HeldRow
<1>4. posting[Consumer].done \in Nat /\ posting[Consumer].done + 1 <= 3
  BY <1>1, <1>2, HeldRow, ConsumerEntries
<1>5. posting[Consumer].entries[i].account \in {"MERCHANT-WALLET", "ONBOARDING-REVENUE"}
  <2>1. i = 1 \/ i = 2
    BY <1>4
  <2> QED
    BY <1>2, <2>1, ConsumerEntries
<1>6. posting[r].entries[posting[r].done + 1].account \in
        Merchants \cup {"REVENUE-FEES", "TAX-PAYABLE", "RESERVE-HOLDBACK", "BANK-SETTLEMENT"}
  <2> DEFINE n == posting[r].done + 1
  <2>0. Len(posting[r].entries) = 5
    BY <1>2, RunEntries
  <2>1. n \in 1..5
    BY <1>2, <2>0
  <2> HIDE DEF n
  <2>2. posting[r].entries[n].account \in
          Merchants \cup {"REVENUE-FEES", "TAX-PAYABLE", "RESERVE-HOLDBACK", "BANK-SETTLEMENT"}
    <3>1. n = 1 \/ n = 2 \/ n = 3 \/ n = 4 \/ n = 5
      BY <2>1
    <3>2. PICK m \in Merchants :
            /\ posting[r].entries[1].account = m
            /\ posting[r].entries[2].account = "REVENUE-FEES"
            /\ posting[r].entries[3].account = "TAX-PAYABLE"
            /\ posting[r].entries[4].account = "RESERVE-HOLDBACK"
            /\ posting[r].entries[5].account = "BANK-SETTLEMENT"
      BY <1>2, RunEntries
    <3> QED
      BY <3>1, <3>2
  <2> QED
    BY <2>2 DEF n
<1> QED
  BY <1>3, <1>5, <1>6, MerchantAssumption DEF Fixed

(* A run that waits for a run has come less far.                            *)
LEMMA WaitsForFurther ==
  ASSUME IInv, NEW r \in Runs, NEW s \in Runs, WaitsFor(r, s), NEW q \in Posters, WaitsFor(s, q)
  PROVE  posting[r].done \in 0..4 /\ posting[s].done \in 0..4 /\ posting[r].done < posting[s].done
<1>1. r \in Posters /\ s \in Posters
  BY RunAssumption
<1>2. /\ posting[r].stage = "writing" /\ posting[s].stage = "writing"
      /\ posting[r].done \in Nat /\ posting[r].done + 1 <= Len(posting[r].entries)
      /\ posting[s].done \in Nat /\ posting[s].done + 1 <= Len(posting[s].entries)
  BY <1>1, HeldRow
<1>3. posting[r].done \in 0..4 /\ posting[s].done \in 0..4
  <2>1. Len(posting[r].entries) = 5 /\ Len(posting[s].entries) = 5
    BY <1>2, RunEntries
  <2> QED
    BY <1>2, <2>1
<1>4. PICK i \in 1..posting[s].done :
        posting[s].entries[i].account = posting[r].entries[posting[r].done + 1].account
  BY <1>1, HeldRow
<1> DEFINE n == posting[r].done + 1
<1>5. n \in 1..5 /\ i \in 1..4
  BY <1>3
<1> HIDE DEF n
<1>6. posting[s].entries[i].account = posting[r].entries[n].account
  BY <1>4 DEF n
<1>7. {"REVENUE-FEES", "TAX-PAYABLE", "RESERVE-HOLDBACK", "BANK-SETTLEMENT"} \cap Merchants = {}
  BY MerchantAssumption DEF Fixed
<1>8. i = n
  <2> DEFINE es == posting[s].entries
             er == posting[r].entries
  <2>1. /\ es[1].account \in Merchants /\ es[2].account = "REVENUE-FEES"
        /\ es[3].account = "TAX-PAYABLE" /\ es[4].account = "RESERVE-HOLDBACK"
    BY <1>2, RunEntries
  <2>2. /\ er[1].account \in Merchants /\ er[2].account = "REVENUE-FEES"
        /\ er[3].account = "TAX-PAYABLE" /\ er[4].account = "RESERVE-HOLDBACK"
        /\ er[5].account = "BANK-SETTLEMENT"
    BY <1>2, RunEntries
  <2>3. es[i].account = er[n].account
    BY <1>6
  <2>4. "BANK-SETTLEMENT" \notin Merchants
    BY MerchantAssumption DEF Fixed
  <2> HIDE DEF es, er
  <2>5. i = 1 \/ i = 2 \/ i = 3 \/ i = 4
    BY <1>5
  <2>6. n = 1 \/ n = 2 \/ n = 3 \/ n = 4 \/ n = 5
    BY <1>5
  <2> QED
    BY <1>7, <2>1, <2>2, <2>3, <2>4, <2>5, <2>6
<1> QED
  BY <1>3, <1>5, <1>8 DEF n

(* However many runs and whatever they settle, journals never wait for each *)
(* other in a ring.                                                         *)
THEOREM NeverInARing == Spec => []NoWaitCycle
<1>1. IInv => NoWaitCycle
  <2> SUFFICES ASSUME IInv, NEW S \in SUBSET Posters, S # {},
                      \A p \in S : \E q \in S : WaitsFor(p, q)
               PROVE  FALSE
    BY DEF NoWaitCycle
  <2> DEFINE T == S \cap Runs
  <2>1. T # {}
    <3>1. PICK p \in S : TRUE
      OBVIOUS
    <3>2. PICK q \in S : WaitsFor(p, q)
      OBVIOUS
    <3>3. p # q
      BY <3>2 DEF WaitsFor
    <3> QED
      BY <3>3, RunAssumption
  <2>2. ASSUME NEW r \in T PROVE \E s \in T : WaitsFor(r, s)
    <3>1. PICK q \in S : WaitsFor(r, q)
      OBVIOUS
    <3>2. q # Consumer
      BY <3>1, ConsumerNotInTheWay
    <3> QED
      BY <3>1, <3>2, RunAssumption
  <2> HIDE DEF T
  <2>3. T \subseteq Runs /\ T \subseteq Posters
    BY RunAssumption DEF T
  <2>4. \A r \in T : posting[r].done \in 0..4 /\ \E s \in T : posting[s].done > posting[r].done
    BY <2>2, <2>3, WaitsForFurther
  <2>5. \A r \in T : posting[r].done < 4
    BY <2>4
  <2>6. \A r \in T : posting[r].done < 3
    BY <2>4, <2>5
  <2>7. \A r \in T : posting[r].done < 2
    BY <2>4, <2>6
  <2>8. \A r \in T : posting[r].done < 1
    BY <2>4, <2>7
  <2> QED
    BY <2>1, <2>4, <2>8
<1> QED
  BY <1>1, Invariance, PTL

-----------------------------------------------------------------------------
(* Why only overlapping runs overdraw an account.  As long as no two runs   *)
(* were under way at once, what a run has still to settle is covered by the *)
(* balances, which nobody else lowers, and it has one item per merchant.    *)

InHand(r) == job[r].stage = "post" \/ posting[r].stage = "writing"

Covered(r) ==
  /\ \A t \in todo[r] : balance[t.merchant] >= t.amount
  /\ \A t, u \in todo[r] : t.merchant = u.merchant => t = u
  /\ InHand(r) =>
       LET row == batch[job[r].batch] IN
       balance[row.merchant] >= row.gross /\ \A t \in todo[r] : t.merchant # row.merchant

OneRun == \A r, s \in Runs : Busy(r) /\ Busy(s) => r = s

Solvent == ~overlapped => OneRun /\ PayableZeroedOut /\ \A r \in Runs : Covered(r)

(* A run that is not under way has nothing to cover. *)
LEMMA IdleRun ==
  ASSUME IInv, NEW r \in Runs, ~Busy(r)
  PROVE  todo[r] = {} /\ job[r] = NoJob /\ posting[r].stage = "none" /\ ~InHand(r) /\ Covered(r)
<1>1. todo[r] = {} /\ job[r] = NoJob /\ job[r].stage = "none"
  BY DEF Busy, NoJob
<1>2. posting[r].stage = "none"
  BY <1>1 DEF IInv, EngineInv, PostingsKnown, PostsItsBatch
<1> QED
  BY <1>1, <1>2 DEF InHand, Covered

(* The one run under way moves, and is covered afterwards. *)
LEMMA MovesAlone ==
  ASSUME IInv, OneRun, NEW r \in Runs, Busy(r), UNCHANGED balance, PayableZeroedOut,
         \A s \in Runs : s # r =>
           todo'[s] = todo[s] /\ job'[s] = job[s] /\ posting'[s] = posting[s],
         Covered(r)'
  PROVE  Solvent'
<1>1. ASSUME NEW s \in Runs, s # r PROVE ~Busy(s)' /\ Covered(s)'
  <2>1. ~Busy(s)
    BY <1>1 DEF OneRun
  <2>2. todo[s] = {} /\ job[s] = NoJob /\ posting[s].stage = "none"
    BY <2>1, IdleRun
  <2>3. todo'[s] = {} /\ job'[s] = NoJob /\ posting'[s].stage = "none" /\ job'[s].stage = "none"
    BY <1>1, <2>2 DEF NoJob
  <2> QED
    BY <2>3 DEF Busy, Covered, InHand
<1>2. OneRun'
  BY <1>1 DEF OneRun
<1>3. PayableZeroedOut'
  BY DEF PayableZeroedOut
<1> QED
  BY <1>1, <1>2, <1>3 DEF Solvent

(* A run starts, and no other is under way. *)
LEMMA FetchSolvent ==
  ASSUME IInv, Solvent, NEW r \in Runs, SettleFetch(r), ~overlapped' PROVE Solvent'
<1>1. /\ ~overlapped /\ \A s \in Runs : ~Busy(s)
      /\ todo' = [todo EXCEPT ![r] = FindEligibleBalances]
      /\ UNCHANGED <<balance, posting, job>>
  BY DEF SettleFetch, ledgerVars, IInv, EngineInv, EngineTypeOK
<1>2. \A s \in Runs : todo[s] = {} /\ job[s] = NoJob /\ posting[s].stage = "none"
  BY <1>1, IdleRun
<1>3. \A s \in Runs : s # r => todo'[s] = {}
  BY <1>1, <1>2 DEF IInv, EngineInv, EngineTypeOK
<1>4. todo'[r] = FindEligibleBalances
  BY <1>1 DEF IInv, EngineInv, EngineTypeOK
<1>5. \A s \in Runs : ~InHand(s)' /\ job'[s] = NoJob
  BY <1>1, <1>2 DEF InHand, NoJob
<1>6. OneRun'
  BY <1>3, <1>5 DEF OneRun, Busy
<1>7. PayableZeroedOut'
  BY <1>1 DEF Solvent, PayableZeroedOut
<1>8. \A m \in Merchants : balance[m] \in Int
  BY Int64Facts DEF IInv, LedgerInv, LedgerTypeOK, Accounts
<1>9. Covered(r)'
  <2>1. \A t \in todo'[r] : t.merchant \in Merchants /\ t.amount = balance[t.merchant]
                            /\ t = [merchant |-> t.merchant, amount |-> balance[t.merchant]]
    BY <1>4 DEF FindEligibleBalances
  <2>2. \A t \in todo'[r] : balance'[t.merchant] >= t.amount
    BY <1>1, <1>8, <2>1
  <2>3. \A t, u \in todo'[r] : t.merchant = u.merchant => t = u
    BY <2>1
  <2> QED
    BY <1>5, <2>2, <2>3 DEF Covered
<1>10. ASSUME NEW s \in Runs, s # r PROVE Covered(s)'
  BY <1>3, <1>5, <1>10 DEF Covered
<1> QED
  BY <1>6, <1>7, <1>9, <1>10 DEF Solvent

(* A balance is taken from the list: its batch is covered. *)
LEMMA NextSolvent ==
  ASSUME IInv, Solvent, NEW r \in Runs, SettleNext(r), ~overlapped' PROVE Solvent'
<1>1. PICK t \in todo[r], b \in Batches :
        /\ job[r] = NoJob /\ batch[b] = NoBatch
        /\ todo' = [todo EXCEPT ![r] = @ \ {t}]
        /\ \/ CreateBatch(b, t) /\ job' = [job EXCEPT ![r] = [stage |-> "post", batch |-> b]]
           \/ UNCHANGED job
        /\ UNCHANGED <<ledgerVars, exceptions, transfers, overlapped>>
  BY DEF SettleNext
<1>2. UNCHANGED <<balance, posting, overlapped>> /\ Busy(r)
  BY <1>1 DEF ledgerVars, Busy
<1>3. OneRun /\ PayableZeroedOut /\ Covered(r)
  BY <1>2 DEF Solvent
<1>4. /\ todo'[r] = todo[r] \ {t}
      /\ \A s \in Runs : s # r => todo'[s] = todo[s] /\ job'[s] = job[s]
  BY <1>1 DEF IInv, EngineInv, EngineTypeOK
<1>5. posting'[r].stage = "none"
  BY <1>1, <1>2 DEF IInv, EngineInv, PostingsKnown, PostsItsBatch, NoJob
<1>6. InHand(r)' => batch'[job'[r].batch].merchant = t.merchant
                    /\ batch'[job'[r].batch].gross = t.amount
  <2>1. CASE UNCHANGED job
    BY <1>1, <1>5, <2>1 DEF InHand, NoJob
  <2>2. CASE CreateBatch(b, t) /\ job' = [job EXCEPT ![r] = [stage |-> "post", batch |-> b]]
    <3>1. job'[r].batch = b
      BY <2>2 DEF IInv, EngineInv, EngineTypeOK
    <3>2. batch'[b] = [merchant |-> t.merchant, gross |-> t.amount, status |-> "PROCESSING"]
      BY <2>2 DEF CreateBatch, IInv, EngineInv, EngineTypeOK
    <3> QED
      BY <3>1, <3>2
  <2> QED
    BY <1>1, <2>1, <2>2
<1>7. /\ \A u \in todo'[r] : balance'[u.merchant] >= u.amount /\ u.merchant # t.merchant
      /\ \A u, v \in todo'[r] : u.merchant = v.merchant => u = v
      /\ balance'[t.merchant] >= t.amount
  BY <1>2, <1>3, <1>4 DEF Covered
<1>8. Covered(r)'
  BY <1>6, <1>7 DEF Covered
<1> QED
  BY <1>2, <1>3, <1>4, <1>8, MovesAlone

(* The list and the balances stay, and what was in hand stays or is done.   *)
LEMMA GoesOn ==
  ASSUME IInv, Solvent, NEW r \in Runs, Busy(r), ~overlapped, UNCHANGED <<todo, balance>>,
         \A s \in Runs : s # r => job'[s] = job[s] /\ posting'[s] = posting[s],
         InHand(r)' => InHand(r) /\ UNCHANGED batch /\ job'[r].batch = job[r].batch
  PROVE  Solvent'
<1>1. OneRun /\ PayableZeroedOut /\ Covered(r)
  BY DEF Solvent
<1>2. Covered(r)'
  BY <1>1 DEF Covered
<1> QED
  BY <1>1, <1>2, MovesAlone

LEMMA RunSolvent ==
  ASSUME IInv, Solvent, NEW r \in Runs, SettleRun(r), ~overlapped' PROVE Solvent'
<1>1. /\ EngineTypeOK /\ r \in Posters /\ Runs \subseteq Posters
      /\ posting \in [Posters -> Postings]
  BY RunAssumption DEF IInv, EngineInv, LedgerInv, LedgerTypeOK
<1>2. CASE SettleFetch(r)
  BY <1>2, FetchSolvent
<1>3. CASE SettleNext(r)
  BY <1>3, NextSolvent
<1>4. CASE SettlePost(r)
  <2>1. /\ job[r].stage = "post" /\ Goto(r, "ledger") /\ ~overlapped
        /\ UNCHANGED <<todo, balance, batch>>
        /\ \A s \in Posters : s # r => posting'[s] = posting[s]
    BY <1>1, <1>4 DEF SettlePost, Post
  <2>2. Busy(r) /\ InHand(r)
    BY <2>1 DEF Busy, NoJob, InHand
  <2>3. (\A s \in Runs : s # r => job'[s] = job[s]) /\ job'[r].batch = job[r].batch
    BY <1>1, <2>1, GoneTo
  <2> QED
    BY <1>1, <2>1, <2>2, <2>3, GoesOn
<1>5. CASE SettleRefused(r) \/ SettleTransfer(r)
  <2>1. /\ job[r].stage = "ledger" /\ Return(r) /\ ~overlapped /\ UNCHANGED <<todo, balance>>
        /\ \E stage \in {"complete", "retry", "except"} : Goto(r, stage)
    BY <1>5 DEF SettleRefused, SettleTransfer
  <2>2. (\A s \in Runs : s # r => job'[s] = job[s]) /\ job'[r].stage # "post"
    BY <1>1, <2>1, GoneTo
  <2>3. (\A s \in Runs : s # r => posting'[s] = posting[s]) /\ posting'[r].stage = "none"
    BY <1>1, <2>1 DEF Return, NotPosting
  <2>4. Busy(r) /\ ~InHand(r)'
    BY <2>1, <2>2, <2>3 DEF Busy, NoJob, InHand
  <2> QED
    BY <2>1, <2>2, <2>3, <2>4, GoesOn
<1>6. CASE SettleComplete(r) \/ SettleRetryPending(r) \/ LogException(r)
  <2>1. /\ job[r].stage \in {"complete", "retry", "except"}
        /\ ~overlapped /\ UNCHANGED <<todo, balance, posting>>
        /\ job' = [job EXCEPT ![r] = NoJob] \/ Goto(r, "except")
    BY <1>6 DEF SettleComplete, SettleRetryPending, LogException, ledgerVars
  <2>2. (\A s \in Runs : s # r => job'[s] = job[s]) /\ job'[r].stage # "post"
    BY <1>1, <2>1, GoneTo, Finished
  <2>3. posting'[r].stage = "none"
    BY <1>1, <2>1 DEF IInv, EngineInv, PostingsKnown, PostsItsBatch, LedgerInv, LedgerTypeOK,
       Postings
  <2>4. Busy(r) /\ ~InHand(r)'
    BY <2>1, <2>2, <2>3 DEF Busy, NoJob, InHand
  <2> QED
    BY <2>1, <2>2, <2>4, GoesOn
<1> QED
  BY <1>2, <1>3, <1>4, <1>5, <1>6 DEF SettleRun

(* Someone moves who has no part in the runs, and lowers no balance.        *)
LEMMA AsideSolvent ==
  ASSUME IInv, Solvent, UNCHANGED engineVars,
         \A r \in Runs : posting'[r] = posting[r],
         \A m \in Merchants : balance'[m] \in Int /\ balance'[m] >= balance[m]
  PROVE  Solvent'
<1> SUFFICES ASSUME ~overlapped PROVE Solvent'
  BY DEF engineVars, Solvent
<1>1. UNCHANGED <<todo, job, batch>> /\ OneRun /\ PayableZeroedOut /\ \A r \in Runs : Covered(r)
  BY DEF engineVars, Solvent
<1>2. \A m \in Merchants : balance[m] \in Int
  BY Int64Facts DEF IInv, LedgerInv, LedgerTypeOK, Accounts
<1>3. OneRun'
  BY <1>1 DEF OneRun, Busy
<1>4. PayableZeroedOut'
  BY <1>1, <1>2 DEF PayableZeroedOut
<1>5. ASSUME NEW r \in Runs PROVE Covered(r)'
  <2>1. \A t \in todo[r] : t.merchant \in Merchants /\ t.amount \in Int
    BY WidthAssumption DEF IInv, EngineInv, EngineTypeOK, Payables
  <2>2. \A t \in todo'[r] : balance'[t.merchant] >= t.amount
    BY <1>1, <1>2, <2>1 DEF Covered
  <2>3. ASSUME InHand(r)
        PROVE  batch[job[r].batch].merchant \in Merchants /\ batch[job[r].batch].gross \in Int
    <3>1. job[r].stage # "none"
      BY <2>3 DEF InHand, IInv, EngineInv, PostingsKnown, PostsItsBatch
    <3> QED
      BY <3>1, BatchInHand, Int64Facts DEF IInv, Rows
  <2>4. InHand(r)' <=> InHand(r)
    BY <1>1 DEF InHand
  <2>5. InHand(r) => balance'[batch[job[r].batch].merchant] >= batch[job[r].batch].gross
    BY <1>1, <1>2, <2>3 DEF Covered
  <2> QED
    BY <1>1, <2>2, <2>4, <2>5 DEF Covered
<1> QED
  BY <1>3, <1>4, <1>5 DEF Solvent

(* What the entries of a run's journal and of the fee add to the payables.  *)
LEMMA RunImpact ==
  ASSUME IInv, NEW r \in Runs, posting[r].stage = "writing", NEW m \in Merchants
  PROVE  LET row == batch[job[r].batch] IN
         /\ row.merchant \in Merchants /\ row.gross \in Int
         /\ Impact(posting[r].entries, m) = IF m = row.merchant THEN -row.gross ELSE 0
<1> DEFINE row == batch[job[r].batch]
           es == posting[r].entries
<1>1. job[r].stage = "ledger" /\ es = SettlementEntries(row.merchant, row.gross)
  BY DEF IInv, EngineInv, PostingsKnown, PostsItsBatch, JournalOf
<1>2. row.merchant \in Merchants /\ row.gross \in Int
  BY <1>1, BatchInHand, Int64Facts DEF IInv, Rows
<1>3. m \notin {"REVENUE-FEES", "TAX-PAYABLE", "RESERVE-HOLDBACK", "BANK-SETTLEMENT"}
  BY MerchantAssumption DEF Fixed
<1>4. /\ DOMAIN es = 1..5 /\ es[1] = Debit(row.merchant, row.gross)
      /\ \A i \in 2..5 : es[i].account # m
  BY <1>1, <1>3 DEF SettlementEntries, Debit, Credit
<1>5. /\ es[1].account = row.merchant /\ es[1].side = "DEBIT" /\ es[1].amount = row.gross
      /\ \A i \in 1..5 : es[i].account = m => i = 1
  BY <1>4 DEF Debit
<1> HIDE DEF row, es
<1>6. CASE m = row.merchant
  <2>1. Names(es, m) /\ (CHOOSE i \in DOMAIN es : es[i].account = m) = 1
    BY <1>4, <1>5, <1>6 DEF Names
  <2>2. Impact(es, m) = -row.gross
    BY <1>5, <2>1 DEF Impact, Signed
  <2> QED
    BY <1>2, <1>6, <2>2 DEF row, es
<1>7. CASE m # row.merchant
  <2>1. ~Names(es, m)
    BY <1>4, <1>5, <1>7 DEF Names
  <2> QED
    BY <1>2, <1>7, <2>1 DEF Impact, row, es
<1> QED
  BY <1>6, <1>7

LEMMA FeeImpact ==
  ASSUME IInv, posting[Consumer].stage = "writing", NEW m \in Merchants
  PROVE  Impact(posting[Consumer].entries, m) = 0
<1> DEFINE es == posting[Consumer].entries
<1>1. es = FeeEntries
  BY DEF IInv, EngineInv, PostingsKnown, PostsFee
<1>2. m \notin {"MERCHANT-WALLET", "ONBOARDING-REVENUE", "TAX-PAYABLE"}
  BY MerchantAssumption DEF Fixed
<1>3. ~Names(es, m)
  BY <1>1, <1>2 DEF FeeEntries, Names, Debit, Credit
<1> QED
  BY <1>3 DEF Impact

LEMMA PostingSolvent ==
  ASSUME IInv, Solvent, NEW p \in Posters, LedgerStep(p), UNCHANGED engineVars PROVE Solvent'
<1>1. /\ posting[p].stage = "writing" /\ \A s \in Posters : s # p => posting'[s] = posting[s]
      /\ \/ UNCHANGED <<booked, balance>>
         \/ AllWritten(p) /\ Booked(p) /\ posting'[p].stage # "writing"
  BY LedgerMoves DEF IInv
<1>2. \A m \in Merchants : m \in Accounts /\ balance[m] \in Int
  BY Int64Facts DEF IInv, LedgerInv, LedgerTypeOK, Accounts
<1>3. Consumer \in Posters /\ Runs \subseteq Posters /\ Consumer \notin Runs
  BY RunAssumption
<1>4. CASE p = Consumer
  <2>1. \A m \in Merchants : balance'[m] = balance[m]
    <3>1. CASE UNCHANGED balance
      BY <3>1
    <3>2. CASE AllWritten(p) /\ Booked(p)
      <4> SUFFICES ASSUME NEW m \in Merchants PROVE balance'[m] = balance[m]
        OBVIOUS
      <4>1. balance'[m] = balance[m] + Impact(posting[p].entries, m)
        BY <1>2, <3>2, CommitMoves DEF IInv
      <4>2. Impact(posting[p].entries, m) = 0
        BY <1>1, <1>4, FeeImpact
      <4> QED
        BY <1>2, <4>1, <4>2
    <3> QED
      BY <1>1, <3>1, <3>2
  <2> QED
    BY <1>1, <1>2, <1>3, <1>4, <2>1, AsideSolvent
<1>5. CASE p # Consumer
  <2>1. p \in Runs
    BY <1>5, RunAssumption
  <2> SUFFICES ASSUME ~overlapped PROVE Solvent'
    BY DEF engineVars, Solvent
  <2> DEFINE row == batch[job[p].batch]
  <2>2. /\ OneRun /\ PayableZeroedOut /\ Covered(p) /\ UNCHANGED <<todo, job, batch>>
    BY <2>1 DEF engineVars, Solvent
  <2>3. InHand(p) /\ Busy(p)
    BY <1>1, <2>1 DEF InHand, Busy, NoJob, IInv, EngineInv, PostingsKnown, PostsItsBatch
  <2>4. CASE UNCHANGED balance
    <3>1. Covered(p)'
      BY <2>2, <2>3, <2>4 DEF Covered
    <3> QED
      BY <1>1, <1>3, <2>1, <2>2, <2>3, <2>4, <3>1, MovesAlone
  <2>5. CASE AllWritten(p) /\ Booked(p) /\ posting'[p].stage # "writing"
    <3>1. /\ row.merchant \in Merchants /\ row.gross \in Int
          /\ \A m \in Merchants :
               Impact(posting[p].entries, m) = IF m = row.merchant THEN -row.gross ELSE 0
      <4>1. row.merchant \in Merchants /\ row.gross \in Int
        <5>1. job[p].stage # "none"
          BY <1>1, <2>1 DEF IInv, EngineInv, PostingsKnown, PostsItsBatch
        <5> QED
          BY <2>1, <5>1, BatchInHand, Int64Facts DEF IInv, Rows
      <4> QED
        BY <1>1, <2>1, <4>1, RunImpact
    <3>2. balance[row.merchant] >= row.gross /\ \A t \in todo[p] : t.merchant # row.merchant
      BY <2>2, <2>3 DEF Covered
    <3>3. \A m \in Merchants : balance'[m] = balance[m] + Impact(posting[p].entries, m)
      BY <1>2, <2>5, CommitMoves DEF IInv
    <3> HIDE DEF row
    <3>4. \A m \in Merchants : m # row.merchant => balance'[m] = balance[m]
      BY <1>2, <3>1, <3>3
    <3>5. PayableZeroedOut'
      BY <1>2, <2>2, <3>1, <3>2, <3>3, <3>4 DEF PayableZeroedOut
    <3>6. \A t \in todo[p] : t.merchant \in Merchants
      BY <2>1 DEF IInv, EngineInv, EngineTypeOK, Payables
    <3>7. ~InHand(p)'
      <4>1. job[p].stage = "ledger"
        BY <1>1, <2>1 DEF IInv, EngineInv, PostingsKnown, PostsItsBatch
      <4> QED
        BY <2>2, <2>5, <4>1 DEF InHand
    <3>8. Covered(p)'
      BY <2>2, <3>2, <3>4, <3>6, <3>7 DEF Covered
    <3>9. ASSUME NEW s \in Runs, s # p PROVE Covered(s)'
      <4>1. todo[s] = {} /\ job[s] = NoJob /\ posting[s].stage = "none"
        BY <2>1, <2>2, <2>3, <3>9, IdleRun DEF OneRun
      <4>2. todo'[s] = {} /\ job'[s].stage = "none" /\ posting'[s].stage = "none"
        BY <1>1, <1>3, <2>2, <3>9, <4>1 DEF NoJob
      <4> QED
        BY <4>2 DEF Covered, InHand
    <3>10. OneRun'
      BY <2>2 DEF OneRun, Busy
    <3> QED
      BY <3>5, <3>8, <3>9, <3>10 DEF Solvent
  <2> QED
    BY <1>1, <2>4, <2>5
<1> QED
  BY <1>4, <1>5

LEMMA EarnSolvent ==
  ASSUME IInv, Solvent, NEW e \in Earnings, NEW m \in Merchants, NEW x \in Amounts, Earn(e, m, x)
  PROVE  Solvent'
<1>1. /\ UNCHANGED posting /\ UNCHANGED engineVars
      /\ balance' = [balance EXCEPT ![m] = @ + x, !["CLEARING"] = @ - x]
  BY DEF Earn
<1>2. x \in Int /\ x > 0
  BY AmountAssumption, WidthAssumption
<1>3. \A n \in Merchants : n \in Accounts /\ balance[n] \in Int /\ n # "CLEARING"
  BY Int64Facts, MerchantAssumption DEF IInv, LedgerInv, LedgerTypeOK, Accounts, Fixed
<1>4. \A n \in Merchants : balance'[n] = IF n = m THEN balance[n] + x ELSE balance[n]
  BY <1>1, <1>3 DEF IInv, LedgerInv, LedgerTypeOK
<1>5. \A n \in Merchants : balance'[n] \in Int /\ balance'[n] >= balance[n]
  BY <1>2, <1>3, <1>4
<1> QED
  BY <1>1, <1>5, AsideSolvent

LEMMA OthersSolvent ==
  ASSUME IInv, Solvent,
         (\E f \in Fees : PostFee(f)) \/ FeePosted
           \/ \E a \in Accounts : CreateAccount(a) /\ UNCHANGED engineVars
  PROVE  Solvent'
<1>1. UNCHANGED engineVars /\ UNCHANGED balance
  BY DEF PostFee, Post, FeePosted, CreateAccount
<1>2. \A r \in Runs : posting'[r] = posting[r]
  <2>1. posting \in [Posters -> Postings] /\ Runs \subseteq Posters /\ Consumer \notin Runs
    BY RunAssumption DEF IInv, LedgerInv, LedgerTypeOK
  <2>2. CASE \E f \in Fees : PostFee(f)
    BY <2>1, <2>2 DEF PostFee, Post
  <2>3. CASE FeePosted
    BY <2>1, <2>3 DEF FeePosted, Return
  <2>4. CASE \E a \in Accounts : CreateAccount(a)
    BY <2>4 DEF CreateAccount
  <2> QED
    BY <2>2, <2>3, <2>4
<1>3. \A m \in Merchants : balance'[m] \in Int /\ balance'[m] >= balance[m]
  <2>1. \A m \in Merchants : balance[m] \in Int
    BY Int64Facts DEF IInv, LedgerInv, LedgerTypeOK, Accounts
  <2>2. \A m \in Merchants : balance'[m] = balance[m]
    BY <1>1
  <2> QED
    BY <2>1, <2>2
<1> QED
  BY <1>1, <1>2, <1>3, AsideSolvent

LEMMA CrashSolvent == ASSUME IInv, Solvent, Crash PROVE Solvent'
<1>1. /\ \A r \in Runs : todo'[r] = {} /\ job'[r] = NoJob /\ job'[r].stage = "none"
      /\ \A r \in Runs : posting'[r].stage = "none"
      /\ UNCHANGED <<balance, overlapped>>
  BY RunAssumption DEF Crash, LedgerCrash, NotPosting, NoJob
<1>2. OneRun' /\ \A r \in Runs : Covered(r)'
  BY <1>1 DEF OneRun, Busy, Covered, InHand
<1>3. ~overlapped => PayableZeroedOut'
  BY <1>1 DEF Solvent, PayableZeroedOut
<1> QED
  BY <1>1, <1>2, <1>3 DEF Solvent

LEMMA NextSolvency == ASSUME IInv, Solvent, Next PROVE Solvent'
<1>1. ASSUME NEW r \in Runs, SettleRun(r) PROVE Solvent'
  <2>1. CASE overlapped'
    BY <2>1 DEF Solvent
  <2>2. CASE ~overlapped'
    BY <1>1, <2>2, RunSolvent
  <2> QED
    BY <2>1, <2>2
<1> QED
  BY <1>1, PostingSolvent, EarnSolvent, OthersSolvent, CrashSolvent DEF Next

(* A merchant's account goes below zero only after two settlement runs were *)
(* under way at once, whatever fails, is answered wrongly, dies or comes in *)
(* meanwhile.                                                               *)
THEOREM OverdrawnByOverlap == Spec => []OverdrawnOnlyByOverlap
<1>1. Init => Solvent
  <2> SUFFICES ASSUME Init PROVE Solvent
    OBVIOUS
  <2>1. \A r \in Runs : ~Busy(r)
    BY DEF Init, Busy
  <2>2. \A r \in Runs : Covered(r)
    BY <2>1, InitIInv, IdleRun
  <2>3. PayableZeroedOut
    BY DEF Init, LedgerInit, PayableZeroedOut, Accounts
  <2> QED
    BY <2>1, <2>2, <2>3 DEF Solvent, OneRun
<1>2. Solvent /\ UNCHANGED vars => Solvent'
  BY DEF Solvent, vars, ledgerVars, engineVars, OneRun, Busy, PayableZeroedOut, Covered, InHand
<1>3. IInv /\ Solvent /\ [Next]_vars => Solvent'
  BY <1>2, NextSolvency
<1>4. Solvent => OverdrawnOnlyByOverlap
  BY DEF Solvent, OverdrawnOnlyByOverlap
<1> QED
  BY <1>1, <1>3, <1>4, Invariance, PTL DEF Spec

-----------------------------------------------------------------------------

LEMMA WrapId == ASSUME NEW x \in Int64 PROVE Wrap(x) = x
<1>1. MaxInt \in Nat /\ x \in Int /\ -MaxInt - 1 <= x /\ x <= MaxInt
  BY WidthAssumption DEF Int64
<1> DEFINE n == 2 * (MaxInt + 1)
           y == x + MaxInt + 1
<1>2. n \in Nat /\ n > 0 /\ y \in Nat /\ y < n
  BY <1>1
<1> HIDE DEF n, y
<1>3. y % n = y
  BY <1>2
<1>4. Wrap(x) = y - (MaxInt + 1)
  BY <1>3 DEF Wrap, n, y
<1> QED
  BY <1>1, <1>4 DEF y

(* As long as ten times the gross amount fits an int64, the shares of a     *)
(* settlement add up to it, and a share is zero - so that the ledger turns  *)
(* the journal away - exactly below 300 paise.                              *)
THEOREM SharesAddUp ==
  ASSUME NEW gross \in 1..MaxInt, gross * 10 <= MaxInt
  PROVE  /\ Fee(gross) + Tax(gross) + Reserve(gross) + Net(gross) = gross
         /\ {Fee(gross), Tax(gross), Reserve(gross), Net(gross)} \subseteq Nat
         /\ 0 \notin {Fee(gross), Tax(gross), Reserve(gross), Net(gross)} <=> gross >= 300
<1>1. MaxInt \in Nat /\ gross \in Int /\ gross >= 1
  BY WidthAssumption
<1>2. ASSUME NEW x \in Nat, x <= MaxInt PROVE Wrap(x) = x /\ Quot(x, 100) = x \div 100
  <2>1. x \in Int64
    BY <1>1, <1>2 DEF Int64
  <2> QED
    BY <1>1, <2>1, WrapId DEF Quot
<1>3. ASSUME NEW x \in Nat
      PROVE  x \div 100 \in Nat /\ 100 * (x \div 100) <= x /\ x < 100 * (x \div 100) + 100
  OBVIOUS
<1>4. gross * 2 \in Nat /\ gross * 2 <= MaxInt /\ gross * 10 \in Nat
  BY <1>1
<1> DEFINE f == Fee(gross)
           t == Tax(gross)
           v == Reserve(gross)
<1>5. f = (gross * 2) \div 100 /\ v = (gross * 10) \div 100
  BY <1>2, <1>4 DEF Fee, Reserve
<1>6. f \in Nat /\ 100 * f <= gross * 2 /\ gross * 2 < 100 * f + 100
  BY <1>3, <1>4, <1>5
<1>7. v \in Nat /\ 100 * v <= gross * 10 /\ gross * 10 < 100 * v + 100
  BY <1>3, <1>4, <1>5
<1>8. f * 18 \in Nat /\ f * 18 <= MaxInt
  BY <1>1, <1>6
<1>9. t = (f * 18) \div 100
  BY <1>2, <1>8 DEF Tax
<1>10. t \in Nat /\ 100 * t <= f * 18 /\ f * 18 < 100 * t + 100
  BY <1>3, <1>8, <1>9
<1> HIDE DEF f, t, v
<1>11. gross - f - t - v \in Nat /\ gross - f - t - v > 0 /\ gross - f - t - v <= MaxInt
  BY <1>1, <1>6, <1>7, <1>10
<1>12. Net(gross) = gross - f - t - v
  BY <1>2, <1>11 DEF Net, f, t, v
<1>13. gross >= 300 <=> t > 0
  BY <1>1, <1>6, <1>10
<1>14. gross >= 300 => f > 0 /\ v > 0
  BY <1>1, <1>6, <1>7
<1> QED
  BY <1>1, <1>6, <1>7, <1>10, <1>11, <1>12, <1>13, <1>14 DEF f, t, v

(* A percentage that comes out positive is at most a hundredth of the       *)
(* largest int64.                                                           *)
LEMMA SmallShare ==
  ASSUME NEW x \in Int, Quot(Wrap(x), 100) > 0
  PROVE  Quot(Wrap(x), 100) \in Int /\ 100 * Quot(Wrap(x), 100) <= MaxInt
<1> DEFINE w == Wrap(x)
<1>1. MaxInt \in Nat /\ w \in Int /\ w <= MaxInt
  BY WidthAssumption, WrapType DEF Int64
<1> HIDE DEF w
<1>2. ASSUME NEW y \in Nat PROVE y \div 100 \in Nat /\ 100 * (y \div 100) <= y
  OBVIOUS
<1>3. CASE w >= 0
  BY <1>1, <1>2, <1>3 DEF Quot, w
<1>4. CASE ~(w >= 0)
  <2>1. Quot(w, 100) = -((-w) \div 100) /\ (-w) \in Nat
    BY <1>1, <1>4 DEF Quot
  <2>2. (-w) \div 100 \in Nat
    BY <1>2, <2>1
  <2> QED
    BY <2>1, <2>2 DEF w
<1> QED
  BY <1>1, <1>3, <1>4

(* Whatever the amount, and whether or not its shares overflowed on the     *)
(* way: a settlement of which no share is zero or less, as the ledger wants *)
(* it, adds up to the paisa.                                                *)
THEOREM AcceptedAddsUp ==
  ASSUME NEW gross \in Int64, gross > 0, Fee(gross) > 0, Tax(gross) > 0, Reserve(gross) > 0
  PROVE  /\ Fee(gross) \in Int /\ Tax(gross) \in Int /\ Reserve(gross) \in Int
         /\ Net(gross) = gross - Fee(gross) - Tax(gross) - Reserve(gross)
<1> DEFINE f == Fee(gross)
           t == Tax(gross)
           v == Reserve(gross)
<1>1. MaxInt \in Nat /\ gross \in Int /\ gross <= MaxInt
  BY WidthAssumption DEF Int64
<1>2. f \in Int /\ 100 * f <= MaxInt
  BY <1>1, SmallShare DEF Fee
<1>3. t \in Int /\ 100 * t <= MaxInt
  <2>1. f * 18 \in Int
    BY <1>2
  <2> QED
    BY <2>1, SmallShare DEF Tax
<1>4. v \in Int /\ 100 * v <= MaxInt
  BY <1>1, SmallShare DEF Reserve
<1>5. f > 0 /\ t > 0 /\ v > 0
  OBVIOUS
<1>6. Net(gross) = Wrap(gross - f - t - v)
  BY DEF Net
<1> HIDE DEF f, t, v
<1>7. gross - f - t - v \in Int64
  BY <1>1, <1>2, <1>3, <1>4, <1>5 DEF Int64
<1>8. Net(gross) = gross - f - t - v
  BY <1>6, <1>7, WrapId
<1> QED
  BY <1>2, <1>3, <1>4, <1>8 DEF f, t, v

-----------------------------------------------------------------------------
(* Debits and credits over the whole ledger.  What a journal adds to the    *)
(* accounts comes to nothing, whichever of the three lists it is.           *)

EvenJournal(es) ==
  /\ \A a \in Accounts : Impact(es, a) \in Int
  /\ SumFunctionOnSet([a \in Accounts |-> Impact(es, a)], Accounts) = 0

LEMMA FixedAccounts == IsFiniteSet(Accounts) /\ Fixed \subseteq Accounts /\ Merchants \subseteq Accounts
<1>1. IsFiniteSet({})
  BY FS_EmptySet
<1>2. ASSUME NEW S, IsFiniteSet(S), NEW x PROVE IsFiniteSet(S \cup {x})
  BY <1>2, FS_AddElement
<1>3. Fixed = ((((((({} \cup {"MERCHANT-WALLET"}) \cup {"ONBOARDING-REVENUE"})
                  \cup {"REVENUE-FEES"}) \cup {"TAX-PAYABLE"}) \cup {"RESERVE-HOLDBACK"})
                \cup {"BANK-SETTLEMENT"}) \cup {"CLEARING"})
  BY DEF Fixed
<1>4. IsFiniteSet(Fixed)
  BY <1>1, <1>2, <1>3
<1> QED
  BY <1>4, MerchantAssumption, FS_Union DEF Accounts

(* A sum in which only five accounts count. *)
LEMMA FiveCount ==
  ASSUME NEW b, \A x \in Accounts : b[x] \in Int,
         NEW a1 \in Accounts, NEW a2 \in Accounts, NEW a3 \in Accounts,
         NEW a4 \in Accounts, NEW a5 \in Accounts,
         a1 # a2, a1 # a3, a1 # a4, a1 # a5, a2 # a3, a2 # a4, a2 # a5,
         a3 # a4, a3 # a5, a4 # a5,
         \A x \in Accounts \ {a1, a2, a3, a4, a5} : b[x] = 0
  PROVE  SumFunctionOnSet(b, Accounts) = b[a1] + b[a2] + b[a3] + b[a4] + b[a5]
<1> DEFINE S0 == Accounts
           S1 == S0 \ {a1}
           S2 == S1 \ {a2}
           S3 == S2 \ {a3}
           S4 == S3 \ {a4}
           S5 == S4 \ {a5}
<1>1. /\ IsFiniteSet(S0) /\ IsFiniteSet(S1) /\ IsFiniteSet(S2)
      /\ IsFiniteSet(S3) /\ IsFiniteSet(S4) /\ IsFiniteSet(S5)
  BY FixedAccounts, FS_Subset
<1>2. a1 \in S0 /\ a2 \in S1 /\ a3 \in S2 /\ a4 \in S3 /\ a5 \in S4
  OBVIOUS
<1>3. SumFunctionOnSet(b, S0) = b[a1] + SumFunctionOnSet(b, S1)
  BY <1>1, <1>2, SumRemove
<1>4. SumFunctionOnSet(b, S1) = b[a2] + SumFunctionOnSet(b, S2)
  BY <1>1, <1>2, SumRemove
<1>5. SumFunctionOnSet(b, S2) = b[a3] + SumFunctionOnSet(b, S3)
  BY <1>1, <1>2, SumRemove
<1>6. SumFunctionOnSet(b, S3) = b[a4] + SumFunctionOnSet(b, S4)
  BY <1>1, <1>2, SumRemove
<1>7. SumFunctionOnSet(b, S4) = b[a5] + SumFunctionOnSet(b, S5)
  BY <1>1, <1>2, SumRemove
<1>8. SumFunctionOnSet(b, S5) = 0
  BY <1>1, SumZero
<1> HIDE DEF S1, S2, S3, S4, S5
<1> QED
  BY <1>3, <1>4, <1>5, <1>6, <1>7, <1>8

LEMMA ImpactOf ==
  ASSUME NEW es, OneEntryEach(es), NEW i \in DOMAIN es
  PROVE  Impact(es, es[i].account) = Signed(es[i])
<1> DEFINE k == CHOOSE j \in DOMAIN es : es[j].account = es[i].account
<1>1. k \in DOMAIN es /\ es[k].account = es[i].account
  OBVIOUS
<1>2. k = i
  BY <1>1 DEF OneEntryEach
<1>3. Names(es, es[i].account)
  BY DEF Names
<1> QED
  BY <1>2, <1>3 DEF Impact

LEMMA SettlementEven ==
  ASSUME IInv, NEW r \in Runs, posting[r].stage = "writing"
  PROVE  EvenJournal(posting[r].entries)
<1> DEFINE row == batch[job[r].batch]
           es == posting[r].entries
           g == row.gross
           b == [a \in Accounts |-> Impact(es, a)]
<1>1. job[r].stage = "ledger" /\ es = SettlementEntries(row.merchant, g)
  BY DEF IInv, EngineInv, PostingsKnown, PostsItsBatch, JournalOf
<1>2. row.merchant \in Merchants /\ g \in Int64
  BY <1>1, BatchInHand DEF IInv, Rows
<1>3. OneEntryEach(es) /\ ~Rejects(es)
  BY RunAssumption DEF IInv, LedgerInv, ProgressOK
<1>4. /\ DOMAIN es = 1..5
      /\ es[1] = Debit(row.merchant, g) /\ es[2] = Credit("REVENUE-FEES", Fee(g))
      /\ es[3] = Credit("TAX-PAYABLE", Tax(g)) /\ es[4] = Credit("RESERVE-HOLDBACK", Reserve(g))
      /\ es[5] = Credit("BANK-SETTLEMENT", Net(g))
  BY <1>1 DEF SettlementEntries
<1> HIDE DEF row, es, g
<1>5. /\ es[1].account = row.merchant /\ es[2].account = "REVENUE-FEES"
      /\ es[3].account = "TAX-PAYABLE" /\ es[4].account = "RESERVE-HOLDBACK"
      /\ es[5].account = "BANK-SETTLEMENT"
      /\ es[1].amount = g /\ es[2].amount = Fee(g) /\ es[3].amount = Tax(g)
      /\ es[4].amount = Reserve(g) /\ es[5].amount = Net(g)
      /\ es[1].side = "DEBIT" /\ \A i \in 2..5 : es[i].side = "CREDIT"
  BY <1>4 DEF Debit, Credit
<1>6. /\ g \in Int /\ Fee(g) \in Int /\ Tax(g) \in Int /\ Reserve(g) \in Int /\ Net(g) \in Int
      /\ g > 0 /\ Fee(g) > 0 /\ Tax(g) > 0 /\ Reserve(g) > 0
  <2>1. g \in Int /\ Fee(g) \in Int /\ Tax(g) \in Int /\ Reserve(g) \in Int /\ Net(g) \in Int
    BY <1>2, ShareTypes, Int64Facts
  <2>2. \A i \in 1..5 : ~(es[i].amount <= 0)
    BY <1>3, <1>4 DEF Rejects
  <2> QED
    BY <1>5, <2>1, <2>2
<1>7. Net(g) = g - Fee(g) - Tax(g) - Reserve(g)
  BY <1>2, <1>6, AcceptedAddsUp
<1>8. /\ b[row.merchant] = -g /\ b["REVENUE-FEES"] = Fee(g) /\ b["TAX-PAYABLE"] = Tax(g)
      /\ b["RESERVE-HOLDBACK"] = Reserve(g) /\ b["BANK-SETTLEMENT"] = Net(g)
  <2>1. \A i \in 1..5 : Impact(es, es[i].account) = Signed(es[i])
    BY <1>3, <1>4, ImpactOf
  <2>2. \A i \in 1..5 : es[i].account \in Accounts
    BY <1>2, <1>5, FixedAccounts DEF Fixed
  <2>3. /\ Signed(es[1]) = -g /\ Signed(es[2]) = Fee(g) /\ Signed(es[3]) = Tax(g)
        /\ Signed(es[4]) = Reserve(g) /\ Signed(es[5]) = Net(g)
    BY <1>5 DEF Signed
  <2> QED
    BY <1>5, <2>1, <2>2, <2>3
<1>9. \A x \in Accounts \ {row.merchant, "REVENUE-FEES", "TAX-PAYABLE", "RESERVE-HOLDBACK",
                            "BANK-SETTLEMENT"} : b[x] = 0
  <2> SUFFICES ASSUME NEW x \in Accounts \ {row.merchant, "REVENUE-FEES", "TAX-PAYABLE",
                                            "RESERVE-HOLDBACK", "BANK-SETTLEMENT"}
               PROVE  b[x] = 0
    OBVIOUS
  <2>1. \A i \in 1..5 : es[i].account # x
    BY <1>5
  <2>2. ~Names(es, x)
    BY <1>4, <2>1 DEF Names
  <2> QED
    BY <2>2 DEF Impact
<1>10. \A x \in Accounts : b[x] \in Int
  BY <1>6, <1>8, <1>9
<1> DEFINE m == row.merchant
<1>11. /\ m \in Accounts /\ "REVENUE-FEES" \in Accounts /\ "TAX-PAYABLE" \in Accounts
       /\ "RESERVE-HOLDBACK" \in Accounts /\ "BANK-SETTLEMENT" \in Accounts
       /\ m # "REVENUE-FEES" /\ m # "TAX-PAYABLE" /\ m # "RESERVE-HOLDBACK"
       /\ m # "BANK-SETTLEMENT"
  BY <1>2, FixedAccounts, MerchantAssumption DEF Fixed
<1>12. SumFunctionOnSet(b, Accounts) =
         b[m] + b["REVENUE-FEES"] + b["TAX-PAYABLE"] + b["RESERVE-HOLDBACK"]
           + b["BANK-SETTLEMENT"]
  <2>1. \A x \in Accounts \ {m, "REVENUE-FEES", "TAX-PAYABLE", "RESERVE-HOLDBACK",
                              "BANK-SETTLEMENT"} : b[x] = 0
    BY <1>9
  <2> HIDE DEF b, m
  <2> QED
    BY <1>10, <1>11, <2>1, FiveCount
<1>13. SumFunctionOnSet(b, Accounts) = 0
  <2> HIDE DEF b
  <2> QED
    BY <1>6, <1>7, <1>8, <1>12
<1> QED
  BY <1>10, <1>13 DEF EvenJournal, es

LEMMA FeeEven == EvenJournal(FeeEntries)
<1> DEFINE es == FeeEntries
           b == [a \in Accounts |-> Impact(es, a)]
<1>1. /\ DOMAIN es = 1..3 /\ OneEntryEach(es)
      /\ es[1].account = "MERCHANT-WALLET" /\ es[2].account = "ONBOARDING-REVENUE"
      /\ es[3].account = "TAX-PAYABLE"
      /\ es[1].amount = 5000 /\ es[2].amount = 4500 /\ es[3].amount = 500
      /\ es[1].side = "DEBIT" /\ es[2].side = "CREDIT" /\ es[3].side = "CREDIT"
  BY DEF FeeEntries, Debit, Credit, OneEntryEach
<1>2. /\ "MERCHANT-WALLET" \in Accounts /\ "ONBOARDING-REVENUE" \in Accounts
      /\ "TAX-PAYABLE" \in Accounts /\ "CLEARING" \in Accounts
      /\ "BANK-SETTLEMENT" \in Accounts
  BY FixedAccounts DEF Fixed
<1> HIDE DEF es
<1>3. /\ b["MERCHANT-WALLET"] = -5000 /\ b["ONBOARDING-REVENUE"] = 4500
      /\ b["TAX-PAYABLE"] = 500
  <2>1. \A i \in 1..3 : Impact(es, es[i].account) = Signed(es[i])
    BY <1>1, ImpactOf
  <2>2. Signed(es[1]) = -5000 /\ Signed(es[2]) = 4500 /\ Signed(es[3]) = 500
    BY <1>1 DEF Signed
  <2> QED
    BY <1>1, <1>2, <2>1, <2>2
<1>4. \A x \in Accounts \ {"MERCHANT-WALLET", "ONBOARDING-REVENUE", "TAX-PAYABLE"} : b[x] = 0
  <2> SUFFICES ASSUME NEW x \in Accounts \ {"MERCHANT-WALLET", "ONBOARDING-REVENUE",
                                            "TAX-PAYABLE"}
               PROVE  b[x] = 0
    OBVIOUS
  <2>1. \A i \in 1..3 : es[i].account # x
    BY <1>1
  <2>2. ~Names(es, x)
    BY <1>1, <2>1 DEF Names
  <2> QED
    BY <2>2 DEF Impact
<1>5. \A x \in Accounts : b[x] \in Int
  BY <1>3, <1>4
<1>6. SumFunctionOnSet(b, Accounts) =
        b["MERCHANT-WALLET"] + b["ONBOARDING-REVENUE"] + b["TAX-PAYABLE"] + b["CLEARING"]
          + b["BANK-SETTLEMENT"]
  <2> HIDE DEF b
  <2> QED
    BY <1>2, <1>4, <1>5, FiveCount
<1>7. SumFunctionOnSet(b, Accounts) = 0
  <2>1. b["CLEARING"] = 0 /\ b["BANK-SETTLEMENT"] = 0
    BY <1>2, <1>4
  <2> HIDE DEF b
  <2> QED
    BY <1>3, <1>6, <2>1
<1> QED
  BY <1>5, <1>7 DEF EvenJournal, es

LEMMA EarnEven ==
  ASSUME NEW m \in Merchants, NEW x \in Amounts
  PROVE  EvenJournal(<<Debit("CLEARING", x), Credit(m, x)>>)
<1> DEFINE es == <<Debit("CLEARING", x), Credit(m, x)>>
           b == [a \in Accounts |-> Impact(es, a)]
<1>1. /\ m \in Accounts /\ "CLEARING" \in Accounts /\ "TAX-PAYABLE" \in Accounts
      /\ "RESERVE-HOLDBACK" \in Accounts /\ "BANK-SETTLEMENT" \in Accounts
      /\ m # "CLEARING" /\ m # "TAX-PAYABLE" /\ m # "RESERVE-HOLDBACK"
      /\ m # "BANK-SETTLEMENT"
  BY FixedAccounts, MerchantAssumption DEF Fixed
<1>2. x \in Int
  BY AmountAssumption, WidthAssumption
<1>3. /\ DOMAIN es = 1..2 /\ OneEntryEach(es)
      /\ es[1].account = "CLEARING" /\ es[1].amount = x /\ es[1].side = "DEBIT"
      /\ es[2].account = m /\ es[2].amount = x /\ es[2].side = "CREDIT"
  BY <1>1 DEF Debit, Credit, OneEntryEach
<1> HIDE DEF es
<1>4. b["CLEARING"] = -x /\ b[m] = x
  <2>1. \A i \in 1..2 : Impact(es, es[i].account) = Signed(es[i])
    BY <1>3, ImpactOf
  <2>2. Signed(es[1]) = -x /\ Signed(es[2]) = x
    BY <1>3 DEF Signed
  <2> QED
    BY <1>1, <1>3, <2>1, <2>2
<1>5. \A y \in Accounts \ {"CLEARING", m} : b[y] = 0
  <2> SUFFICES ASSUME NEW y \in Accounts \ {"CLEARING", m} PROVE b[y] = 0
    OBVIOUS
  <2>1. ~Names(es, y)
    BY <1>3 DEF Names
  <2> QED
    BY <2>1 DEF Impact
<1>6. \A y \in Accounts : b[y] \in Int
  BY <1>2, <1>4, <1>5
<1>7. SumFunctionOnSet(b, Accounts) =
        b["CLEARING"] + b[m] + b["TAX-PAYABLE"] + b["RESERVE-HOLDBACK"] + b["BANK-SETTLEMENT"]
  <2> HIDE DEF b
  <2>1. \A y \in Accounts \ {"CLEARING", m, "TAX-PAYABLE", "RESERVE-HOLDBACK", "BANK-SETTLEMENT"} :
          b[y] = 0
    BY <1>5
  <2> QED
    BY <1>1, <1>6, <2>1, FiveCount
<1>8. SumFunctionOnSet(b, Accounts) = 0
  <2>1. b["TAX-PAYABLE"] = 0 /\ b["RESERVE-HOLDBACK"] = 0 /\ b["BANK-SETTLEMENT"] = 0
    BY <1>1, <1>5
  <2> HIDE DEF b
  <2> QED
    BY <1>2, <1>4, <1>7, <2>1
<1> QED
  BY <1>6, <1>8 DEF EvenJournal, es

(* A journal that comes to nothing leaves the ledger balanced. *)
LEMMA EvenKeeps ==
  ASSUME IInv, LedgerBalances, NEW es, EvenJournal(es),
         balance' = [a \in Accounts |-> balance[a] + Impact(es, a)]
  PROVE  LedgerBalances'
<1> DEFINE i == [a \in Accounts |-> Impact(es, a)]
<1>1. balance \in [Accounts -> Int]
  BY Int64Facts DEF IInv, LedgerInv, LedgerTypeOK
<1>2. SumFunctionOnSet(balance, Accounts) = 0
  BY <1>1 DEF LedgerBalances, SumFunction
<1>3. SumFunctionOnSet(i, Accounts) = 0 /\ \A a \in Accounts : i[a] \in Int
  BY DEF EvenJournal
<1>4. \A a \in Accounts : balance[a] \in Int /\ i[a] \in Int /\ balance'[a] = balance[a] + i[a]
  BY <1>1, <1>3
<1>5. SumFunctionOnSet(balance', Accounts) =
        SumFunctionOnSet(balance, Accounts) + SumFunctionOnSet(i, Accounts)
  <2> HIDE DEF i
  <2> QED
    BY <1>4, FixedAccounts, SumAdds
<1>6. DOMAIN balance' = Accounts
  OBVIOUS
<1> QED
  BY <1>2, <1>3, <1>5, <1>6 DEF LedgerBalances, SumFunction

LEMMA NextBalances == ASSUME IInv, LedgerBalances, Next PROVE LedgerBalances'
<1>1. ASSUME UNCHANGED balance PROVE LedgerBalances'
  BY <1>1 DEF LedgerBalances
<1>2. ASSUME NEW r \in Runs, SettleRun(r) PROVE UNCHANGED balance
  BY <1>2 DEF SettleRun, SettleFetch, SettleNext, SettlePost, Post, SettleRefused, SettleTransfer,
     SettleComplete, SettleRetryPending, LogException, ledgerVars
<1>3. ASSUME NEW p \in Posters, LedgerStep(p) PROVE LedgerBalances'
  <2>1. posting[p].stage = "writing" /\ (UNCHANGED balance \/ (AllWritten(p) /\ Booked(p)))
    BY <1>3, LedgerMoves DEF IInv
  <2>2. EvenJournal(posting[p].entries)
    <3>1. CASE p = Consumer
      BY <2>1, <3>1, FeeEven DEF IInv, EngineInv, PostingsKnown, PostsFee
    <3>2. CASE p \in Runs
      BY <2>1, <3>2, SettlementEven
    <3> QED
      BY <3>1, <3>2, RunAssumption
  <2>3. ASSUME AllWritten(p), Booked(p)
        PROVE  balance' = [a \in Accounts |-> balance[a] + Impact(posting[p].entries, a)]
    BY <2>3, CommitMoves DEF IInv, Booked
  <2> QED
    BY <1>1, <2>1, <2>2, <2>3, EvenKeeps
<1>4. ASSUME NEW f \in Fees, PostFee(f) PROVE UNCHANGED balance
  BY <1>4 DEF PostFee, Post
<1>5. ASSUME FeePosted \/ Crash \/ \E a \in Accounts : CreateAccount(a) PROVE UNCHANGED balance
  BY <1>5 DEF FeePosted, Crash, LedgerCrash, CreateAccount
<1>6. ASSUME NEW e \in Earnings, NEW m \in Merchants, NEW x \in Amounts, Earn(e, m, x)
      PROVE  LedgerBalances'
  BY <1>6, EarnMoves, EarnEven, EvenKeeps
<1> QED
  BY <1>1, <1>2, <1>3, <1>4, <1>5, <1>6 DEF Next

(* Debits and credits stay equal over the whole ledger, through overlapping *)
(* runs, failed posts and crashes, and even where an amount is so large     *)
(* that its shares overflow.                                                *)
THEOREM DebitsMatchCredits == Spec => []LedgerBalances
<1>1. Init => LedgerBalances
  <2> SUFFICES ASSUME Init PROVE LedgerBalances
    OBVIOUS
  <2>1. DOMAIN balance = Accounts /\ \A a \in Accounts : balance[a] = 0
    BY DEF Init, LedgerInit
  <2> QED
    BY <2>1, FixedAccounts, SumZero DEF LedgerBalances, SumFunction
<1>2. IInv /\ LedgerBalances /\ [Next]_vars => LedgerBalances'
  BY NextBalances DEF LedgerBalances, vars, ledgerVars
<1> QED
  BY <1>1, <1>2, Invariance, PTL DEF Spec

===============================================================================
