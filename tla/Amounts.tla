------------------------------- MODULE Amounts -------------------------------
(***************************************************************************)
(* Amounts of money and the entries of a journal: the int64 arithmetic of  *)
(* internal/scheduler/settlement.go and internal/ledger/service.go, the    *)
(* shares a settlement is divided into, and the two entry lists the        *)
(* program posts.  Amounts are in paise.                                   *)
(*                                                                         *)
(* Accounts are known by the part of their name that varies: the payable   *)
(* account of a merchant, ACC-PAYABLE-<id>, by the merchant, the others by *)
(* what follows "ACC-".                                                    *)
(***************************************************************************)
EXTENDS Integers, Sequences, FiniteSets, Functions

CONSTANTS
  MaxInt,    \* the largest int64
  Merchants  \* merchants, and their payable accounts

Fixed == {"MERCHANT-WALLET", "ONBOARDING-REVENUE", "REVENUE-FEES", "TAX-PAYABLE",
          "RESERVE-HOLDBACK", "BANK-SETTLEMENT", "CLEARING"}

Accounts == Merchants \cup Fixed

ASSUME WidthAssumption == MaxInt \in Nat /\ MaxInt >= 5000
ASSUME MerchantAssumption == Merchants \cap Fixed = {} /\ IsFiniteSet(Merchants)

Int64 == (-MaxInt - 1)..MaxInt

(* Two's complement: a result out of range comes round at the other end.    *)
Wrap(x) == ((x + MaxInt + 1) % (2 * (MaxInt + 1))) - (MaxInt + 1)

(* Division in Go truncates towards zero. *)
Quot(x, d) == IF x >= 0 THEN x \div d ELSE -((-x) \div d)

-----------------------------------------------------------------------------
(* The shares of a gross amount: 2% fee, 18% tax on the fee, 10% reserve. *)

Fee(gross) == Quot(Wrap(gross * 2), 100)
Tax(gross) == Quot(Wrap(Fee(gross) * 18), 100)
Reserve(gross) == Quot(Wrap(gross * 10), 100)
Net(gross) == Wrap(gross - Fee(gross) - Tax(gross) - Reserve(gross))

-----------------------------------------------------------------------------
(* Entries. *)

Entries == [account : Accounts, side : {"DEBIT", "CREDIT"}, amount : Int64]

Debit(a, x) == [account |-> a, side |-> "DEBIT", amount |-> x]
Credit(a, x) == [account |-> a, side |-> "CREDIT", amount |-> x]

(* What an entry adds to the balance of its account. *)
Signed(e) == IF e.side = "DEBIT" THEN -e.amount ELSE e.amount

(* An int64 sum over the entries of one side. *)
TotalOf(entries, side) ==
  MapThenFoldSet(LAMBDA x, y : Wrap(x + y), 0, LAMBDA i : entries[i].amount,
                 LAMBDA S : CHOOSE i \in S : TRUE,
                 {i \in DOMAIN entries : entries[i].side = side})

(* LedgerService.Post turns such entries away before it touches a table. *)
Rejects(entries) ==
  \/ \E i \in DOMAIN entries : entries[i].amount <= 0
  \/ TotalOf(entries, "DEBIT") # TotalOf(entries, "CREDIT")

Names(entries, a) == \E i \in DOMAIN entries : entries[i].account = a

(* What a journal as a whole adds to the balance of an account; a journal   *)
(* has at most one entry for each.                                          *)
Impact(entries, a) ==
  IF Names(entries, a)
  THEN Signed(entries[CHOOSE i \in DOMAIN entries : entries[i].account = a]) ELSE 0

(* A slip that the runs must catch: the entries are kept in a Go map, which *)
(* may be walked in the opposite order at another time.                     *)
SettlementEntriesAnyOrder(m, gross) ==
  LET entries == <<Debit(m, gross),
                   Credit("REVENUE-FEES", Fee(gross)), Credit("TAX-PAYABLE", Tax(gross)),
                   Credit("RESERVE-HOLDBACK", Reserve(gross)),
                   Credit("BANK-SETTLEMENT", Net(gross))>>
  IN  IF gross % 2 = 0 THEN entries ELSE [i \in 1..5 |-> entries[6 - i]]

(* The journal of a settlement, in the order of the code. *)
SettlementEntries(m, gross) ==
  <<Debit(m, gross),
    Credit("REVENUE-FEES", Fee(gross)), Credit("TAX-PAYABLE", Tax(gross)),
    Credit("RESERVE-HOLDBACK", Reserve(gross)), Credit("BANK-SETTLEMENT", Net(gross))>>

(* The journal of the onboarding fee. *)
FeeEntries ==
  <<Debit("MERCHANT-WALLET", 5000), Credit("ONBOARDING-REVENUE", 4500),
    Credit("TAX-PAYABLE", 500)>>

=============================================================================
