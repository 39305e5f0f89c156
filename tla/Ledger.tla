-------------------------------- MODULE Ledger --------------------------------
(***************************************************************************)
(* LedgerService.Post and LedgerRepository.PostJournal.  A goroutine that  *)
(* posts opens a database transaction, inserts the journal, then for each  *)
(* entry in turn inserts the entry and upserts the balance of its account, *)
(* and commits.                                                            *)
(*                                                                         *)
(* The upsert adds to the row as last committed and keeps the row locked   *)
(* until the end of the database transaction, as PostgreSQL does in read   *)
(* committed mode; another upsert of that row waits.  (A row that is not   *)
(* there yet is waited for too, through its unique index.)  Entries are    *)
(* invisible until the commit, so they are part of the journal booked by   *)
(* it.                                                                     *)
(***************************************************************************)
EXTENDS Amounts

CONSTANTS
  Posters,   \* goroutines that post
  NoPoster,  \* nobody
  Refs,      \* journals, known by what they are posted for
  NoRef,     \* no journal
  Opened,    \* accounts opened before the program is started
  DbFails    \* TRUE: a statement may fail, or succeed and be reported failed

ASSUME PosterAssumption == NoPoster \notin Posters
ASSUME RefAssumption == NoRef \notin Refs
ASSUME OpenedAssumption == Opened \subseteq Accounts
ASSUME DbAssumption == DbFails \in BOOLEAN

VARIABLES
  opened,   \* accounts with a row in ledger_account
  posting,  \* what each poster is posting, and how far it has come
  draft,    \* the balances each poster has written and not committed
  holder,   \* who holds the lock on each row of account_balance
  booked,   \* journals committed, with their entries
  balance   \* current_balance as committed; 0 if there is no row

ledgerVars == <<opened, posting, draft, holder, booked, balance>>

NotPosting == [stage |-> "none", ref |-> NoRef, entries |-> <<>>, done |-> 0]

Postings == [stage : {"none", "writing", "posted", "refused"}, ref : Refs \cup {NoRef},
             entries : Seq(Entries), done : Nat]

LedgerTypeOK ==
  /\ opened \subseteq Accounts
  /\ posting \in [Posters -> Postings]
  /\ draft \in [Posters -> [Accounts -> Int64]]
  /\ holder \in [Accounts -> Posters \cup {NoPoster}]
  /\ booked \subseteq [ref : Refs, entries : Seq(Entries)]
  /\ balance \in [Accounts -> Int64]

Untouched == [a \in Accounts |-> 0]

LedgerInit ==
  /\ opened = Opened
  /\ posting = [p \in Posters |-> NotPosting]
  /\ draft = [p \in Posters |-> Untouched]
  /\ holder = [a \in Accounts |-> NoPoster]
  /\ booked = {} /\ balance = [a \in Accounts |-> 0]

-----------------------------------------------------------------------------

(* Nothing in the program calls CreateAccount: accounts are opened by hand. *)
CreateAccount(a) ==
  /\ a \notin opened /\ opened' = opened \cup {a}
  /\ UNCHANGED <<posting, draft, holder, booked, balance>>

Release(p) ==
  /\ holder' = [a \in Accounts |-> IF holder[a] = p THEN NoPoster ELSE holder[a]]
  /\ draft' = [draft EXCEPT ![p] = Untouched]

(* The database transaction is rolled back and Post returns an error. *)
Refuse(p) ==
  /\ posting' = [posting EXCEPT ![p].stage = "refused"]
  /\ Release(p) /\ UNCHANGED <<opened, booked, balance>>

(* Post: the checks, then BEGIN and the insert of the journal. *)
Post(p, ref, entries) ==
  /\ posting[p].stage = "none"
  /\ \E stage \in {"writing", "refused"} :
       /\ posting' = [posting EXCEPT ![p] =
                        [stage |-> stage, ref |-> ref, entries |-> entries, done |-> 0]]
       /\ stage = "writing" => ~Rejects(entries)
       /\ stage = "refused" => Rejects(entries) \/ DbFails
  /\ UNCHANGED <<opened, draft, holder, booked, balance>>

NextEntry(p) == posting[p].entries[posting[p].done + 1]

Writing(p) == posting[p].stage = "writing" /\ posting[p].done < Len(posting[p].entries)

(* The balance with the entry: of the row as committed, or as this database *)
(* transaction left it.                                                     *)
NewBalance(p) ==
  LET a == NextEntry(p).account
  IN  (IF holder[a] = p THEN draft[p][a] ELSE balance[a]) + Signed(NextEntry(p))

Upsert(p) ==
  LET a == NextEntry(p).account IN
  /\ NewBalance(p) \in Int64
  /\ draft' = [draft EXCEPT ![p][a] = NewBalance(p)]
  /\ holder' = [holder EXCEPT ![a] = p]
  /\ posting' = [posting EXCEPT ![p].done = @ + 1]

(* A slip that the runs must catch: the upsert does not wait for the row. *)
WriteEntryUnlocked(p) ==
  /\ Writing(p) /\ NextEntry(p).account \in opened
  /\ Upsert(p) /\ UNCHANGED <<opened, booked, balance>>

(* Another: the journal has no database transaction around it. *)
WriteEntryAtOnce(p) ==
  LET a == NextEntry(p).account IN
  /\ Writing(p) /\ a \in opened
  /\ balance' = [balance EXCEPT ![a] = @ + Signed(NextEntry(p))]
  /\ posting' = [posting EXCEPT ![p].done = @ + 1]
  /\ UNCHANGED <<opened, draft, holder, booked>>

(* Insert the next entry and upsert its balance, once the row is free.      *)
WriteEntry(p) ==
  /\ Writing(p) /\ NextEntry(p).account \in opened
  /\ holder[NextEntry(p).account] \in {p, NoPoster}
  /\ Upsert(p) /\ UNCHANGED <<opened, booked, balance>>

(* A statement fails: the account has not been opened (foreign key), the    *)
(* balance would not fit its BIGINT, or the database reports an error.      *)
WriteFails(p) ==
  /\ Writing(p)
  /\ \/ NextEntry(p).account \notin opened
     \/ /\ holder[NextEntry(p).account] \in {p, NoPoster}
        /\ NewBalance(p) \notin Int64
     \/ DbFails
  /\ Refuse(p)

(* What a commit makes visible. *)
Booked(p) ==
  /\ booked' = booked \cup {[ref |-> posting[p].ref, entries |-> posting[p].entries]}
  /\ balance' = [a \in Accounts |-> IF holder[a] = p THEN draft[p][a] ELSE balance[a]]
  /\ Release(p) /\ UNCHANGED opened

AllWritten(p) == posting[p].stage = "writing" /\ posting[p].done = Len(posting[p].entries)

(* The commit; the answer to one that was carried out may be lost. *)
Commit(p) ==
  /\ AllWritten(p)
  /\ \/ Booked(p) /\ posting' = [posting EXCEPT ![p].stage = "posted"]
     \/ DbFails /\ Booked(p) /\ posting' = [posting EXCEPT ![p].stage = "refused"]
     \/ DbFails /\ Refuse(p)

LedgerStep(p) == WriteEntry(p) \/ WriteFails(p) \/ Commit(p)

(* The caller takes the result. *)
Return(p) == posting' = [posting EXCEPT ![p] = NotPosting]

(* The process dies: PostgreSQL rolls its open transactions back. *)
LedgerCrash ==
  /\ posting' = [p \in Posters |-> NotPosting]
  /\ draft' = [p \in Posters |-> Untouched]
  /\ holder' = [a \in Accounts |-> NoPoster]
  /\ UNCHANGED <<opened, booked, balance>>

-----------------------------------------------------------------------------

WaitsFor(p, q) ==
  Writing(p) /\ NextEntry(p).account \in opened /\ p # q /\ holder[NextEntry(p).account] = q

(* Journals never wait on each other in a ring, whatever is posted at one   *)
(* time: entries take their row locks one by one, in the order of the       *)
(* entry lists, and the two lists of the program name the accounts they     *)
(* share in one order.                                                      *)
NoWaitCycle ==
  \A S \in SUBSET Posters : S # {} => \E p \in S : \A q \in S : ~WaitsFor(p, q)

Atomic == INSTANCE AtomicLedger

(* A journal is booked whole or not at all, and no update of a balance is   *)
(* lost between journals that are posted side by side, fail or die.         *)
ImplementsAtomicLedger == Atomic!AtomicSpec

=============================================================================
