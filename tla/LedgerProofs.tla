----------------------------- MODULE LedgerProofs -----------------------------
(***************************************************************************)
(* What a posting keeps, whatever is posted and however many goroutines    *)
(* post: facts about Ledger for any accounts, posters and width of the     *)
(* integers, used by SettlementProofs.                                     *)
(*                                                                         *)
(* The invariant says where a posting stands: the rows it has locked are   *)
(* those of the entries it has written, and the balance it has written for *)
(* each is the committed one with that entry added - which no other        *)
(* posting can have changed, since the row is locked.                      *)
(***************************************************************************)
EXTENDS Ledger, TLAPS

(* A journal has at most one entry for each account. *)
OneEntryEach(entries) ==
  \A i, j \in DOMAIN entries : entries[i].account = entries[j].account => i = j

ProgressOK ==
  \A p \in Posters :
    /\ posting[p].done \in 0..Len(posting[p].entries)
    /\ posting[p].stage = "writing" =>
         /\ posting[p].ref \in Refs
         /\ OneEntryEach(posting[p].entries) /\ ~Rejects(posting[p].entries)

PostedIsBooked ==
  \A p \in Posters : posting[p].stage = "posted" =>
    [ref |-> posting[p].ref, entries |-> posting[p].entries] \in booked

LocksAreOfEntries ==
  \A p \in Posters : \A a \in Accounts : holder[a] = p =>
    /\ posting[p].stage = "writing"
    /\ \E i \in 1..posting[p].done : posting[p].entries[i].account = a

DraftsAreDue ==
  \A p \in Posters : posting[p].stage = "writing" => \A i \in 1..posting[p].done :
    LET e == posting[p].entries[i] IN
    /\ holder[e.account] = p
    /\ draft[p][e.account] = balance[e.account] + Signed(e)

LedgerInv == LedgerTypeOK /\ ProgressOK /\ PostedIsBooked /\ LocksAreOfEntries /\ DraftsAreDue

-----------------------------------------------------------------------------

LEMMA Int64Facts == Int64 \subseteq Int /\ 0 \in Int64 /\ 1..MaxInt \subseteq Int64
BY WidthAssumption DEF Int64

LEMMA WrapType == ASSUME NEW x \in Int PROVE Wrap(x) \in Int64
<1> DEFINE n == 2 * (MaxInt + 1)
<1>1. n \in Nat /\ n > 0 /\ MaxInt \in Nat
  BY WidthAssumption
<1>2. (x + MaxInt + 1) % n \in 0..(n - 1)
  <2> DEFINE y == x + MaxInt + 1
  <2>1. y \in Int
    BY <1>1
  <2> HIDE DEF n, y
  <2> QED
    BY <1>1, <2>1
<1> QED
  BY <1>1, <1>2 DEF Wrap, Int64

LEMMA InitLedgerInv == LedgerInit => LedgerInv
<1> SUFFICES ASSUME LedgerInit PROVE LedgerInv
  OBVIOUS
<1> USE DEF LedgerInit, NotPosting
<1>1. LedgerTypeOK
  BY Int64Facts, OpenedAssumption DEF LedgerTypeOK, Postings, Untouched
<1>2. ProgressOK /\ PostedIsBooked /\ LocksAreOfEntries /\ DraftsAreDue
  BY PosterAssumption DEF ProgressOK, PostedIsBooked, LocksAreOfEntries, DraftsAreDue
<1> QED
  BY <1>1, <1>2 DEF LedgerInv

(* Steps of others leave a ledger step's facts alone. *)
LEMMA LedgerKept == ASSUME LedgerInv, UNCHANGED ledgerVars PROVE LedgerInv'
BY DEF LedgerInv, ledgerVars, LedgerTypeOK, ProgressOK, PostedIsBooked, LocksAreOfEntries,
       DraftsAreDue

LEMMA AccountStep == ASSUME LedgerInv, NEW a \in Accounts, CreateAccount(a) PROVE LedgerInv'
BY DEF CreateAccount, LedgerInv, LedgerTypeOK, ProgressOK, PostedIsBooked, LocksAreOfEntries,
       DraftsAreDue

LEMMA CrashStep == ASSUME LedgerInv, LedgerCrash PROVE LedgerInv'
<1> USE DEF LedgerCrash, NotPosting
<1>1. LedgerTypeOK'
  BY Int64Facts DEF LedgerInv, LedgerTypeOK, Postings, Untouched
<1>2. (ProgressOK /\ PostedIsBooked /\ LocksAreOfEntries /\ DraftsAreDue)'
  BY PosterAssumption DEF ProgressOK, PostedIsBooked, LocksAreOfEntries, DraftsAreDue
<1> QED
  BY <1>1, <1>2 DEF LedgerInv

(* A poster that is not writing begins, or takes a result: no row is touched. *)
LEMMA IdleMoves ==
  ASSUME LedgerInv, NEW p \in Posters, NEW q \in Postings, posting[p].stage # "writing",
         posting' = [posting EXCEPT ![p] = q],
         q.done = 0, q.stage # "posted",
         q.stage = "writing" =>
           q.ref \in Refs /\ OneEntryEach(q.entries) /\ ~Rejects(q.entries),
         UNCHANGED <<opened, draft, holder, booked, balance>>
  PROVE  LedgerInv'
<1>1. \A s \in Posters : posting'[s] = IF s = p THEN q ELSE posting[s]
  BY DEF LedgerInv, LedgerTypeOK
<1>2. LedgerTypeOK'
  BY DEF LedgerInv, LedgerTypeOK
<1>3. ProgressOK'
  <2>1. Len(q.entries) \in Nat
    BY DEF Postings
  <2> QED
    BY <1>1, <2>1 DEF LedgerInv, ProgressOK
<1>4. PostedIsBooked'
  BY <1>1 DEF LedgerInv, PostedIsBooked
<1>5. LocksAreOfEntries'
  BY <1>1 DEF LedgerInv, LocksAreOfEntries
<1>6. DraftsAreDue'
  BY <1>1 DEF LedgerInv, DraftsAreDue
<1> QED
  BY <1>2, <1>3, <1>4, <1>5, <1>6 DEF LedgerInv

LEMMA PostStep ==
  ASSUME LedgerInv, NEW p \in Posters, NEW ref \in Refs, NEW entries \in Seq(Entries),
         OneEntryEach(entries), Post(p, ref, entries)
  PROVE  LedgerInv'
<1>1. PICK stage \in {"writing", "refused"} :
        /\ posting' = [posting EXCEPT ![p] =
                         [stage |-> stage, ref |-> ref, entries |-> entries, done |-> 0]]
        /\ stage = "writing" => ~Rejects(entries)
  BY DEF Post
<1> DEFINE q == [stage |-> stage, ref |-> ref, entries |-> entries, done |-> 0]
<1>2. q \in Postings
  BY DEF Postings
<1>3. posting[p].stage # "writing" /\ UNCHANGED <<opened, draft, holder, booked, balance>>
  BY DEF Post
<1> QED
  BY <1>1, <1>2, <1>3, IdleMoves

LEMMA ReturnStep ==
  ASSUME LedgerInv, NEW p \in Posters, posting[p].stage # "writing", Return(p),
         UNCHANGED <<opened, draft, holder, booked, balance>>
  PROVE  LedgerInv'
<1>1. NotPosting \in Postings
  BY DEF NotPosting, Postings
<1> QED
  BY <1>1, IdleMoves DEF Return, NotPosting

-----------------------------------------------------------------------------

LEMMA EntryTypes ==
  ASSUME LedgerInv, NEW p \in Posters, NEW i \in 1..Len(posting[p].entries)
  PROVE  /\ posting[p].entries[i] \in Entries
         /\ posting[p].entries[i].account \in Accounts
         /\ Signed(posting[p].entries[i]) \in Int
<1>1. posting[p].entries \in Seq(Entries)
  BY DEF LedgerInv, LedgerTypeOK, Postings
<1>2. posting[p].entries[i] \in Entries
  BY <1>1
<1> DEFINE e == posting[p].entries[i]
<1>3. e.account \in Accounts /\ e.amount \in Int64
  BY <1>2 DEF Entries
<1>4. e.amount \in Int
  BY <1>3, Int64Facts
<1> HIDE DEF e
<1>5. Signed(e) \in Int
  BY <1>4 DEF Signed
<1> QED
  BY <1>2, <1>3, <1>5 DEF e

LEMMA NextEntryTypes ==
  ASSUME LedgerInv, NEW p \in Posters, Writing(p)
  PROVE  /\ posting[p].done \in Nat /\ posting[p].done + 1 \in 1..Len(posting[p].entries)
         /\ NextEntry(p).account \in Accounts /\ Signed(NextEntry(p)) \in Int
<1>1. /\ posting[p].done \in 0..Len(posting[p].entries) /\ Len(posting[p].entries) \in Nat
      /\ posting[p].done < Len(posting[p].entries)
  BY DEF LedgerInv, LedgerTypeOK, Postings, ProgressOK, Writing
<1>2. posting[p].done \in Nat /\ posting[p].done + 1 \in 1..Len(posting[p].entries)
  BY <1>1
<1> QED
  BY <1>2, EntryTypes DEF NextEntry

(* The row of an entry that is not written yet is not locked by its poster. *)
LEMMA NextIsUnlocked ==
  ASSUME LedgerInv, NEW p \in Posters, Writing(p)
  PROVE  holder[NextEntry(p).account] # p
<1> SUFFICES ASSUME holder[NextEntry(p).account] = p PROVE FALSE
  OBVIOUS
<1>1. /\ posting[p].done \in Nat /\ posting[p].done + 1 \in 1..Len(posting[p].entries)
      /\ NextEntry(p).account \in Accounts
  BY NextEntryTypes
<1>2. PICK i \in 1..posting[p].done : posting[p].entries[i].account = NextEntry(p).account
  BY <1>1 DEF LedgerInv, LocksAreOfEntries
<1>3. OneEntryEach(posting[p].entries)
  BY DEF LedgerInv, ProgressOK, Writing
<1>4. posting[p].entries \in Seq(Entries)
  BY DEF LedgerInv, LedgerTypeOK, Postings
<1>5. i \in DOMAIN posting[p].entries /\ posting[p].done + 1 \in DOMAIN posting[p].entries
  BY <1>1, <1>4
<1>6. i = posting[p].done + 1
  BY <1>2, <1>3, <1>5 DEF OneEntryEach, NextEntry
<1> QED
  BY <1>1, <1>6

LEMMA WriteStep == ASSUME LedgerInv, NEW p \in Posters, WriteEntry(p) PROVE LedgerInv'
<1> DEFINE a == NextEntry(p).account
           n == posting[p].done + 1
<1>1. Writing(p) /\ holder[a] \in {p, NoPoster}
  BY DEF WriteEntry
<1>2. /\ posting[p].done \in Nat /\ n \in 1..Len(posting[p].entries) /\ a \in Accounts
      /\ NextEntry(p) = posting[p].entries[n]
  BY <1>1, NextEntryTypes DEF NextEntry
<1>3. holder[a] = NoPoster
  BY <1>1, NextIsUnlocked
<1>4. NewBalance(p) = balance[a] + Signed(NextEntry(p)) /\ NewBalance(p) \in Int64
  BY <1>3, PosterAssumption DEF NewBalance, WriteEntry, Upsert
<1>5. /\ draft' = [draft EXCEPT ![p][a] = NewBalance(p)]
      /\ holder' = [holder EXCEPT ![a] = p]
      /\ posting' = [posting EXCEPT ![p].done = n]
      /\ UNCHANGED <<opened, booked, balance>>
  BY DEF WriteEntry, Upsert
<1> HIDE DEF a, n
<1>6. /\ \A s \in Posters : posting[s] \in Postings /\ posting'[s] \in Postings
      /\ \A s \in Posters : s # p => posting'[s] = posting[s]
      /\ posting'[p].done = n /\ posting'[p].entries = posting[p].entries
      /\ posting'[p].stage = posting[p].stage /\ posting'[p].ref = posting[p].ref
  <2>1. posting \in [Posters -> Postings] /\ n \in Nat
    BY <1>2 DEF LedgerInv, LedgerTypeOK
  <2>2. posting'[p] = [posting[p] EXCEPT !.done = n] /\ posting[p] \in Postings
    BY <1>5, <2>1
  <2>3. \A s \in Posters : s # p => posting'[s] = posting[s]
    BY <1>5, <2>1
  <2> DEFINE q == [posting[p] EXCEPT !.done = n]
  <2>4. q \in Postings
    BY <2>1, <2>2 DEF Postings
  <2>5. /\ q.done = n /\ q.entries = posting[p].entries
        /\ q.stage = posting[p].stage /\ q.ref = posting[p].ref
    BY <2>2 DEF Postings
  <2> HIDE DEF q
  <2>6. posting'[p] = q
    BY <2>2 DEF q
  <2>7. \A s \in Posters : posting[s] \in Postings
    BY <2>1
  <2> QED
    BY <2>3, <2>4, <2>5, <2>6, <2>7
<1>7. /\ \A b \in Accounts : holder'[b] = IF b = a THEN p ELSE holder[b]
      /\ \A s \in Posters : \A b \in Accounts :
           draft'[s][b] = IF s = p /\ b = a THEN NewBalance(p) ELSE draft[s][b]
  BY <1>2, <1>5 DEF LedgerInv, LedgerTypeOK
<1>8. LedgerTypeOK'
  <2>1. posting' \in [Posters -> Postings]
    BY <1>5, <1>6 DEF LedgerInv, LedgerTypeOK
  <2>2. draft' \in [Posters -> [Accounts -> Int64]]
    BY <1>2, <1>4, <1>5 DEF LedgerInv, LedgerTypeOK
  <2> QED
    BY <1>2, <1>5, <2>1, <2>2 DEF LedgerInv, LedgerTypeOK
<1>9. ProgressOK'
  BY <1>2, <1>6 DEF LedgerInv, ProgressOK
<1>10. PostedIsBooked'
  BY <1>5, <1>6 DEF LedgerInv, PostedIsBooked
<1>11. LocksAreOfEntries'
  <2> SUFFICES ASSUME NEW s \in Posters, NEW b \in Accounts, holder'[b] = s
               PROVE  /\ posting'[s].stage = "writing"
                      /\ \E i \in 1..posting'[s].done : posting'[s].entries[i].account = b
    BY DEF LocksAreOfEntries
  <2>1. CASE b = a
    <3>1. s = p /\ n \in 1..n /\ posting'[p].entries[n].account = a
      BY <1>2, <1>6, <1>7, <2>1 DEF a
    <3> QED
      BY <1>1, <1>6, <2>1, <3>1 DEF Writing
  <2>2. CASE b # a
    <3>1. /\ posting[s].stage = "writing"
          /\ \E i \in 1..posting[s].done : posting[s].entries[i].account = b
      BY <1>7, <2>2 DEF LedgerInv, LocksAreOfEntries
    <3>2. s = p => \A i \in 1..posting[p].done : i \in 1..n
      BY <1>2 DEF n
    <3> QED
      BY <1>6, <3>1, <3>2
  <2> QED
    BY <2>1, <2>2
<1>12. DraftsAreDue'
  <2> SUFFICES ASSUME NEW s \in Posters, posting'[s].stage = "writing",
                      NEW i \in 1..posting'[s].done
               PROVE  LET e == posting'[s].entries[i] IN
                      /\ holder'[e.account] = s
                      /\ draft'[s][e.account] = balance[e.account] + Signed(e)
    BY <1>5 DEF DraftsAreDue
  <2>1. CASE s = p /\ i = n
    BY <1>2, <1>4, <1>6, <1>7, <2>1 DEF a
  <2>2. CASE ~(s = p /\ i = n)
    <3>1. i \in 1..posting[s].done /\ posting[s].stage = "writing"
      BY <1>2, <1>6, <2>2 DEF n
    <3> DEFINE e == posting[s].entries[i]
    <3>2. i \in 1..Len(posting[s].entries)
      BY <3>1 DEF LedgerInv, LedgerTypeOK, ProgressOK, Postings
    <3>3. e.account \in Accounts
      BY <3>2, EntryTypes
    <3>4. holder[e.account] = s /\ draft[s][e.account] = balance[e.account] + Signed(e)
      BY <3>1 DEF LedgerInv, DraftsAreDue
    <3>5. e.account # a
      BY <1>3, <3>4, PosterAssumption
    <3>6. posting'[s].entries[i] = e
      BY <1>6
    <3> HIDE DEF e
    <3> QED
      BY <1>7, <3>3, <3>4, <3>5, <3>6
  <2> QED
    BY <2>1, <2>2
<1> QED
  BY <1>8, <1>9, <1>10, <1>11, <1>12 DEF LedgerInv

-----------------------------------------------------------------------------

(* A posting ends: its rows are unlocked, and no row it had not locked      *)
(* changes.                                                                 *)
LEMMA Ending ==
  ASSUME LedgerInv, NEW p \in Posters, NEW stage \in {"posted", "refused"},
         posting' = [posting EXCEPT ![p].stage = stage], Release(p), UNCHANGED opened,
         balance' \in [Accounts -> Int64],
         \A a \in Accounts : holder[a] # p => balance'[a] = balance[a],
         booked \subseteq booked', booked' \subseteq [ref : Refs, entries : Seq(Entries)],
         stage = "posted" =>
           [ref |-> posting[p].ref, entries |-> posting[p].entries] \in booked'
  PROVE  LedgerInv'
<1>1. /\ \A s \in Posters : s # p => posting'[s] = posting[s]
      /\ posting'[p].stage = stage /\ posting'[p].ref = posting[p].ref
      /\ posting'[p].entries = posting[p].entries /\ posting'[p].done = posting[p].done
      /\ posting' \in [Posters -> Postings]
  <2> DEFINE q == [posting[p] EXCEPT !.stage = stage]
  <2>1. posting \in [Posters -> Postings] /\ posting[p] \in Postings
    BY DEF LedgerInv, LedgerTypeOK
  <2>2. /\ q \in Postings /\ q.stage = stage /\ q.ref = posting[p].ref
        /\ q.entries = posting[p].entries /\ q.done = posting[p].done
    BY <2>1 DEF Postings
  <2>3. posting' = [posting EXCEPT ![p] = q]
    BY <2>1
  <2> HIDE DEF q
  <2> QED
    BY <2>1, <2>2, <2>3
<1>2. /\ \A a \in Accounts : holder'[a] = IF holder[a] = p THEN NoPoster ELSE holder[a]
      /\ \A s \in Posters : s # p => draft'[s] = draft[s]
      /\ holder' \in [Accounts -> Posters \cup {NoPoster}]
      /\ draft' \in [Posters -> [Accounts -> Int64]]
  BY Int64Facts DEF Release, Untouched, LedgerInv, LedgerTypeOK
<1>3. LedgerTypeOK'
  BY <1>1, <1>2 DEF LedgerInv, LedgerTypeOK
<1>4. ProgressOK'
  BY <1>1 DEF LedgerInv, ProgressOK
<1>5. PostedIsBooked'
  BY <1>1 DEF LedgerInv, PostedIsBooked
<1>6. LocksAreOfEntries'
  BY <1>1, <1>2, PosterAssumption DEF LedgerInv, LocksAreOfEntries
<1>7. DraftsAreDue'
  <2> SUFFICES ASSUME NEW s \in Posters, posting'[s].stage = "writing",
                      NEW i \in 1..posting'[s].done
               PROVE  LET e == posting'[s].entries[i] IN
                      /\ holder'[e.account] = s
                      /\ draft'[s][e.account] = balance'[e.account] + Signed(e)
    BY DEF DraftsAreDue
  <2>1. s # p /\ posting'[s] = posting[s]
    BY <1>1
  <2> DEFINE e == posting[s].entries[i]
  <2>2. i \in 1..Len(posting[s].entries)
    BY <2>1 DEF LedgerInv, LedgerTypeOK, ProgressOK, Postings
  <2>3. e.account \in Accounts
    BY <2>2, EntryTypes
  <2>4. holder[e.account] = s /\ draft[s][e.account] = balance[e.account] + Signed(e)
    BY <2>1 DEF LedgerInv, DraftsAreDue
  <2> HIDE DEF e
  <2>5. holder'[e.account] = s /\ draft'[s][e.account] = balance'[e.account] + Signed(e)
    BY <1>2, <2>1, <2>3, <2>4
  <2> QED
    BY <2>1, <2>5 DEF e
<1> QED
  BY <1>3, <1>4, <1>5, <1>6, <1>7 DEF LedgerInv

LEMMA RefuseStep == ASSUME LedgerInv, NEW p \in Posters, Refuse(p) PROVE LedgerInv'
<1>1. booked' = booked /\ balance' = balance
  BY DEF Refuse
<1>2. /\ balance \in [Accounts -> Int64]
      /\ booked \subseteq [ref : Refs, entries : Seq(Entries)]
  BY DEF LedgerInv, LedgerTypeOK
<1> QED
  BY <1>1, <1>2, Ending DEF Refuse

LEMMA BookedStep ==
  ASSUME LedgerInv, NEW p \in Posters, NEW stage \in {"posted", "refused"},
         AllWritten(p), Booked(p), posting' = [posting EXCEPT ![p].stage = stage]
  PROVE  LedgerInv'
<1>1. /\ booked' = booked \cup {[ref |-> posting[p].ref, entries |-> posting[p].entries]}
      /\ balance' = [a \in Accounts |-> IF holder[a] = p THEN draft[p][a] ELSE balance[a]]
  BY DEF Booked
<1>2. posting[p].ref \in Refs /\ posting[p].entries \in Seq(Entries)
  BY DEF LedgerInv, LedgerTypeOK, ProgressOK, Postings, AllWritten
<1>3. booked' \subseteq [ref : Refs, entries : Seq(Entries)]
  BY <1>1, <1>2 DEF LedgerInv, LedgerTypeOK
<1>4. balance' \in [Accounts -> Int64]
  BY <1>1 DEF LedgerInv, LedgerTypeOK
<1> QED
  BY <1>1, <1>3, <1>4, Ending DEF Booked

LEMMA LedgerStepKeeps == ASSUME LedgerInv, NEW p \in Posters, LedgerStep(p) PROVE LedgerInv'
<1>1. CASE WriteEntry(p)
  BY <1>1, WriteStep
<1>2. CASE WriteFails(p)
  BY <1>2, RefuseStep DEF WriteFails
<1>3. CASE Commit(p)
  <2>1. CASE Refuse(p)
    BY <2>1, RefuseStep
  <2>2. CASE \E stage \in {"posted", "refused"} :
               Booked(p) /\ posting' = [posting EXCEPT ![p].stage = stage]
    BY <1>3, <2>2, BookedStep DEF Commit
  <2> QED
    BY <1>3, <2>1, <2>2 DEF Commit
<1> QED
  BY <1>1, <1>2, <1>3 DEF LedgerStep

(* A journal that others book at once, on rows nobody has locked.           *)
LEMMA OthersStep ==
  ASSUME LedgerInv, UNCHANGED <<opened, posting, draft, holder>>,
         balance' \in [Accounts -> Int64],
         \A a \in Accounts : holder[a] # NoPoster => balance'[a] = balance[a],
         booked \subseteq booked', booked' \subseteq [ref : Refs, entries : Seq(Entries)]
  PROVE  LedgerInv'
<1>1. LedgerTypeOK' /\ ProgressOK' /\ PostedIsBooked' /\ LocksAreOfEntries'
  BY DEF LedgerInv, LedgerTypeOK, ProgressOK, PostedIsBooked, LocksAreOfEntries
<1>2. DraftsAreDue'
  <2> SUFFICES ASSUME NEW s \in Posters, posting[s].stage = "writing",
                      NEW i \in 1..posting[s].done
               PROVE  LET e == posting[s].entries[i] IN
                      /\ holder[e.account] = s
                      /\ draft[s][e.account] = balance'[e.account] + Signed(e)
    BY DEF DraftsAreDue
  <2> DEFINE e == posting[s].entries[i]
  <2>1. i \in 1..Len(posting[s].entries)
    BY DEF LedgerInv, LedgerTypeOK, ProgressOK, Postings
  <2>2. e.account \in Accounts
    BY <2>1, EntryTypes
  <2>3. holder[e.account] = s /\ draft[s][e.account] = balance[e.account] + Signed(e)
    BY DEF LedgerInv, DraftsAreDue
  <2> HIDE DEF e
  <2>4. balance'[e.account] = balance[e.account]
    BY <2>2, <2>3, PosterAssumption
  <2> QED
    BY <2>3, <2>4 DEF e
<1> QED
  BY <1>1, <1>2 DEF LedgerInv

-----------------------------------------------------------------------------

(* The abstract ledger reckons as this one does. *)
LEMMA SameAmounts ==
  /\ Atomic!Accounts = Accounts
  /\ \A entries : Atomic!Rejects(entries) <=> Rejects(entries)
  /\ \A entries, a : Atomic!Impact(entries, a) = Impact(entries, a)
<1>1. \A entries, side : Atomic!TotalOf(entries, side) = TotalOf(entries, side)
  BY DEF Atomic!TotalOf, TotalOf, Atomic!Wrap, Wrap, MapThenFoldSet, Atomic!MapThenFoldSet
<1>2. Atomic!Accounts = Accounts
  BY DEF Atomic!Accounts, Accounts, Atomic!Fixed, Fixed
<1>3. \A entries : Atomic!Rejects(entries) <=> Rejects(entries)
  BY <1>1 DEF Atomic!Rejects, Rejects
<1>4. \A entries, a : Atomic!Impact(entries, a) = Impact(entries, a)
  BY DEF Atomic!Impact, Impact, Atomic!Names, Names, Atomic!Signed, Signed
<1> QED
  BY <1>2, <1>3, <1>4

(* The sum over a side with one entry. *)
LEMMA TotalOfOne ==
  ASSUME NEW entries, NEW side, NEW i, {k \in DOMAIN entries : entries[k].side = side} = {i}
  PROVE  TotalOf(entries, side) = Wrap(entries[i].amount + 0)
<1> DEFINE
  ch(S) == CHOOSE k \in S : TRUE
  Sums(h) == h = [t \in SUBSET {i} |->
                    IF t = {} THEN 0 ELSE Wrap(entries[ch(t)].amount + h[t \ {ch(t)}])]
  sums == CHOOSE h : Sums(h)
  explicit == [t \in SUBSET {i} |-> IF t = {} THEN 0 ELSE Wrap(entries[ch(t)].amount + 0)]
<1>1. TotalOf(entries, side) = sums[{i}]
  BY DEF TotalOf, MapThenFoldSet
<1>2. \A t \in SUBSET {i} : t # {} => t = {i} /\ ch(t) = i /\ t \ {ch(t)} = {}
  OBVIOUS
<1>3. Sums(explicit)
  BY <1>2
<1>4. Sums(sums)
  BY <1>3, Zenon
<1>5. sums[{}] = 0
  BY <1>4, Zenon
<1>6. sums[{i}] = Wrap(entries[i].amount + sums[{}])
  <2>1. {i} \in SUBSET {i} /\ {i} # {}
    OBVIOUS
  <2>2. ch({i}) = i /\ {i} \ {ch({i})} = {}
    BY <1>2, <2>1
  <2> HIDE DEF sums, ch
  <2>3. sums[{i}] = Wrap(entries[ch({i})].amount + sums[{i} \ {ch({i})}])
    BY <1>4, <2>1
  <2> QED
    BY <2>2, <2>3
<1> QED
  BY <1>1, <1>5, <1>6

(* What a commit makes visible moves every balance by the journal's entry.  *)
LEMMA CommitMoves ==
  ASSUME LedgerInv, NEW p \in Posters, AllWritten(p), Booked(p), NEW a \in Accounts
  PROVE  balance'[a] = balance[a] + Impact(posting[p].entries, a)
<1> DEFINE es == posting[p].entries
<1>1. OneEntryEach(es) /\ es \in Seq(Entries) /\ posting[p].done = Len(es)
  BY DEF LedgerInv, LedgerTypeOK, ProgressOK, Postings, AllWritten
<1>2. balance'[a] = IF holder[a] = p THEN draft[p][a] ELSE balance[a]
  BY DEF Booked
<1>3. CASE Names(es, a)
  <2> DEFINE i == CHOOSE k \in DOMAIN es : es[k].account = a
  <2>1. i \in DOMAIN es /\ es[i].account = a
    BY <1>3 DEF Names
  <2>2. i \in 1..posting[p].done
    BY <1>1, <2>1
  <2>3. Impact(es, a) = Signed(es[i])
    BY <1>3 DEF Impact
  <2> HIDE DEF i
  <2>4. holder[a] = p /\ draft[p][a] = balance[a] + Signed(es[i])
    BY <2>1, <2>2 DEF LedgerInv, DraftsAreDue, AllWritten
  <2> QED
    BY <1>2, <2>3, <2>4
<1>4. CASE ~Names(es, a)
  <2>1. holder[a] # p
    BY <1>1, <1>4 DEF LedgerInv, LocksAreOfEntries, Names
  <2>2. balance[a] \in Int
    BY Int64Facts DEF LedgerInv, LedgerTypeOK
  <2>3. Impact(es, a) = 0
    BY <1>4 DEF Impact
  <2> QED
    BY <1>2, <2>1, <2>2, <2>3
<1> QED
  BY <1>3, <1>4

(* What a commit makes visible is one step of the abstract ledger.          *)
LEMMA CommitBooks ==
  ASSUME LedgerInv, NEW p \in Posters, AllWritten(p), Booked(p),
         [ref |-> posting[p].ref, entries |-> posting[p].entries] \notin booked
  PROVE  Atomic!AtomicNext
<1> DEFINE j == [ref |-> posting[p].ref, entries |-> posting[p].entries]
<1>1. ~Rejects(j.entries)
  BY DEF LedgerInv, ProgressOK, AllWritten
<1>2. balance' = [a \in Accounts |-> balance[a] + Impact(j.entries, a)]
  BY CommitMoves DEF Booked
<1>3. booked' = booked \cup {j}
  BY DEF Booked
<1> HIDE DEF j
<1>4. Atomic!Book(j)
  BY <1>1, <1>2, <1>3, SameAmounts DEF Atomic!Book
<1> QED
  BY <1>3, <1>4 DEF Atomic!AtomicNext, j

(* What a step of a posting does to what others can see. *)
LEMMA LedgerMoves ==
  ASSUME LedgerInv, NEW p \in Posters, LedgerStep(p)
  PROVE  /\ posting[p].stage = "writing" /\ UNCHANGED opened
         /\ \A s \in Posters : s # p => posting'[s] = posting[s]
         /\ posting'[p].ref = posting[p].ref /\ posting'[p].entries = posting[p].entries
         /\ posting'[p].stage \in {"writing", "posted", "refused"}
         /\ \/ UNCHANGED <<booked, balance>>
            \/ AllWritten(p) /\ Booked(p) /\ posting'[p].stage # "writing"
<1>1. posting \in [Posters -> Postings] /\ posting[p] \in Postings
  BY DEF LedgerInv, LedgerTypeOK
<1>2. ASSUME NEW stage \in {"posted", "refused"}, posting' = [posting EXCEPT ![p].stage = stage]
      PROVE  /\ \A s \in Posters : s # p => posting'[s] = posting[s]
             /\ posting'[p].ref = posting[p].ref /\ posting'[p].entries = posting[p].entries
             /\ posting'[p].stage = stage
  BY <1>1, <1>2 DEF Postings
<1>3. CASE WriteEntry(p)
  <2>1. /\ posting[p].stage = "writing" /\ UNCHANGED <<opened, booked, balance>>
        /\ posting' = [posting EXCEPT ![p].done = @ + 1]
    BY <1>3 DEF WriteEntry, Writing, Upsert
  <2>2. /\ \A s \in Posters : s # p => posting'[s] = posting[s]
        /\ posting'[p].ref = posting[p].ref /\ posting'[p].entries = posting[p].entries
        /\ posting'[p].stage = posting[p].stage
    BY <1>1, <2>1 DEF Postings
  <2> QED
    BY <2>1, <2>2
<1>4. CASE WriteFails(p)
  BY <1>2, <1>4 DEF WriteFails, Writing, Refuse
<1>5. CASE Commit(p)
  <2>1. AllWritten(p) /\ posting[p].stage = "writing"
    BY <1>5 DEF Commit, AllWritten
  <2>2. CASE Refuse(p)
    BY <1>2, <2>1, <2>2 DEF Refuse
  <2>3. CASE \E stage \in {"posted", "refused"} :
               Booked(p) /\ posting' = [posting EXCEPT ![p].stage = stage]
    BY <1>2, <2>1, <2>3 DEF Booked
  <2> QED
    BY <1>5, <2>2, <2>3 DEF Commit
<1> QED
  BY <1>3, <1>4, <1>5 DEF LedgerStep

=============================================================================
