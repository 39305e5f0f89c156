---------------------------- MODULE AtomicLedger ----------------------------
(***************************************************************************)
(* What the ledger promises its users: a journal is booked whole or not at *)
(* all, and the snapshot of the balances always agrees with the journals   *)
(* booked.  Module Settlement, with its journals written entry by entry    *)
(* under row locks, is shown to implement this.                            *)
(***************************************************************************)
EXTENDS Amounts

VARIABLES
  booked,  \* journals booked
  balance  \* current_balance of every account

ledgerView == <<booked, balance>>

AtomicInit == booked = {} /\ balance = [a \in Accounts |-> 0]

(* One journal is booked; no other account moves. *)
Book(j) ==
  /\ ~Rejects(j.entries)
  /\ booked' = booked \cup {j}
  /\ balance' = [a \in Accounts |-> balance[a] + Impact(j.entries, a)]

AtomicNext == \E j \in booked' \ booked : Book(j)

AtomicSpec == AtomicInit /\ [][AtomicNext]_ledgerView

=============================================================================
