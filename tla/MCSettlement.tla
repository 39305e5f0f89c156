----------------------------- MODULE MCSettlement -----------------------------
(* Instances of Settlement for TLC. *)
EXTENDS Settlement, TLC

(* Merchants and runs are alike, and so are the ids of one kind. *)
Symmetry == Permutations(Merchants) \cup Permutations(Runs) \cup Permutations(Batches)
            \cup Permutations(Earnings)

=============================================================================
