----------------------------- MODULE MCOnboarding -----------------------------
(* Instances of Onboarding for TLC. *)
EXTENDS Onboarding, TLC

(* Symmetry of the safety runs; payloads differ in whether they are JSON. *)
Symmetry == Permutations(Reqs) \cup Permutations(Keys) \cup Permutations(Ids)

=============================================================================
