----------------------------- MODULE MCLifecycle -----------------------------
(***************************************************************************)
(* Instances of Lifecycle for TLC.  The configurations choose the workers; *)
(* model values of a kind are interchangeable, so the safety runs use      *)
(* symmetry.                                                               *)
(***************************************************************************)
EXTENDS LifecycleInvariant, TLC

(* Symmetry of the safety runs. *)
Symmetry ==
  Permutations(Tx) \cup Permutations(Ext) \cup Permutations(PollRuns)
    \cup Permutations(RetryRuns) \cup Permutations(Hooks) \cup Permutations(Events)
    \cup Permutations(ReconRuns)

=============================================================================
