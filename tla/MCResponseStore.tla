-------------------------- MODULE MCResponseStore --------------------------
(* TLC's instance of ResponseStore.  Submissions of one kind, deleters and *)
(* enablers are interchangeable.                                           *)
EXTENDS ResponseStore, TLC

Symmetry ==
  Permutations(Plain) \cup Permutations(Envelopes) \cup Permutations(Deleters)
    \cup Permutations(Enablers)
=============================================================================
