--------------------------- MODULE MCChangeTracker ---------------------------
(* ChangeTracker for TLC: paths, contents and writers are interchangeable.  *)
EXTENDS ChangeTracker, TLC

Symmetry ==
  Permutations(Paths) \cup Permutations(Contents) \cup Permutations(Writers)
=============================================================================
