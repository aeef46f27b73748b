------------------------------ MODULE MCLocalCli ------------------------------
EXTENDS LocalCli, TLC

(* Nothing distinguishes two workspaces, two models or two handlers.       *)
Symmetry ==
  Permutations(Workspaces) \cup Permutations(Models) \cup Permutations(Handlers)
=============================================================================
