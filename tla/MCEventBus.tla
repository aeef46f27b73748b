------------------------------ MODULE MCEventBus ------------------------------
(* EventBus for TLC: event types are interchangeable, and so are functions. *)
EXTENDS EventBus

Symmetry == Permutations(Types) \cup Permutations(Fns)
===============================================================================
