------------------------------ MODULE MCClient ------------------------------
(* Instances of Client for TLC: callers are interchangeable. *)
EXTENDS Client, TLC

Symmetry == Permutations(Callers)
============================================================================
