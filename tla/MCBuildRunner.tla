---------------------------- MODULE MCBuildRunner ----------------------------
(* BuildRunner on small instances. *)
EXTENDS BuildRunner, TLC

Symmetry == Permutations(Builds) \cup Permutations(Pollers)
=============================================================================
