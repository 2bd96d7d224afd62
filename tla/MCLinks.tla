------------------------------- MODULE MCLinks -------------------------------
(* Both editions of the password links on small instances.                  *)
EXTENDS Links, TLC

ASSUME LinksAssumption /\ V1!LinksAssumption

Symmetry == Permutations(Reqs)
=============================================================================
