------------------------------ MODULE MCExports ------------------------------
(* ExportTokens with two verifications and two exports, observed in the first  *)
(* and in the last second of a token's life and in those next to them.         *)
EXTENDS ExportTokens, TLC

ASSUME ExportAssumption

Symmetry == Permutations(Verifies) \cup Permutations(Exports)
=============================================================================
