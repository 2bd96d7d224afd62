---------------------------- MODULE MCJwksCache ----------------------------
(* JwksCache with the admin's kid and one seeded kid. Calls and seeds are   *)
(* interchangeable.                                                         *)
EXTENDS JwksCache, TLC

Symmetry == Permutations(Calls) \cup Permutations(Seeds)
=============================================================================
