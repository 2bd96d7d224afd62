----------------------------- MODULE MCOverrides -----------------------------
(***************************************************************************)
(* Overrides on small instances; a run has requests for one side only. The *)
(* signatures have the window and the lifetime of the code, and a clock    *)
(* observed around the three places where an answer changes: the first     *)
(* seconds of the window of stamp 31, its middle, and its last seconds.    *)
(* The tokens have the lifetimes of the code, observed on both sides of    *)
(* each.                                                                   *)
(***************************************************************************)
EXTENDS Overrides, TLC

ASSUME Hmac!HmacAssumption

Symmetry ==
    Permutations(Calls) \cup Permutations(Issues) \cup Permutations(Uses) \cup Permutations(Workspaces)

MCStamps == {31}
MCMilliseconds == {500, 1000, 1500, 2000, 31000, 32000,
                   60500, 61000, 61500, 61999, 62000, 62500, 92000}
MCInstants == {2, 30}
=============================================================================
