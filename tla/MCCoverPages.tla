---------------------------- MODULE MCCoverPages ----------------------------
(***************************************************************************)
(* Model checking of CoverPages: two covers and a cache for one.           *)
(***************************************************************************)
EXTENDS CoverPages, TLC
CONSTANTS a, b
MCItems == {a, b}
Symmetry == Permutations(Items)
=============================================================================
