---------------------------- MODULE MCDataStorage ----------------------------
(* Instances of DataStorage for TLC. *)
EXTENDS DataStorage

CONSTANTS a, b

MCValues == {a, b}

MCSymmetry == Permutations(MCValues)
=============================================================================
