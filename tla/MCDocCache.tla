----------------------------- MODULE MCDocCache -----------------------------
(* Model checking of DocCache. *)
EXTENDS DocCache

CONSTANTS d1, d2, d3

\* The names of d2 and d3 are of one length.
MCNameLen == d1 :> 20 @@ d2 :> 33 @@ d3 :> 33

Symmetry == Permutations({d2, d3})
MCStuck == {{}, {d1}}
=============================================================================
