---------------------------- MODULE MCCacheFile ----------------------------
(* Small instances of CacheFile for TLC. *)
EXTENDS CacheFile, TLC

CONSTANTS k1, k2, small, big

MCSizeOf == (small :> 1) @@ (big :> 5)
Symmetric == Permutations({k1, k2})
=============================================================================
