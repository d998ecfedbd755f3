----------------------- MODULE MCRedisRateLimitStore -----------------------
(***************************************************************************)
(* Small instances of RedisRateLimitStore.                                 *)
(***************************************************************************)
EXTENDS RedisRateLimitStore, TLC

Symmetry == Permutations(Calls)
=============================================================================
