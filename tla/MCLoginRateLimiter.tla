------------------------- MODULE MCLoginRateLimiter -------------------------
(***************************************************************************)
(* Small instances of LoginRateLimiter, whose logins are interchangeable.  *)
(***************************************************************************)
EXTENDS LoginRateLimiter, TLC

Symmetry == Permutations(Logins)
=============================================================================
