------------------------ MODULE MCRateLimitCounters ------------------------
(***************************************************************************)
(* Small instances of RateLimitCounters.                                   *)
(***************************************************************************)
EXTENDS RateLimitCounters
=============================================================================
