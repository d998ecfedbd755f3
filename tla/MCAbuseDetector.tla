-------------------------- MODULE MCAbuseDetector --------------------------
(***************************************************************************)
(* Small instances of AbuseDetector.                                       *)
(***************************************************************************)
EXTENDS AbuseDetector, TLC

Symmetry == Permutations(Requests)
=============================================================================
