----------------------- MODULE MCSlidingWindowCounter -----------------------
(***************************************************************************)
(* Small instances of SlidingWindowCounter.                                *)
(***************************************************************************)
EXTENDS SlidingWindowCounter, TLC

Symmetry == Permutations(Outcomes)
=============================================================================
