----------------------------- MODULE MCCampaigns -----------------------------
(***************************************************************************)
(* Small instances of Campaigns: ids, slugs and writers are each           *)
(* interchangeable.                                                        *)
(***************************************************************************)
EXTENDS Campaigns, TLC

Symmetry ==
    Permutations(Ids) \union Permutations(Slugs) \union Permutations(Writers)
=============================================================================
