------------------------------ MODULE MCReports ------------------------------
(***************************************************************************)
(* Small instances of Reports.  Readers meet in the dashboard's cache and  *)
(* nowhere else: two ask for the dashboard, or one asks for another page.  *)
(***************************************************************************)
EXTENDS Reports

CONSTANTS r1, r2

Mixes ==
    {[r \in {r1, r2} |-> "dashboard"]} \union
    {[r \in {r1, r2} |-> IF r = r1 THEN k ELSE "nothing"] :
        k \in Kinds \ {"nothing", "dashboard"}}

UpToTwoOrThree ==
    [m \in Mixes |-> IF m[r1] \in {"cursor", "offset"} THEN 3 ELSE 2]
=============================================================================
