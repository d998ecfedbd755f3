------------------------- MODULE MCDonationPayments -------------------------
(***************************************************************************)
(* Small instances of DonationPayments.                                    *)
(***************************************************************************)
EXTENDS DonationPayments, TLC

DonationSymmetry == Permutations(Donations)
WorkerSymmetry == Permutations(Workers)
Symmetry == DonationSymmetry \union WorkerSymmetry
=============================================================================
