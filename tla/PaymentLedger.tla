--------------------------- MODULE PaymentLedger ---------------------------
(***************************************************************************)
(* What the donation pipeline promises about the status of a donation,    *)
(* with no handler, no webhook and no database in sight: a donation is    *)
(* opened once, the checkout behind it is settled once, and the recorded  *)
(* status moves once, from PENDING to the status the settlement calls     *)
(* for.  DonationPayments implements this specification.                  *)
(***************************************************************************)
CONSTANT Donations

VARIABLES
    status,     \* status[d]: the status recorded for donation d
    outcome     \* outcome[d]: how the checkout behind d ended, if it has

ledgerVars == <<status, outcome>>

Outcomes == {"completed", "expired"}

(* The status that a settlement calls for. *)
StatusFor(o) == IF o = "completed" THEN "SUCCEEDED" ELSE "EXPIRED"

LedgerInit ==
    /\ status = [d \in Donations |-> "ABSENT"]
    /\ outcome = [d \in Donations |-> "none"]

Open(d) ==
    /\ status[d] = "ABSENT"
    /\ status' = [status EXCEPT ![d] = "PENDING"]
    /\ UNCHANGED outcome

Settle(d, o) ==
    /\ status[d] = "PENDING"
    /\ outcome[d] = "none"
    /\ outcome' = [outcome EXCEPT ![d] = o]
    /\ UNCHANGED status

Record(d) ==
    /\ status[d] = "PENDING"
    /\ outcome[d] \in Outcomes
    /\ status' = [status EXCEPT ![d] = StatusFor(outcome[d])]
    /\ UNCHANGED outcome

LedgerNext ==
    \E d \in Donations :
        \/ Open(d)
        \/ \E o \in Outcomes : Settle(d, o)
        \/ Record(d)

LedgerSpec == LedgerInit /\ [][LedgerNext]_ledgerVars
=============================================================================
