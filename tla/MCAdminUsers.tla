---------------------------- MODULE MCAdminUsers ----------------------------
(***************************************************************************)
(* Small instances of AdminUsers: the table is empty at first, so that     *)
(* rows, addresses, passwords and clients are each interchangeable.        *)
(***************************************************************************)
EXTENDS AdminUsers, TLC

Symmetry ==
    Permutations(Clients) \union Permutations(Passwords)
        \union Permutations(Emails) \union Permutations(Accounts)
=============================================================================
