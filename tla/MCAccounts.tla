------------------------------ MODULE MCAccounts ------------------------------
(***************************************************************************)
(* Accounts for TLC.                                                       *)
(***************************************************************************)
EXTENDS Accounts, TLC

Symmetry == Permutations(Plain) \union Permutations(Emails)
                \union Permutations(Passwords) \union Permutations(Requests)
=============================================================================
