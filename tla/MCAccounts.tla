------------------------------ MODULE MCAccounts ------------------------------
(***************************************************************************)
(* Accounts for TLC.  Browsers, phones and accounts are interchangeable.   *)
(***************************************************************************)
EXTENDS Accounts, TLC

AccountsSymmetry ==
    Permutations(Browsers) \cup Permutations(Phones) \cup Permutations(Users)
=============================================================================
