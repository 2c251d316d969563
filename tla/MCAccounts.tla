----------------------------- MODULE MCAccounts -----------------------------
(***************************************************************************)
(* Accounts on a small instance.                                           *)
(***************************************************************************)
EXTENDS AccountsProperties, TLC

Symmetry ==
    Permutations(Server) \cup Permutations(Account) \cup Permutations(Name)
    \cup Permutations(Password) \cup Permutations(Token)
=============================================================================
