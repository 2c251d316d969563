------------------------------ MODULE MCGroups ------------------------------
(***************************************************************************)
(* Groups on a small instance.                                             *)
(***************************************************************************)
EXTENDS GroupsProperties, TLC

Symmetry ==
    Permutations(Process) \cup Permutations(Group) \cup Permutations(Name)
    \cup Permutations(Profile) \cup Permutations(Client)
=============================================================================
