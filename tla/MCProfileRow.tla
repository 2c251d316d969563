---------------------------- MODULE MCProfileRow ----------------------------
(***************************************************************************)
(* ProfileRow on a small instance.                                         *)
(***************************************************************************)
EXTENDS ProfileRowProperties, TLC

Symmetry ==
    Permutations(Process) \cup Permutations(Client) \cup Permutations(Part)
    \cup Permutations(Value) \cup Permutations(Proxy) \cup Permutations(Machine)
=============================================================================
