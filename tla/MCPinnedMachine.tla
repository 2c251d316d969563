-------------------------- MODULE MCPinnedMachine --------------------------
(***************************************************************************)
(* PinnedMachine on small sets, for TLC.                                   *)
(***************************************************************************)
EXTENDS PinnedMachineProperties, TLC

Symmetry == Permutations(Profile) \cup Permutations(Os) \cup Permutations(Machine)
=============================================================================
