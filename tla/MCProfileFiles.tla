--------------------------- MODULE MCProfileFiles ---------------------------
(***************************************************************************)
(* ProfileFiles on a small instance.                                       *)
(***************************************************************************)
EXTENDS ProfileFilesProperties, TLC

Symmetry == Permutations(Process) \cup Permutations(Profile)
=============================================================================
