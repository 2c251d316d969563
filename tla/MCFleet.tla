------------------------------ MODULE MCFleet ------------------------------
(***************************************************************************)
(* Fleet on a small instance.  A process of Busy has two launch calls of   *)
(* each profile, so that a launch can race with a launch or a teardown of  *)
(* the same profile in the same process; the other processes have one.     *)
(***************************************************************************)
EXTENDS FleetProperties, TLC

CONSTANT Busy

MCSession == (Holder \X Profile \X {1}) \cup (Busy \X Profile \X {2})
MCProcessOf == [s \in MCSession |-> s[1]]
MCProfileOf == [s \in MCSession |-> s[2]]

\* Sound where Busy is empty and only safety is checked.
Symmetry == Permutations(Holder) \cup Permutations(Profile)
=============================================================================
