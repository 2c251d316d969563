-------------------------- MODULE ExclusiveDriver --------------------------
(***************************************************************************)
(* What leases are for, without leases: at any moment at most one process  *)
(* drives a profile, and a profile passes from one process to another only *)
(* through a moment when nobody drives it ("one identity in two browsers   *)
(* means one cookie jar written from two places", README).                 *)
(***************************************************************************)
CONSTANTS Profile, Holder, NoOne

VARIABLE driver   \* the process driving each profile, or NoOne

Init == driver = [p \in Profile |-> NoOne]

Take(p, h) ==
    /\ driver[p] = NoOne
    /\ driver' = [driver EXCEPT ![p] = h]

\* A process that exits or dies leaves all its profiles at once.
Leave(S) == driver' = [p \in Profile |-> IF p \in S THEN NoOne ELSE driver[p]]

Next ==
    \/ \E p \in Profile, h \in Holder : Take(p, h)
    \/ \E S \in SUBSET Profile : Leave(S)

Spec == Init /\ [][Next]_driver
=============================================================================
