---------------------------- MODULE ProfileLease ----------------------------
(***************************************************************************)
(* The lease columns of the profiles table (core/database.py, "Leases").   *)
(* Every operation is one committed UPDATE, so it is one action here, with *)
(* the WHERE clause as its guard or its domain; force_release_lease is a   *)
(* SELECT and then an UPDATE, so it is two.                                *)
(*                                                                         *)
(* Time is relative: left[p] is how many ticks remain until lock_expires,  *)
(* and -1 once that instant has passed.  Nothing else is ever read of the  *)
(* clock, so counting down loses nothing and needs no bound on time.       *)
(***************************************************************************)
EXTENDS Integers

CONSTANTS
    Profile,      \* profile ids
    Holder,       \* holder ids: one per process, minted once and never reused
    NoOne,        \* locked_by IS NULL
    TTL,          \* CPM_LEASE_TTL, in ticks
    Unlockable    \* profiles an operator may run `camoufox-pm unlock` on

ASSUME NoOneAssumption == NoOne \notin Holder
ASSUME TTLAssumption == TTL \in Nat \ {0}
ASSUME UnlockableAssumption == Unlockable \subseteq Profile

VARIABLES
    rows,         \* profiles that have a row
    lockedBy,     \* locked_by: the holder, or NoOne
    left,         \* ticks until lock_expires; -1 once it has passed
    selected      \* what an unlock's SELECT returned; NoOne outside an unlock

leaseVars == <<rows, lockedBy, left, selected>>

LeaseTypeOK ==
    /\ rows \subseteq Profile
    /\ lockedBy \in [Profile -> Holder \cup {NoOne}]
    /\ left \in [Profile -> -1 .. TTL]
    /\ selected \in [Profile -> Holder \cup {NoOne}]

LeaseInit ==
    /\ rows = Profile
    /\ lockedBy = [p \in Profile |-> NoOne]
    /\ left = [p \in Profile |-> 0]
    /\ selected = [p \in Profile |-> NoOne]

-----------------------------------------------------------------------------
\* julianday(lock_expires) < julianday('now'): strict, so not at the instant itself
Expired(p) == left[p] < 0

\* Mutant: a read-then-write acquire, whose guard is not in the UPDATE.
MayAcquireUnguarded(p, h) == p \in rows

\* Mutant: the expiry arm of the guard forgotten.
MayAcquireUnexpired(p, h) == p \in rows /\ lockedBy[p] \in {NoOne, h}

\* The WHERE clause of acquire_lease: free, our own, or run out.
MayAcquire(p, h) ==
    /\ p \in rows
    /\ lockedBy[p] \in {NoOne, h} \/ Expired(p)

\* Mutant: the TTL is added to what is left of the lease.
AcquireLeaseExtending(p, h) ==
    /\ MayAcquire(p, h)
    /\ lockedBy' = [lockedBy EXCEPT ![p] = h]
    /\ left' = [left EXCEPT ![p] = @ + TTL]
    /\ UNCHANGED <<rows, selected>>

AcquireLease(p, h) ==
    /\ MayAcquire(p, h)
    /\ lockedBy' = [lockedBy EXCEPT ![p] = h]
    /\ left' = [left EXCEPT ![p] = TTL]
    /\ UNCHANGED <<rows, selected>>

\* Mutant: WHERE id IN (...) only.
RenewableByAnyone(S, h) == S \cap rows

\* The rows renew_lease's WHERE clause matches; its answer is how many they are.
Renewable(S, h) == {p \in S \cap rows : lockedBy[p] = h}

RenewLease(S, h) ==
    /\ left' = [p \in Profile |-> IF p \in Renewable(S, h) THEN TTL ELSE left[p]]
    /\ UNCHANGED <<rows, lockedBy, selected>>

ClearLease(p) ==
    /\ lockedBy' = [lockedBy EXCEPT ![p] = NoOne]
    /\ left' = [left EXCEPT ![p] = 0]
    /\ UNCHANGED rows

\* Mutant: the release names only the row.
ReleaseLeaseOfAnyone(p, h) == ClearLease(p) /\ UNCHANGED selected

\* Guarded on the holder: a release by anyone else changes nothing.
ReleaseLease(p, h) ==
    /\ IF lockedBy[p] = h THEN ClearLease(p) ELSE UNCHANGED <<rows, lockedBy, left>>
    /\ UNCHANGED selected

\* force_release_lease, called by `camoufox-pm unlock`: first the SELECT ...
ForceSelect(p) ==
    /\ p \in rows \cap Unlockable
    /\ lockedBy[p] # NoOne
    /\ selected' = [selected EXCEPT ![p] = lockedBy[p]]
    /\ UNCHANGED <<rows, lockedBy, left>>

\* ... then the UPDATE, which names only the row.
ForceClear(p) ==
    /\ selected[p] # NoOne
    /\ ClearLease(p)
    /\ selected' = [selected EXCEPT ![p] = NoOne]

\* The lease is in the profile's row and goes with it.
DeleteRow(p) ==
    /\ p \in rows
    /\ rows' = rows \ {p}
    /\ lockedBy' = [lockedBy EXCEPT ![p] = NoOne]
    /\ left' = [left EXCEPT ![p] = 0]
    /\ UNCHANGED selected

\* Time passes for every lease; a lease that has run out stays as it is stored.
LeaseTick ==
    /\ left' = [p \in Profile |->
                  IF lockedBy[p] # NoOne /\ left[p] >= 0 THEN left[p] - 1 ELSE left[p]]
    /\ UNCHANGED <<rows, lockedBy, selected>>

=============================================================================
