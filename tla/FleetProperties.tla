-------------------------- MODULE FleetProperties --------------------------
(***************************************************************************)
(* What the fleet of Fleet.tla should never do, and what it should always  *)
(* get round to doing.                                                     *)
(***************************************************************************)
EXTENDS Fleet

\* A teardown that a shutdown leaves behind: scheduler.stop or stop_heartbeat cut it
\* off, or _handle_exit is still in __aexit__ when release_all_leases runs.  It ends
\* with its process, but its lease may go back before that.
LeftBehind(s) ==
    \/ stage[s] = "cut"
    \/ stage[s] = "exiting" /\ status[ProcessOf[s]] = "releasing"

Drives(s) == Engaged(s) /\ ~LeftBehind(s)

\* A launch that has taken its lease, a browser that is up, or one being torn
\* down is the only one of its profile in the whole fleet: launch_browser's claim
\* that the lease decides "is this profile already running".  It is not true of
\* the teardowns that a shutdown leaves behind (OneDriver).
Exclusive ==
    \A s, t \in Session :
        Drives(s) /\ Drives(t) /\ ProfileOf[s] = ProfileOf[t] => s = t

\* Whoever starts, runs or closes a browser, and is not left behind by a shutdown,
\* holds an unexpired lease on its profile all the while, as long as the profile has
\* a row: the heartbeat keeps it, and while the process is up only the end of the
\* teardown gives it back.
LeaseCoversBrowser ==
    \A s \in Session :
        Drives(s) /\ ProfileOf[s] \in rows =>
            HoldsItsLease(s) /\ ~Expired(ProfileOf[s])

\* No two processes have a launch, a browser or a teardown of one profile at once,
\* shutdowns included ("releasing it here would let another instance take an
\* identity this process is still driving", release_all_leases).
OneDriver ==
    \A s, t \in Session :
        Engaged(s) /\ Engaged(t) /\ ProfileOf[s] = ProfileOf[t]
          => ProcessOf[s] = ProcessOf[t]

\* A process that is up holds a lease only for something it is doing: a failed,
\* refused or cancelled launch and every teardown hand it back (the launch
\* comment: "locked for a full TTL with no browser running anywhere").
NoStrandedLease ==
    \A h \in Holder, p \in Profile :
        status[h] = "up" /\ lockedBy[p] = h => \E s \in Of(h, p) : Engaged(s)

\* A clean shutdown leaves no lease behind, whatever teardown, deletion or lost
\* lease it raced with: the next start must not be locked out of its profiles.
CleanExit ==
    \A h \in Holder, p \in Profile : status[h] = "exited" => lockedBy[p] # h

\* Only a lease that has run out changes hands; before that it is given back, by
\* its holder, an unlock or a deletion, and no release clears somebody else's.
NoLeaseStolen ==
    [][\A p \in Profile :
         lockedBy[p] # NoOne /\ lockedBy'[p] # lockedBy[p] =>
           \/ lockedBy'[p] # NoOne /\ Expired(p)
           \/ lockedBy'[p] = NoOne
              /\ \/ selected[p] # NoOne
                 \/ p \notin rows'
                 \/ \E s \in Of(lockedBy[p], p) : Engaged(s) /\ stage'[s] = "idle"
                 \/ status[lockedBy[p]] = "releasing"]_vars

\* The lease of a process that is gone only runs down: nobody renews it by mistake,
\* and the TTL that was left is all it keeps the profile for (README, CPM_LEASE_TTL:
\* "how long a crashed instance keeps its profiles locked").
DeadLeaseRunsDown ==
    [][\A p \in Profile :
         /\ lockedBy[p] # NoOne /\ status[lockedBy[p]] \in {"crashed", "exited"}
         /\ lockedBy'[p] = lockedBy[p]
         => left'[p] <= left[p]]_vars

\* Two browsers of one profile in two processes is a state the heartbeat repairs:
\* a registered session whose lease is no longer its process's is closed, or the
\* lease comes back to it.
IntruderStandsDown ==
    \A h \in Holder, p \in Profile :
        IsRunning(h, p) /\ lockedBy[p] # h ~> ~IsRunning(h, p) \/ lockedBy[p] = h

\* A process that died does not keep its profiles: anybody may take them in the
\* end ("a machine that died does not lock its profiles forever", README).
CrashedLeaseRunsOut ==
    \A h, g \in Holder, p \in Profile :
        status[h] = "crashed" /\ lockedBy[p] = h
          ~> MayAcquire(p, g) \/ lockedBy[p] # h

\* Two browsers of one profile are never up at once.
OneBrowser ==
    \A s, t \in Session :
        stage[s] = "open" /\ stage[t] = "open" /\ ProfileOf[s] = ProfileOf[t] => s = t

\* While a browser is up or coming up, its process does not lose the lease ("from
\* here until the session is registered ... nothing may hand its lease away").
LiveKeepsLease ==
    [][\A h \in Holder, p \in Profile :
         IsLive(h, p)' /\ p \in rows' /\ lockedBy[p] = h => lockedBy'[p] = h]_vars

\* The same where anything may be late: until it runs out, or an operator unlocks it,
\* nobody hands away the lease of a launch or a browser, its own process included.
LiveKeepsUnexpired ==
    [][\A h \in Holder, p \in Profile :
         /\ IsLive(h, p)' /\ p \in rows'
         /\ lockedBy[p] = h /\ lockedBy'[p] # h
         => Expired(p) \/ selected[p] # NoOne]_vars

\* The process that has a launch, a browser or a teardown of each profile; one that
\* shuts down gives up the profiles of the teardowns it leaves behind.
Driver ==
    [p \in Profile |->
       IF \E s \in Session : Drives(s) /\ ProfileOf[s] = p
         THEN ProcessOf[CHOOSE s \in Session : Drives(s) /\ ProfileOf[s] = p]
         ELSE NoOne]

Abstract == INSTANCE ExclusiveDriver WITH driver <- Driver

\* The fleet implements ExclusiveDriver: a profile passes from one process to
\* another only through a moment when no process has anything of it running but
\* what a shutdown has left behind.
HandsOver == Abstract!Spec
-----------------------------------------------------------------------------
(***************************************************************************)
(* Why Exclusive holds when everything is in time (Late = {}), launches do *)
(* not overlap (Serial) and nobody unlocks a live lease: an inductive      *)
(* invariant, in parts.                                                    *)
(***************************************************************************)

\* active_sessions holds exactly the sessions that are up.
ActiveMatches ==
    \A s \in Session : s \in active <=> stage[s] \in {"open", "gone"}

\* Only a running process has sessions; one that is stopping starts nothing, and only
\* then are there teardowns that were cut off.
StagesFitStatus ==
    \A s \in Session :
        /\ Engaged(s) => Running(ProcessOf[s])
        /\ stage[s] \in {"preparing", "starting", "closing", "dropping"}
             => status[ProcessOf[s]] = "up"
        /\ stage[s] \in {"open", "gone"} => status[ProcessOf[s]] # "releasing"
        /\ stage[s] = "draining" => status[ProcessOf[s]] = "stopping"
        /\ stage[s] = "cut" => status[ProcessOf[s]] \in {"stopping", "releasing"}

\* The heartbeat gives up only on profiles that were deleted.
DropsOnlyDeleted ==
    \A s \in Session : stage[s] = "dropping" => ProfileOf[s] \notin rows

\* The heartbeat awaits one teardown at a time.
DropsOneByOne ==
    \A s, t \in Session :
        stage[s] = "dropping" /\ stage[t] = "dropping"
        /\ ProcessOf[s] = ProcessOf[t] => s = t

\* A beat under way holds the next one, and with it the clock, back.
BeatHoldsClock ==
    \A h \in Holder :
        /\ status[h] = "up" /\ Beating(h) => beatIn[h] = 0
        /\ status[h] = "off" => todo[h] = {}

\* A lease lasts until the beat that renews it: what is left of it is never less
\* than the time to the next beat.
LeaseOutlastsBeat ==
    \A s \in Session :
        LET h == ProcessOf[s]
            p == ProfileOf[s]
        IN  p \in rows /\ status[h] = "up" =>
              /\ stage[s] \in {"preparing", "starting"} => left[p] >= Beat
              /\ stage[s] \in {"open", "gone"} =>
                   /\ left[p] >= beatIn[h]
                   /\ Beating(h) => left[p] >= Beat

NobodyUnlocks == \A p \in Profile : selected[p] = NoOne

FleetInv ==
    /\ TypeOK
    /\ Exclusive
    /\ LeaseCoversBrowser
    /\ ActiveMatches
    /\ StagesFitStatus
    /\ DropsOnlyDeleted
    /\ DropsOneByOne
    /\ BeatHoldsClock
    /\ LeaseOutlastsBeat
    /\ NobodyUnlocks
-----------------------------------------------------------------------------
(***************************************************************************)
(* Why leases are not left behind, whatever is late, overlaps, is unlocked *)
(* or dies: who is answerable for a lease at each point of a process's     *)
(* life.                                                                   *)
(***************************************************************************)

\* A lease is in its profile's row and goes with it.
NoLeaseWithoutRow == \A p \in Profile : p \notin rows => lockedBy[p] = NoOne

\* What is registered is up; nothing is registered once close_all has returned,
\* and only a process that is up starts anything.
RegisteredAreUp ==
    \A s \in Session :
        /\ s \in active =>
             stage[s] \in {"open", "gone"} /\ status[ProcessOf[s]] \in {"up", "stopping"}
        /\ stage[s] \in {"preparing", "starting"} => status[ProcessOf[s]] = "up"
        /\ Engaged(s) => Running(ProcessOf[s])

\* Nothing names a process that has not started or has left, and a shutdown that is
\* releasing leases has all that are left on its list.
LeasesListed ==
    \A h \in Holder, p \in Profile :
        lockedBy[p] = h =>
            /\ status[h] \notin {"off", "exited"}
            /\ status[h] = "releasing" => p \in todo[h]

CleanInv == TypeOK /\ NoLeaseWithoutRow /\ RegisteredAreUp /\ LeasesListed

\* A session that will see to its profile's lease: the registered one, a launch, or a
\* teardown with a release at its end.  A browser that another one has replaced in
\* active_sessions will not, nor one that the heartbeat is closing.
Answers(s) ==
    s \in active \/ stage[s] \in {"preparing", "starting", "closing", "exiting", "draining"}

LeaseAnswered ==
    \A h \in Holder, p \in Profile :
        status[h] = "up" /\ lockedBy[p] = h => \E s \in Of(h, p) : Answers(s)

NoDriverLost == \A s \in Session : stage[s] # "gone"

StrandInv == CleanInv /\ NoDriverLost /\ LeaseAnswered

\* Where launches of a profile do not overlap in a process, it has one thing going at
\* most, so that no teardown or failure releases what another session stands on.
OneOfEach ==
    \A s, t \in Session :
        Engaged(s) /\ Engaged(t) /\ ProcessOf[s] = ProcessOf[t] /\ ProfileOf[s] = ProfileOf[t]
          => s = t

SerialInv == CleanInv /\ OneOfEach
=============================================================================
