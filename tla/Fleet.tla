------------------------------- MODULE Fleet -------------------------------
(***************************************************************************)
(* Several instances of the profile manager on one database, each with its *)
(* own event loop: launch_browser and the close, exit, heartbeat and       *)
(* shutdown paths of BrowserSessionManager, composed with the lease table  *)
(* of ProfileLease.                                                        *)
(*                                                                         *)
(* The grain of an action is the code between two real suspension points   *)
(* of a coroutine: storage calls run to completion, so a coroutine yields  *)
(* only in the proxy lookup, in camoufox.start(), in __aexit__ and in a    *)
(* sleep.  Other processes interleave with each action.                    *)
(***************************************************************************)
EXTENDS ProfileLease

CONSTANTS
    Session,      \* launch_browser calls, each with the BrowserSession it may become
    ProcessOf,    \* the process a session belongs to
    ProfileOf,    \* the profile it is for
    Beat,         \* the heartbeat interval, in ticks
    Late,         \* what may take longer than the lease allows for
    Serial,       \* nobody launches a profile this process is still starting or closing
    DriverFails   \* the Playwright driver may die without a close event

ASSUME SessionAssumption ==
    /\ ProcessOf \in [Session -> Holder]
    /\ ProfileOf \in [Session -> Profile]

\* _lease_ttl_outlives_the_heartbeat: a TTL of at least two intervals
ASSUME BeatAssumption == Beat \in Nat \ {0} /\ 2 * Beat <= TTL

ASSUME EnvironmentAssumption ==
    /\ Late \subseteq {"beat", "start", "teardown"}
    /\ Serial \in BOOLEAN
    /\ DriverFails \in BOOLEAN

VARIABLES
    status,       \* of each process
    stage,        \* where each launch call or session is
    active,       \* the sessions in active_sessions (a dict: one per process and profile)
    events,       \* sessions whose Playwright close event has not fired yet
    beatIn,       \* ticks until each process's next heartbeat
    todo          \* profiles a heartbeat has still to ask about, or a shutdown to release

procVars == <<status, stage, active, events, beatIn, todo>>
vars == <<leaseVars, procVars>>

\* stopping: inside close_all; releasing: inside release_all_leases
Status == {"off", "up", "stopping", "releasing", "exited", "crashed"}

Stage == {
    "idle",
    "preparing",   \* lease taken, inside fill_what_geoip_would_have
    "starting",    \* inside camoufox.start(), counted in _starting
    "open",        \* the browser is up
    "gone",        \* its driver process died and only _monitor can tell
    "closing",     \* popped by close_and_release, inside terminate(); a release follows
    "exiting",     \* the same in _handle_exit, in a task that nobody awaits
    "draining",    \* the same, popped by close_all on the way out
    "dropping",    \* popped by the heartbeat, which does not release
    "cut"}         \* its teardown was cancelled in __aexit__; nobody goes on with it

\* Sanity of the state; every other invariant is stated on its own below.
TypeOK ==
    /\ LeaseTypeOK
    /\ status \in [Holder -> Status]
    /\ stage \in [Session -> Stage]
    /\ active \subseteq Session
    /\ events \subseteq Session
    /\ beatIn \in [Holder -> 0 .. Beat]
    /\ todo \in [Holder -> SUBSET Profile]

Init ==
    /\ LeaseInit
    /\ status = [h \in Holder |-> "off"]
    /\ stage = [s \in Session |-> "idle"]
    /\ active = {}
    /\ events = {}
    /\ beatIn = [h \in Holder |-> Beat]
    /\ todo = [h \in Holder |-> {}]

-----------------------------------------------------------------------------
Own(h) == {s \in Session : ProcessOf[s] = h}
Of(h, p) == {s \in Own(h) : ProfileOf[s] = p}
Running(h) == status[h] \in {"up", "stopping", "releasing"}
Engaged(s) == stage[s] # "idle"

\* active_sessions[p] of process h, as a set of at most one session
Active(h, p) == active \cap Of(h, p)

IsRunning(h, p) == Active(h, p) # {}

\* is_live; `but` are launches that have just left _starting
IsLiveBut(but, h, p) ==
    IsRunning(h, p) \/ \E t \in Of(h, p) \ but : stage[t] = "starting"

IsLive(h, p) == IsLiveBut({}, h, p)

Become(S, new) == stage' = [s \in Session |-> IF s \in S THEN new ELSE stage[s]]

-----------------------------------------------------------------------------
(***************************************************************************)
(* launch_browser                                                          *)
(***************************************************************************)

\* The acquire, the reads and writes of the row, up to the first suspension:
\* the proxy lookup when geoip is off for the profile, else camoufox.start().
Launch(s, next) ==
    LET h == ProcessOf[s]
        p == ProfileOf[s]
    IN  /\ status[h] = "up"
        /\ stage[s] = "idle"
        /\ Serial => \A t \in Of(h, p) : Engaged(t) => t \in active
        /\ ~IsRunning(h, p)
        /\ AcquireLease(p, h)
        /\ stage' = [stage EXCEPT ![s] = next]
        /\ UNCHANGED <<status, active, events, beatIn, todo>>

\* Mutant: the early return releases like the error paths do.
LaunchAlreadyRunningReleases(h, p) ==
    /\ status[h] = "up"
    /\ IsRunning(h, p)
    /\ MayAcquire(p, h)
    /\ ReleaseLease(p, h)
    /\ UNCHANGED procVars

\* A launch that finds the browser already running keeps the lease it re-took.
LaunchAlreadyRunning(h, p) ==
    /\ status[h] = "up"
    /\ IsRunning(h, p)
    /\ AcquireLease(p, h)
    /\ UNCHANGED procVars

\* BrowserSessionManager.launch up to camoufox.start(): an active session is
\* returned as it is, otherwise the profile is counted in _starting.
LaunchProceeds(s) ==
    /\ stage[s] = "preparing"
    /\ stage' = [stage EXCEPT ![s] =
                   IF IsRunning(ProcessOf[s], ProfileOf[s]) THEN "idle" ELSE "starting"]
    /\ UNCHANGED <<leaseVars, status, active, events, beatIn, todo>>

\* start() returns: the session is stored under its profile, whatever was there.
StartSucceeds(s) ==
    /\ stage[s] = "starting"
    /\ stage' = [stage EXCEPT ![s] = "open"]
    /\ active' = (active \ Of(ProcessOf[s], ProfileOf[s])) \cup {s}
    /\ events' = events \cup {s}
    /\ UNCHANGED <<leaseVars, status, beatIn, todo>>

\* Mutant: `except Exception`, which a cancellation is not.
LaunchFailsUnreleased(s) ==
    /\ stage[s] \in {"preparing", "starting"}
    /\ stage' = [stage EXCEPT ![s] = "idle"]
    /\ UNCHANGED <<leaseVars, status, active, events, beatIn, todo>>

\* An exception or a cancellation: the lease goes back unless something is live.
LaunchFails(s) ==
    LET h == ProcessOf[s]
        p == ProfileOf[s]
    IN  /\ stage[s] \in {"preparing", "starting"}
        /\ stage' = [stage EXCEPT ![s] = "idle"]
        /\ IF IsLiveBut({s}, h, p) THEN UNCHANGED leaseVars ELSE ReleaseLease(p, h)
        /\ UNCHANGED <<status, active, events, beatIn, todo>>

-----------------------------------------------------------------------------
(***************************************************************************)
(* Teardown                                                                *)
(***************************************************************************)

\* Pop the profile's session and begin terminate() on it; `freed` are sessions
\* that end in the same step.
Pop(h, p, new, freed) ==
    /\ stage' = [s \in Session |->
                   CASE s \in Active(h, p) -> new
                     [] s \in freed \ active -> "idle"
                     [] OTHER -> stage[s]]
    /\ active' = active \ Of(h, p)

\* Mutant: the lease goes back before the browser is closed.
CloseBrowserReleasesFirst(h, p) ==
    /\ status[h] = "up"
    /\ IsRunning(h, p)
    /\ Pop(h, p, "closing", {})
    /\ ReleaseLease(p, h)
    /\ UNCHANGED <<status, events, beatIn, todo>>

\* close_and_release, up to __aexit__
CloseBrowser(h, p) ==
    /\ status[h] = "up"
    /\ IsRunning(h, p)
    /\ Pop(h, p, "closing", {})
    /\ UNCHANGED <<leaseVars, status, events, beatIn, todo>>

\* The browser's context closes -- the user closed the window, or terminate() is
\* closing it -- and its handler runs _handle_exit, which knows only the profile.
CloseEvent(s) ==
    /\ s \in events
    /\ events' = events \ {s}
    /\ Pop(ProcessOf[s], ProfileOf[s], "exiting",
           IF stage[s] \in {"open", "cut"} THEN {s} ELSE {})
    /\ UNCHANGED <<leaseVars, status, beatIn, todo>>

\* terminate() returns to close_and_release or _handle_exit.
TerminateDone(s) ==
    /\ stage[s] \in {"closing", "exiting", "draining"}
    /\ stage' = [stage EXCEPT ![s] = "idle"]
    /\ events' = events \ {s}
    /\ ReleaseLease(ProfileOf[s], ProcessOf[s])
    /\ UNCHANGED <<status, active, beatIn, todo>>

\* The driver process dies under an open browser, taking the close event along.
DriverDies(s) ==
    /\ DriverFails
    /\ stage[s] = "open"
    /\ stage' = [stage EXCEPT ![s] = "gone"]
    /\ events' = events \ {s}
    /\ UNCHANGED <<leaseVars, status, active, beatIn, todo>>

\* _monitor of a session that somebody else's launch has replaced: it calls
\* _handle_exit for the profile, that is, for the session that replaced it.
MonitorFiresForReplaced(s) ==
    /\ stage[s] = "gone"
    /\ s \notin active
    /\ Pop(ProcessOf[s], ProfileOf[s], "exiting", {s})
    /\ UNCHANGED <<leaseVars, status, events, beatIn, todo>>

\* _monitor of the registered session.  terminate() cancels the very task it runs
\* in, so if __aexit__ suspends, the cancellation is delivered there and the rest
\* of _handle_exit, the lease release included, never runs.
MonitorFires(s) ==
    /\ stage[s] = "gone"
    /\ s \in active
    /\ stage' = [stage EXCEPT ![s] = "idle"]
    /\ active' = active \ {s}
    /\ \/ UNCHANGED leaseVars
       \/ ReleaseLease(ProfileOf[s], ProcessOf[s])
    /\ UNCHANGED <<status, events, beatIn, todo>>

-----------------------------------------------------------------------------
(***************************************************************************)
(* The heartbeat: _heartbeat_loop and _renew_leases                        *)
(***************************************************************************)
Beating(h) == todo[h] # {} \/ \E s \in Own(h) : stage[s] = "dropping"

\* The bulk renewal of everything in active_sessions.  If all of it was renewed
\* the loop sleeps again; otherwise it asks one profile at a time.
HeartbeatRenews(h) ==
    LET ids == {p \in Profile : IsRunning(h, p)}
        all == Renewable(ids, h) = ids
    IN  /\ status[h] = "up"
        /\ beatIn[h] = 0
        /\ ~Beating(h)
        /\ RenewLease(ids, h)
        /\ todo' = [todo EXCEPT ![h] = IF all THEN {} ELSE ids]
        /\ beatIn' = [beatIn EXCEPT ![h] = IF all THEN Beat ELSE 0]
        /\ UNCHANGED <<status, stage, active, events>>

\* One profile of the loop: renewed, or else closed without a release.
HeartbeatChecks(h, p) ==
    LET rest == todo[h] \ {p}
        lost == Renewable({p}, h) = {}
        drops == lost /\ IsRunning(h, p)
    IN  /\ status[h] = "up"
        /\ p \in todo[h]
        /\ \A s \in Own(h) : stage[s] # "dropping"
        /\ RenewLease({p}, h)
        /\ IF drops THEN Pop(h, p, "dropping", {}) ELSE UNCHANGED <<stage, active>>
        /\ todo' = [todo EXCEPT ![h] = rest]
        /\ beatIn' = [beatIn EXCEPT ![h] = IF rest = {} /\ ~drops THEN Beat ELSE 0]
        /\ UNCHANGED <<status, events>>

\* terminate() returns to the heartbeat, which goes on, or back to sleep.
HeartbeatDropped(s) ==
    LET h == ProcessOf[s]
    IN  /\ stage[s] = "dropping"
        /\ stage' = [stage EXCEPT ![s] = "idle"]
        /\ events' = events \ {s}
        /\ beatIn' = [beatIn EXCEPT ![h] = IF todo[h] = {} THEN Beat ELSE 0]
        /\ UNCHANGED <<leaseVars, status, active, todo>>

-----------------------------------------------------------------------------
(***************************************************************************)
(* Processes: the lifespan of main.py, a crash, the operator, time         *)
(***************************************************************************)
StartUp(h) ==
    /\ status[h] = "off"
    /\ status' = [status EXCEPT ![h] = "up"]
    /\ UNCHANGED <<leaseVars, stage, active, events, beatIn, todo>>

\* Mutant: launches in flight are not waited for.
ShutDownUndrained(h) ==
    /\ status[h] = "up"
    /\ status' = [status EXCEPT ![h] = "stopping"]
    /\ Become({s \in Own(h) : stage[s] \in {"closing", "dropping"}}, "cut")
    /\ todo' = [todo EXCEPT ![h] = {}]
    /\ beatIn' = [beatIn EXCEPT ![h] = Beat]
    /\ UNCHANGED <<leaseVars, active, events>>

\* The server has finished or cancelled its requests; scheduler.stop and
\* stop_heartbeat cancel the pass and the beat in flight.  A teardown these were in
\* is cut off: terminate() catches an Exception, which a cancellation is not.
ShutDown(h) ==
    /\ status[h] = "up"
    /\ \A s \in Own(h) : stage[s] \notin {"preparing", "starting"}
    /\ status' = [status EXCEPT ![h] = "stopping"]
    /\ Become({s \in Own(h) : stage[s] \in {"closing", "dropping"}}, "cut")
    /\ todo' = [todo EXCEPT ![h] = {}]
    /\ beatIn' = [beatIn EXCEPT ![h] = Beat]
    /\ UNCHANGED <<leaseVars, active, events>>

\* close_all: one session after the other
ShutDownCloses(s) ==
    /\ status[ProcessOf[s]] = "stopping"
    /\ s \in active
    /\ \A t \in Own(ProcessOf[s]) : stage[t] # "draining"
    /\ Pop(ProcessOf[s], ProfileOf[s], "draining", {})
    /\ UNCHANGED <<leaseVars, status, events, beatIn, todo>>

\* close_all has returned; release_all_leases lists the rows naming this process ...
ShutDownLists(h) ==
    /\ status[h] = "stopping"
    /\ \A s \in Own(h) : s \notin active /\ stage[s] # "draining"
    /\ status' = [status EXCEPT ![h] = "releasing"]
    /\ todo' = [todo EXCEPT ![h] = {p \in rows : lockedBy[p] = h}]
    /\ UNCHANGED <<leaseVars, stage, active, events, beatIn>>

\* ... and releases each, unless its browser is live.  is_live knows nothing of a
\* session that was popped and is still being torn down, and nothing waits for it.
ShutDownReleases(h, p) ==
    /\ status[h] = "releasing"
    /\ p \in todo[h]
    /\ IF IsLive(h, p) THEN UNCHANGED leaseVars ELSE ReleaseLease(p, h)
    /\ todo' = [todo EXCEPT ![h] = @ \ {p}]
    /\ UNCHANGED <<status, stage, active, events, beatIn>>

\* The process and its Playwright drivers end.
End(h, how) ==
    /\ status' = [status EXCEPT ![h] = how]
    /\ Become(Own(h), "idle")
    /\ active' = active \ Own(h)
    /\ events' = events \ Own(h)
    /\ beatIn' = [beatIn EXCEPT ![h] = Beat]
    /\ todo' = [todo EXCEPT ![h] = {}]
    /\ UNCHANGED leaseVars

ShutDownEnds(h) ==
    /\ status[h] = "releasing"
    /\ todo[h] = {}
    /\ End(h, "exited")

Crash(h) == Running(h) /\ End(h, "crashed")

\* What `Late` leaves out is done in time: a beat when it is due, a launch while
\* the lease it took still has a beat to spare, a teardown before its lease ends.
HoldsItsLease(s) == lockedBy[ProfileOf[s]] = ProcessOf[s]

Leaving(s) ==
    \/ stage[s] \in {"closing", "exiting", "draining"}
    \/ stage[s] \in {"open", "gone"} /\ status[ProcessOf[s]] = "stopping"

InTime ==
    /\ "beat" \in Late \/ \A h \in Holder : status[h] = "up" => beatIn[h] > 0
    /\ "start" \in Late \/ \A s \in Session :
         stage[s] \in {"preparing", "starting"} /\ HoldsItsLease(s)
           => left[ProfileOf[s]] > Beat
    /\ "teardown" \in Late \/ \A s \in Session :
         Leaving(s) /\ HoldsItsLease(s) => left[ProfileOf[s]] > 0

Tick ==
    /\ InTime
    /\ LeaseTick
    /\ beatIn' = [h \in Holder |->
                    IF status[h] = "up" /\ beatIn[h] > 0 THEN beatIn[h] - 1 ELSE beatIn[h]]
    /\ UNCHANGED <<status, stage, active, events, todo>>

\* `camoufox-pm unlock`, and delete_profile, which asks nothing about browsers
Operator(p) ==
    /\ ForceSelect(p) \/ ForceClear(p) \/ DeleteRow(p)
    /\ UNCHANGED procVars

Next ==
    \/ \E s \in Session :
         \/ \E next \in {"preparing", "starting"} : Launch(s, next)
         \/ LaunchProceeds(s) \/ StartSucceeds(s) \/ LaunchFails(s)
         \/ CloseEvent(s) \/ TerminateDone(s)
         \/ DriverDies(s) \/ MonitorFiresForReplaced(s) \/ MonitorFires(s)
         \/ HeartbeatDropped(s) \/ ShutDownCloses(s)
    \/ \E h \in Holder :
         \/ StartUp(h) \/ HeartbeatRenews(h)
         \/ ShutDown(h) \/ ShutDownLists(h) \/ ShutDownEnds(h) \/ Crash(h)
         \/ \E p \in Profile :
              \/ LaunchAlreadyRunning(h, p) \/ CloseBrowser(h, p)
              \/ HeartbeatChecks(h, p) \/ ShutDownReleases(h, p)
    \/ \E p \in Profile : Operator(p)
    \/ Tick

Spec == Init /\ [][Next]_vars

\* The event loop runs what is due; start() and __aexit__ return, one way or the
\* other; time passes.  Nobody has to launch, close, stop or unlock anything.
Fairness ==
    /\ WF_vars(Tick)
    /\ \A s \in Session :
         /\ WF_vars(LaunchProceeds(s))
         /\ WF_vars(StartSucceeds(s) \/ LaunchFails(s))
         /\ WF_vars(TerminateDone(s))
         /\ WF_vars(HeartbeatDropped(s))
         /\ WF_vars(MonitorFires(s) \/ MonitorFiresForReplaced(s))
         /\ WF_vars(ShutDownCloses(s))
    /\ \A h \in Holder :
         /\ WF_vars(HeartbeatRenews(h))
         /\ WF_vars(ShutDownLists(h))
         /\ WF_vars(ShutDownEnds(h))
         /\ \A p \in Profile :
              WF_vars(HeartbeatChecks(h, p)) /\ WF_vars(ShutDownReleases(h, p))

FairSpec == Spec /\ Fairness
=============================================================================
