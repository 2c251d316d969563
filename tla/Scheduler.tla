----------------------------- MODULE Scheduler ------------------------------
(***************************************************************************)
(* TaskScheduler (core/scheduler.py) in one process, with the requests and *)
(* restarts it runs beside.  A pass of the loop reads the schedules table  *)
(* once and then works from its copies; it suspends inside the close or    *)
(* the launch of a browser, and requests are served meanwhile.             *)
(*                                                                         *)
(* Times are relative: `left` is next_run_at minus now, and `late` is how  *)
(* long ago the pass read its own `now`.  A daily schedule differs from an *)
(* interval one only in which later instant next_run_after picks, which is *)
(* the subject of Calendar, and is an interval here.  What launches of     *)
(* one profile do to each other is the subject of Fleet; here the later    *)
(* one takes over.                                                         *)
(***************************************************************************)
EXTENDS Integers

CONSTANTS
    Schedule, Profile, None,
    ProfileOf,    \* profile_id of each schedule
    RunFor,       \* run_minutes of each schedule, 0 for none
    Refresh,      \* schedules whose action is refresh_browser
    Every,        \* the intervals a schedule can have
    Longest,      \* the longest of them
    MaxPass       \* bound: ticks a pass may take

ASSUME ScheduleAssumption ==
    /\ ProfileOf \in [Schedule -> Profile]
    /\ RunFor \in [Schedule -> 0 .. Longest]
    /\ Refresh \subseteq {s \in Schedule : RunFor[s] = 0}

ASSUME TimeAssumption ==
    /\ Longest \in Nat /\ MaxPass \in Nat
    /\ Every \subseteq 1 .. Longest

ASSUME NoneAssumption == None \notin -MaxPass .. Longest

VARIABLES
    up,           \* the app is running
    table,        \* the schedules table
    made,         \* schedules that were created at some time
    profiles,     \* profiles that have a row
    browser,      \* the browser of each profile
    closeIn,      \* _timed_closes, in ticks from now
    launching,    \* scheduled launches in flight, and who awaits them
    pass,         \* what the loop is doing
    late          \* ticks since the pass read the clock

requestVars == <<made, profiles>>
vars == <<up, table, made, profiles, browser, closeIn, launching, pass, late>>

\* next_run_at may be long past; the model stops counting at MaxPass
Row == [on : BOOLEAN, every : Every, left : (-MaxPass .. Longest) \cup {None}]

Sleeping == [at |-> "sleeping"]

TypeOK ==
    /\ up \in BOOLEAN
    /\ table \in [Schedule -> Row \cup {None}]
    /\ made \subseteq Schedule
    /\ profiles \subseteq Profile
    /\ browser \in [Profile -> {"none", "open", "timed"}]
    /\ closeIn \in [Profile -> (0 .. Longest) \cup {None}]
    /\ launching \subseteq
         [profile : Profile, by : {"pass", "request"}, timed : BOOLEAN, run : 0 .. Longest]
    /\ \/ pass = Sleeping
       \/ pass \in [at : {"closing"}, closes : SUBSET Profile, awaits : BOOLEAN]
       \/ pass \in [at : {"firing"}, due : SUBSET [id : Schedule, every : Every]]
    /\ late \in 0 .. MaxPass

Init ==
    /\ up = FALSE
    /\ table = [s \in Schedule |-> None]
    /\ made = {}
    /\ profiles = Profile
    /\ browser = [p \in Profile |-> "none"]
    /\ closeIn = [p \in Profile |-> None]
    /\ launching = {}
    /\ pass = Sleeping
    /\ late = 0

-----------------------------------------------------------------------------
\* Due at the instant the pass read the clock.
Due(row) == row # None /\ row.on /\ row.left # None /\ row.left + late <= 0

Unplanned(row) == row # None /\ row.on /\ row.left = None

\* Mutant: the time the pass has taken comes on top of the interval.
PlannedLate(on, every, ago) ==
    [on |-> on, every |-> every, left |-> IF on THEN every + ago ELSE None]

Planned(on, every, ago) ==
    [on |-> on, every |-> every, left |-> IF on THEN every - ago ELSE None]

\* Mutant: schedules are taken up as they were left.
StartUpUnreconciled ==
    /\ ~up
    /\ up' = TRUE
    /\ UNCHANGED <<table, made, profiles, browser, closeIn, launching, pass, late>>

\* start(): reconcile_missed skips what fell due while the app was down.
StartUp ==
    /\ ~up
    /\ up' = TRUE
    /\ table' = [s \in Schedule |->
                   IF Due(table[s]) \/ Unplanned(table[s])
                     THEN Planned(TRUE, table[s].every, 0) ELSE table[s]]
    /\ UNCHANGED <<made, profiles, browser, closeIn, launching, pass, late>>

\* The app stops or dies, and its browsers with it.
GoDown ==
    /\ up
    /\ up' = FALSE
    /\ browser' = [p \in Profile |-> "none"]
    /\ closeIn' = [p \in Profile |-> None]
    /\ launching' = {}
    /\ pass' = Sleeping
    /\ late' = 0
    /\ UNCHANGED <<table, made, profiles>>

-----------------------------------------------------------------------------
(***************************************************************************)
(* tick()                                                                  *)
(***************************************************************************)

\* The loop is waiting for a browser to open or to close.
Awaiting ==
    \/ pass.at = "closing" /\ pass.awaits
    \/ \E launch \in launching : launch.by = "pass"

\* Everything else runs when the loop waits or sleeps: storage calls do not suspend.
Yields == pass = Sleeping \/ Awaiting

TickStarts ==
    /\ up
    /\ pass = Sleeping
    /\ pass' = [at |-> "closing", awaits |-> FALSE,
                closes |-> {p \in Profile : closeIn[p] = 0}]
    /\ UNCHANGED <<up, table, made, profiles, browser, closeIn, launching, late>>

\* One timed close: the entry is dropped, and whatever browser is open is closed.
TimedClose(p) ==
    /\ pass.at = "closing" /\ ~pass.awaits
    /\ p \in pass.closes
    /\ closeIn' = [closeIn EXCEPT ![p] = None]
    /\ browser' = [browser EXCEPT ![p] = "none"]
    /\ pass' = [pass EXCEPT !.closes = @ \ {p}, !.awaits = browser[p] # "none"]
    /\ UNCHANGED <<up, table, made, profiles, launching, late>>

TimedCloseReturns ==
    /\ pass.at = "closing" /\ pass.awaits
    /\ pass' = [pass EXCEPT !.awaits = FALSE]
    /\ UNCHANGED <<up, table, made, profiles, browser, closeIn, launching, late>>

\* list_schedules; only what is due matters from here on.
Lists ==
    /\ pass.at = "closing" /\ ~pass.awaits
    /\ pass.closes = {}
    /\ pass' = [at |-> "firing",
                due |-> {[id |-> s, every |-> table[s].every] : s \in {t \in Schedule : Due(table[t])}}]
    /\ UNCHANGED <<up, table, made, profiles, browser, closeIn, launching, late>>

\* The schedule is saved with its next run, from the copy the pass has of it.
Advance(copy, on) ==
    table' = [table EXCEPT ![copy.id] = [Planned(TRUE, copy.every, late) EXCEPT !.on = on]]

\* launch_browser begins, for a run of this schedule.
Launches(s, by) ==
    launching' = launching \cup
        {[profile |-> ProfileOf[s], by |-> by, timed |-> RunFor[s] > 0, run |-> RunFor[s]]}

TakesUp(copy) ==
    /\ pass.at = "firing" /\ ~Awaiting
    /\ copy \in pass.due
    /\ pass' = [pass EXCEPT !.due = @ \ {copy}]

\* Mutant: a schedule that cannot succeed stays enabled.
FiresOrphanEnabled(copy) ==
    /\ TakesUp(copy)
    /\ ProfileOf[copy.id] \notin profiles
    /\ Advance(copy, TRUE)
    /\ UNCHANGED <<up, made, profiles, browser, closeIn, launching, late>>

\* execute() when the profile is gone: the schedule is disabled.
FiresOrphan(copy) ==
    /\ TakesUp(copy)
    /\ ProfileOf[copy.id] \notin profiles
    /\ Advance(copy, FALSE)
    /\ UNCHANGED <<up, made, profiles, browser, closeIn, launching, late>>

\* Mutant: a skipped run does not move on to the next one.
FiresUnadvanced(copy) ==
    /\ TakesUp(copy)
    /\ ProfileOf[copy.id] \in profiles
    /\ IF browser[ProfileOf[copy.id]] = "none" /\ copy.id \notin Refresh
         THEN Advance(copy, TRUE) /\ Launches(copy.id, "pass")
         ELSE UNCHANGED <<table, launching>>
    /\ UNCHANGED <<up, made, profiles, browser, closeIn, late>>

\* execute(): a launch is awaited, unless the browser is open already; a refresh
\* of the pin does not suspend.
Fires(copy) ==
    /\ TakesUp(copy)
    /\ ProfileOf[copy.id] \in profiles
    /\ Advance(copy, TRUE)
    /\ IF browser[ProfileOf[copy.id]] = "none" /\ copy.id \notin Refresh
         THEN Launches(copy.id, "pass") ELSE UNCHANGED launching
    /\ UNCHANGED <<up, made, profiles, browser, closeIn, late>>

\* The action raises before anything came of it; the run is logged as an error.
FiresInVain(copy) ==
    /\ TakesUp(copy)
    /\ Advance(copy, TRUE)
    /\ UNCHANGED <<up, made, profiles, browser, closeIn, launching, late>>

\* start() returns.  A browser that came up meanwhile is what launch() returns, or
\* is replaced in active_sessions.
Opens(launch) ==
    LET p == launch.profile
    IN  /\ Yields
        /\ launch \in launching
        /\ launching' = launching \ {launch}
        /\ \/ browser' = [browser EXCEPT ![p] = IF launch.timed THEN "timed" ELSE "open"]
           \/ browser[p] # "none" /\ UNCHANGED browser

\* Mutant: only runs that the timer started end by themselves.
LaunchReturnsUntimed(launch) ==
    /\ Opens(launch)
    /\ closeIn' = [closeIn EXCEPT ![launch.profile] =
                     IF launch.timed /\ launch.by = "pass" THEN launch.run ELSE @]
    /\ UNCHANGED <<up, table, made, profiles, pass, late>>

\* With run_minutes, the browser is due to close that long after the run started.
LaunchReturns(launch) ==
    /\ Opens(launch)
    /\ closeIn' = [closeIn EXCEPT ![launch.profile] = IF launch.timed THEN launch.run ELSE @]
    /\ UNCHANGED <<up, table, made, profiles, pass, late>>

LaunchFails(launch) ==
    /\ Yields
    /\ launch \in launching
    /\ launching' = launching \ {launch}
    /\ UNCHANGED <<up, table, made, profiles, browser, closeIn, pass, late>>

PassEnds ==
    /\ pass.at = "firing" /\ ~Awaiting
    /\ pass.due = {}
    /\ pass' = Sleeping
    /\ late' = 0
    /\ UNCHANGED <<up, table, made, profiles, browser, closeIn, launching>>

\* A read or write of the database raises out of tick(): the rest waits for the
\* next poll.
PassFails ==
    /\ ~Awaiting
    /\ \/ pass.at = "firing"
       \/ pass.at = "closing" /\ pass.closes = {}
    /\ pass' = Sleeping
    /\ late' = 0
    /\ UNCHANGED <<up, table, made, profiles, browser, closeIn, launching>>

-----------------------------------------------------------------------------
(***************************************************************************)
(* Requests: the schedules routes, browsers opened and closed by hand,     *)
(* profiles deleted                                                        *)
(***************************************************************************)
Create(s, on, every) ==
    /\ up /\ Yields
    /\ s \notin made
    /\ ProfileOf[s] \in profiles
    /\ table' = [table EXCEPT ![s] = Planned(on, every, 0)]
    /\ made' = made \cup {s}
    /\ UNCHANGED <<up, profiles, browser, closeIn, launching, pass, late>>

\* PUT with a timing field: planned again from now.
Update(s, on, every) ==
    /\ up /\ Yields
    /\ table[s] # None
    /\ table' = [table EXCEPT ![s] = Planned(on, every, 0)]
    /\ UNCHANGED <<up, requestVars, browser, closeIn, launching, pass, late>>

Delete(s) ==
    /\ up /\ Yields
    /\ table[s] # None
    /\ table' = [table EXCEPT ![s] = None]
    /\ UNCHANGED <<up, requestVars, browser, closeIn, launching, pass, late>>

\* POST /schedules/{id}/run: execute() without the timer.
RunNow(s) ==
    LET p == ProfileOf[s]
    IN  /\ up /\ Yields
        /\ table[s] # None
        /\ \A launch \in launching : launch.by # "request"  \* bound: one at a time
        /\ IF p \notin profiles
             THEN table' = [table EXCEPT ![s].on = FALSE] /\ UNCHANGED launching
             ELSE /\ UNCHANGED table
                  /\ browser[p] = "none" /\ s \notin Refresh
                  /\ Launches(s, "request")
        /\ UNCHANGED <<up, requestVars, browser, closeIn, pass, late>>

\* Somebody opens the browser, or closes it or its window.
OpensByHand(p) ==
    /\ up /\ Yields
    /\ p \in profiles
    /\ browser[p] = "none"
    /\ browser' = [browser EXCEPT ![p] = "open"]
    /\ UNCHANGED <<up, table, requestVars, closeIn, launching, pass, late>>

ClosesByHand(p) ==
    /\ Yields
    /\ browser[p] # "none"
    /\ browser' = [browser EXCEPT ![p] = "none"]
    /\ UNCHANGED <<up, table, requestVars, closeIn, launching, pass, late>>

\* The schedules of a profile go with it.
DeleteProfile(p) ==
    /\ up /\ Yields
    /\ p \in profiles
    /\ profiles' = profiles \ {p}
    /\ table' = [s \in Schedule |-> IF ProfileOf[s] = p THEN None ELSE table[s]]
    /\ UNCHANGED <<up, made, browser, closeIn, launching, pass, late>>

-----------------------------------------------------------------------------
Down(n, floor) == IF n = None \/ n = floor THEN n ELSE n - 1

Tick ==
    /\ pass = Sleeping \/ (Awaiting /\ late < MaxPass)
    /\ table' = [s \in Schedule |->
                   IF table[s] = None THEN None
                   ELSE [table[s] EXCEPT !.left = Down(@, -MaxPass)]]
    /\ closeIn' = [p \in Profile |-> Down(closeIn[p], 0)]
    /\ launching' = {[launch EXCEPT !.run = Down(@, 0)] : launch \in launching}
    /\ late' = IF pass = Sleeping THEN 0 ELSE late + 1
    /\ UNCHANGED <<up, made, profiles, browser, pass>>

Copy == [id : Schedule, every : Every]

Next ==
    \/ StartUp \/ GoDown
    \/ TickStarts \/ TimedCloseReturns \/ Lists \/ PassEnds \/ PassFails
    \/ \E copy \in Copy : FiresOrphan(copy) \/ Fires(copy) \/ FiresInVain(copy)
    \/ \E p \in Profile :
         \/ TimedClose(p) \/ OpensByHand(p) \/ ClosesByHand(p) \/ DeleteProfile(p)
    \/ \E launch \in launching : LaunchReturns(launch) \/ LaunchFails(launch)
    \/ \E s \in Schedule :
         \/ \E on \in BOOLEAN, every \in Every : Create(s, on, every) \/ Update(s, on, every)
         \/ Delete(s) \/ RunNow(s)
    \/ Tick

Spec == Init /\ [][Next]_vars

\* The loop polls, browsers open and close or fail to, time passes though a pass
\* may be under way again and again, and neither storage nor the actions fail
\* every single time.
Fairness ==
    /\ SF_vars(Tick) /\ WF_vars(TickStarts) /\ WF_vars(TimedCloseReturns)
    /\ SF_vars(Lists) /\ WF_vars(PassEnds)
    /\ \A p \in Profile : WF_vars(TimedClose(p))
    /\ \A p \in Profile, caller \in {"pass", "request"} :
         SF_vars(\E launch \in launching :
                   /\ launch.profile = p /\ launch.by = caller
                   /\ LaunchReturns(launch) \/ LaunchFails(launch))
    /\ \A s \in Schedule :
         SF_vars(\E copy \in Copy : copy.id = s /\ (Fires(copy) \/ FiresOrphan(copy)))

FairSpec == Spec /\ Fairness
=============================================================================
