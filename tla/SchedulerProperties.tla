------------------------ MODULE SchedulerProperties -------------------------
(***************************************************************************)
(* What the schedules of Scheduler.tla promise.                            *)
(***************************************************************************)
EXTENDS Scheduler, Calendar

\* Nothing that was due before a pass, or before the app came up, is still due
\* after it: a late run never plans the next one in the past, whatever was edited,
\* created or deleted while the pass was waiting ("it would fire again immediately,
\* forever"), and nothing missed is replayed.
NothingLeftDue ==
    [][(\/ ~up /\ up'
        \/ pass.at = "firing" /\ pass.due = {} /\ pass' = Sleeping /\ up')
       => \A s \in Schedule : ~Due(table'[s])]_vars

\* An enabled schedule that falls due fires, whatever the others do: one that
\* fails, skips or takes its time never starves it (scheduling.md: "one failing
\* schedule never blocks another").
DueIsServed ==
    \A s \in Schedule :
        up /\ table[s] # None /\ table[s].on /\ table[s].left \in -MaxPass .. 0
          ~> ~up \/ table[s] = None \/ ~table[s].on \/ table[s].left > 0

\* A session opened with run_minutes ends by itself, also one that was started by
\* hand with "run now" (scheduling.md: "does not leave a window open").
TimedSessionEnds ==
    \A p \in Profile : browser[p] = "timed" ~> browser[p] # "timed"

Orphan(s) == up /\ table[s] # None /\ table[s].on /\ ProfileOf[s] \notin profiles

\* A schedule that outlives its profile, as one saved from a stale copy does, is
\* taken up by finitely many passes, unless it is switched off already ("must not
\* keep firing every occurrence forever").
OrphansAreSilenced ==
    \A s \in Schedule :
        <>[]Orphan(s) => <>[](pass.at = "firing" => \A copy \in pass.due : copy.id # s)

\* A schedule that was deleted stays deleted (tick: "an edit made through the API
\* is picked up within one poll, with no cache to invalidate").
DeletedStaysDeleted ==
    [][\A s \in made : table[s] = None => table'[s] = None]_vars

\* The timer closes no browser but the one its own run opened (tick: "A no-op if
\* the user already closed the window themselves").
ClosesItsOwn ==
    [][\A p \in Profile :
         /\ pass.at = "closing" /\ pass'.at = "closing"
         /\ p \in pass.closes \ pass'.closes
         => browser[p] # "open"]_vars
-----------------------------------------------------------------------------
(***************************************************************************)
(* Why NothingLeftDue holds, and why TimedSessionEnds can: an inductive    *)
(* invariant, in parts.                                                    *)
(***************************************************************************)

\* The clock of a pass starts with it, and there is no pass while the app is down.
PassHasClock ==
    /\ pass = Sleeping => late = 0
    /\ ~up => pass = Sleeping

\* Everything that is due at the instant the pass read the clock is still among the
\* copies it works from: no edit, and no time spent waiting, makes anything due that
\* the pass has not listed or has dealt with.
NothingOverlooked ==
    pass.at = "firing" =>
        \A s \in Schedule : Due(table[s]) => \E copy \in pass.due : copy.id = s

\* A browser that a timed run opened has a close noted down for its profile, whatever
\* was opened and closed by hand in between.
TimedAreNoted == \A p \in Profile : browser[p] = "timed" => closeIn[p] # None

SchedulerInv == TypeOK /\ PassHasClock /\ NothingOverlooked /\ TimedAreNoted
=============================================================================
