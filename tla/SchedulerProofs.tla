--------------------------- MODULE SchedulerProofs ---------------------------
(***************************************************************************)
(* Theorems about Scheduler for every set of schedules and profiles and    *)
(* any intervals and delays; and next_run_after keeps its promise, for     *)
(* days of any length and any times, weekdays and intervals.               *)
(***************************************************************************)
EXTENDS SchedulerProperties, TLAPS

\* A planned run is a row of the table, and is in the future of the pass that plans it.
LEMMA PlannedRows ==
    ASSUME NEW on \in BOOLEAN, NEW every \in Every, NEW ago \in 0 .. MaxPass
    PROVE  /\ Planned(on, every, ago) \in Row
           /\ Planned(on, every, ago).on = on
           /\ Planned(on, every, ago).every = every
           /\ on => Planned(on, every, ago).left + ago > 0
BY TimeAssumption DEF Planned, Row

\* What a row holds.
LEMMA RowFields ==
    ASSUME NEW row \in Row
    PROVE  /\ row.on \in BOOLEAN /\ row.every \in Every
           /\ row.left # None => row.left \in Int /\ row.left >= -MaxPass
BY TimeAssumption DEF Row

\* Counting down stops at the floor and passes None by.
LEMMA DownTypes ==
    ASSUME NEW floor \in Int, NEW top \in Int, NEW n \in (floor .. top) \cup {None}
    PROVE  Down(n, floor) \in (floor .. top) \cup {None}
BY DEF Down

LEMMA SchedulerInit == Init => SchedulerInv
<1> SUFFICES ASSUME Init PROVE SchedulerInv
  OBVIOUS
<1>1. TypeOK
  <2>1. pass = Sleeping /\ late \in 0 .. MaxPass
    BY TimeAssumption DEF Init
  <2>2. /\ up \in BOOLEAN /\ made \subseteq Schedule /\ profiles \subseteq Profile
        /\ launching = {}
    BY DEF Init
  <2>3. /\ table \in [Schedule -> Row \cup {None}]
        /\ browser \in [Profile -> {"none", "open", "timed"}]
        /\ closeIn \in [Profile -> (0 .. Longest) \cup {None}]
    BY DEF Init
  <2>4. QED
    BY <2>1, <2>2, <2>3 DEF TypeOK
<1>2. PassHasClock /\ NothingOverlooked
  BY DEF Init, PassHasClock, NothingOverlooked, Sleeping
<1>3. TimedAreNoted
  BY DEF Init, TimedAreNoted
<1>4. QED
  BY <1>1, <1>2, <1>3 DEF SchedulerInv

-----------------------------------------------------------------------------
Launching == [profile : Profile, by : {"pass", "request"}, timed : BOOLEAN, run : 0 .. Longest]
Closing == [at : {"closing"}, closes : SUBSET Profile, awaits : BOOLEAN]
Firing == [at : {"firing"}, due : SUBSET [id : Schedule, every : Every]]

LEMMA LaunchTypes ==
    ASSUME launching \subseteq Launching, NEW s \in Schedule, NEW by \in {"pass", "request"},
           Launches(s, by)
    PROVE  launching' \subseteq Launching
<1> DEFINE timed == RunFor[s] > 0
           new == [profile |-> ProfileOf[s], by |-> by, timed |-> timed, run |-> RunFor[s]]
<1>1. ProfileOf[s] \in Profile /\ RunFor[s] \in 0 .. Longest
  BY ScheduleAssumption
<1>2. timed \in BOOLEAN
  OBVIOUS
<1>3. launching' = launching \cup {new}
  BY DEF Launches
<1> HIDE DEF timed
<1>4. new \in Launching
  BY <1>1, <1>2 DEF Launching
<1> HIDE DEF new
<1>5. QED
  BY <1>3, <1>4

LEMMA PassTypes ==
    ASSUME TypeOK
    PROVE  /\ pass.at = "closing" => pass \in Closing
           /\ pass.at = "firing" => pass \in Firing
           /\ pass.at \in {"closing", "firing"} => pass # Sleeping
           /\ Sleeping.at = "sleeping"
BY DEF TypeOK, Sleeping, Closing, Firing

LEMMA SchedulerTypeStep == TypeOK /\ [Next]_vars => TypeOK'
<1> SUFFICES ASSUME TypeOK, [Next]_vars PROVE TypeOK'
  OBVIOUS
<1> DEFINE Table == [Schedule -> Row \cup {None}]
           Pass == {Sleeping} \cup Closing \cup Firing
           Closes == [Profile -> (0 .. Longest) \cup {None}]
           Browsers == [Profile -> {"none", "open", "timed"}]
<1>0. /\ up \in BOOLEAN /\ table \in Table /\ made \subseteq Schedule /\ profiles \subseteq Profile
      /\ browser \in Browsers /\ closeIn \in Closes /\ launching \subseteq Launching
      /\ pass \in Pass /\ late \in 0 .. MaxPass
  BY DEF TypeOK, Launching, Closing, Firing
<1>t. ASSUME up' \in BOOLEAN, table' \in Table, made' \subseteq Schedule,
             profiles' \subseteq Profile, browser' \in Browsers, closeIn' \in Closes,
             launching' \subseteq Launching, pass' \in Pass, late' \in 0 .. MaxPass
      PROVE  TypeOK'
  BY <1>t DEF TypeOK, Launching, Closing, Firing
<1> HIDE DEF Table, Pass, Closes, Browsers
<1>1. CASE StartUp
  <2>1. table' \in Table
    <3>1. ASSUME NEW s \in Schedule, Due(table[s]) \/ Unplanned(table[s])
          PROVE  Planned(TRUE, table[s].every, 0) \in Row
      <4>1. table[s] \in Row
        BY <1>0, <3>1 DEF Due, Unplanned, Table
      <4>2. table[s].every \in Every /\ 0 \in 0 .. MaxPass
        BY <4>1, RowFields, TimeAssumption
      <4>3. QED
        BY <4>2, PlannedRows
    <3>2. \A s \in Schedule : table[s] \in Row \cup {None}
      BY <1>0 DEF Table
    <3>3. QED
      BY <1>1, <3>1, <3>2 DEF StartUp, Table
  <2>2. QED
    BY <1>0, <1>1, <1>t, <2>1 DEF StartUp
<1>2. CASE GoDown
  <2>1. browser' \in Browsers /\ closeIn' \in Closes /\ pass' \in Pass /\ late' \in 0 .. MaxPass
    BY <1>2, TimeAssumption DEF GoDown, Browsers, Closes, Pass
  <2>2. QED
    BY <1>0, <1>2, <1>t, <2>1 DEF GoDown
<1>3. CASE TickStarts
  <2>1. pass' \in Pass
    BY <1>3 DEF TickStarts, Pass, Closing
  <2>2. QED
    BY <1>0, <1>3, <1>t, <2>1 DEF TickStarts
<1>4. CASE TimedCloseReturns
  <2>1. pass' \in Pass
    BY <1>4, PassTypes DEF TimedCloseReturns, Pass, Closing
  <2>2. QED
    BY <1>0, <1>4, <1>t, <2>1 DEF TimedCloseReturns
<1>5. CASE Lists
  <2>1. \A s \in Schedule : Due(table[s]) => table[s].every \in Every
    BY <1>0, RowFields DEF Due, Table
  <2>2. pass' \in Pass
    BY <1>5, <2>1 DEF Lists, Pass, Firing
  <2>3. QED
    BY <1>0, <1>5, <1>t, <2>2 DEF Lists
<1>6. CASE PassEnds \/ PassFails
  <2>1. pass' \in Pass /\ late' \in 0 .. MaxPass
    BY <1>6, TimeAssumption DEF PassEnds, PassFails, Pass
  <2>2. QED
    BY <1>0, <1>6, <1>t, <2>1 DEF PassEnds, PassFails
<1>7. ASSUME NEW copy \in Copy, FiresOrphan(copy) \/ Fires(copy) \/ FiresInVain(copy)
      PROVE  TypeOK'
  <2>1. pass' \in Pass
    BY <1>7, PassTypes DEF FiresOrphan, Fires, FiresInVain, TakesUp, Pass, Firing
  <2>2. /\ copy.id \in Schedule /\ Planned(TRUE, copy.every, late) \in Row
        /\ \A on \in BOOLEAN : [Planned(TRUE, copy.every, late) EXCEPT !.on = on] \in Row
    <3>1. copy.id \in Schedule /\ copy.every \in Every
      BY DEF Copy
    <3>2. Planned(TRUE, copy.every, late) \in Row
      BY <1>0, <3>1, PlannedRows
    <3>3. QED
      BY <3>1, <3>2 DEF Row
  <2>3. table' \in Table
    BY <1>0, <1>7, <2>2 DEF FiresOrphan, Fires, FiresInVain, Advance, Table
  <2>4. launching' \subseteq Launching
    BY <1>0, <1>7, <2>2, LaunchTypes DEF FiresOrphan, Fires, FiresInVain, Launches
  <2>5. QED
    BY <1>0, <1>7, <1>t, <2>1, <2>3, <2>4 DEF FiresOrphan, Fires, FiresInVain
<1>8. ASSUME NEW p \in Profile, TimedClose(p)
      PROVE  TypeOK'
  <2>1. pass' \in Pass
    <3>1. pass \in Closing /\ (browser[p] # "none") \in BOOLEAN
      BY <1>8, PassTypes DEF TimedClose
    <3>2. QED
      BY <1>8, <3>1 DEF TimedClose, Pass, Closing
  <2>2. browser' \in Browsers /\ closeIn' \in Closes
    BY <1>0, <1>8 DEF TimedClose, Browsers, Closes
  <2>3. QED
    BY <1>0, <1>8, <1>t, <2>1, <2>2 DEF TimedClose
<1>9. ASSUME NEW p \in Profile, OpensByHand(p) \/ ClosesByHand(p)
      PROVE  TypeOK'
  <2>1. browser' \in Browsers
    BY <1>0, <1>9 DEF OpensByHand, ClosesByHand, Browsers
  <2>2. QED
    BY <1>0, <1>9, <1>t, <2>1 DEF OpensByHand, ClosesByHand, requestVars
<1>10. ASSUME NEW p \in Profile, DeleteProfile(p)
       PROVE  TypeOK'
  <2>1. table' \in Table
    BY <1>0, <1>10 DEF DeleteProfile, Table
  <2>2. QED
    BY <1>0, <1>10, <1>t, <2>1 DEF DeleteProfile
<1>11. ASSUME NEW launch \in launching, LaunchReturns(launch)
       PROVE  TypeOK'
  <2>1. launch.profile \in Profile /\ launch.run \in 0 .. Longest
    BY <1>0 DEF Launching
  <2>2. browser' \in Browsers /\ closeIn' \in Closes
    BY <1>0, <1>11, <2>1 DEF LaunchReturns, Opens, Browsers, Closes
  <2>3. QED
    BY <1>0, <1>11, <1>t, <2>2 DEF LaunchReturns, Opens
<1>12. ASSUME NEW launch \in launching, LaunchFails(launch)
       PROVE  TypeOK'
  BY <1>0, <1>12, <1>t DEF LaunchFails
<1>13. ASSUME NEW s \in Schedule, NEW on \in BOOLEAN, NEW every \in Every,
              Create(s, on, every) \/ Update(s, on, every)
       PROVE  TypeOK'
  <2>1. table' \in Table
    BY <1>0, <1>13, PlannedRows, TimeAssumption DEF Create, Update, Table
  <2>2. QED
    BY <1>0, <1>13, <1>t, <2>1 DEF Create, Update, requestVars
<1>14. ASSUME NEW s \in Schedule, Delete(s)
       PROVE  TypeOK'
  <2>1. table' \in Table
    BY <1>0, <1>14 DEF Delete, Table
  <2>2. QED
    BY <1>0, <1>14, <1>t, <2>1 DEF Delete, requestVars
<1>15. ASSUME NEW s \in Schedule, RunNow(s)
       PROVE  TypeOK'
  <2>1. table' \in Table
    BY <1>0, <1>15 DEF RunNow, Table, Row
  <2>2. launching' \subseteq Launching
    BY <1>0, <1>15, LaunchTypes DEF RunNow, Launches
  <2>3. QED
    BY <1>0, <1>15, <1>t, <2>1, <2>2 DEF RunNow, requestVars
<1>16. CASE Tick
  <2>1. table' \in Table
    <3>1. ASSUME NEW row \in Row
          PROVE  [row EXCEPT !.left = Down(@, -MaxPass)] \in Row
      BY DownTypes, TimeAssumption DEF Row
    <3>2. QED
      BY <1>0, <1>16, <3>1 DEF Tick, Table
  <2>2. closeIn' \in Closes
    BY <1>0, <1>16, DownTypes, TimeAssumption DEF Tick, Closes
  <2>3. launching' \subseteq Launching
    <3>1. ASSUME NEW launch \in Launching
          PROVE  [launch EXCEPT !.run = Down(@, 0)] \in Launching
      BY TimeAssumption, NoneAssumption DEF Launching, Down
    <3>2. QED
      BY <1>0, <1>16, <3>1 DEF Tick
  <2>4. late' \in 0 .. MaxPass
    BY <1>0, <1>16, TimeAssumption DEF Tick
  <2>5. QED
    BY <1>0, <1>16, <1>t, <2>1, <2>2, <2>3, <2>4 DEF Tick
<1>17. CASE UNCHANGED vars
  BY <1>0, <1>17, <1>t DEF vars
<1>18. QED
  BY <1>1, <1>2, <1>3, <1>4, <1>5, <1>6, <1>7, <1>8, <1>9, <1>10, <1>11, <1>12, <1>13,
     <1>14, <1>15, <1>16, <1>17 DEF Next

\* Every step of Scheduler keeps every variable in its type: no delay carries a next run
\* out of the range it is kept in.
THEOREM SchedulerTypeCorrect == Spec => []TypeOK
<1>1. Init => TypeOK
  BY SchedulerInit DEF SchedulerInv
<1>2. QED
  BY <1>1, SchedulerTypeStep, PTL DEF Spec

-----------------------------------------------------------------------------
\* A row that is planned is not due, whatever the pass has taken already.
LEMMA PlannedNotDue ==
    ASSUME TypeOK, NEW on \in BOOLEAN, NEW every \in Every, NEW ago \in {0, late}
    PROVE  /\ ~Due(Planned(on, every, ago))
           /\ ~Due([Planned(TRUE, every, ago) EXCEPT !.on = on])
<1>1. late \in 0 .. MaxPass /\ ago \in 0 .. MaxPass
  BY TimeAssumption DEF TypeOK
<1>2. every \in Int /\ every > 0
  BY TimeAssumption
<1>3. Planned(TRUE, every, ago).left + late > 0
  BY <1>1, <1>2 DEF Planned
<1>4. ~Due(Planned(on, every, ago))
  <2>1. on => Planned(on, every, ago) = Planned(TRUE, every, ago)
    BY DEF Planned
  <2>2. Planned(on, every, ago).on = on
    BY DEF Planned
  <2>3. ~(Planned(TRUE, every, ago).left + late <= 0)
    BY <1>1, <1>2 DEF Planned
  <2>4. QED
    BY <2>1, <2>2, <2>3 DEF Due
<1>5. ~Due([Planned(TRUE, every, ago) EXCEPT !.on = on])
  <2> DEFINE row == [Planned(TRUE, every, ago) EXCEPT !.on = on]
  <2>1. row.left + late > 0
    BY <1>3 DEF Planned
  <2>2. row.left \in Int
    BY <1>1, <1>2 DEF Planned
  <2> HIDE DEF row
  <2>3. ~Due(row)
    BY <1>1, <2>1, <2>2 DEF Due
  <2>4. QED
    BY <2>3 DEF row
<1>6. QED
  BY <1>4, <1>5

\* Edits between two steps of a pass overlook nothing when they make nothing due.
LEMMA NothingNewDue ==
    ASSUME NothingOverlooked, pass' = pass, late' = late,
           \A s \in Schedule : Due(table'[s]) => Due(table[s])
    PROVE  NothingOverlooked'
BY DEF NothingOverlooked, Due

\* A schedule that is taken up is planned again, and the others are as listed as before.
LEMMA TakenUp ==
    ASSUME TypeOK, NothingOverlooked, NEW copy \in Copy, NEW on \in BOOLEAN,
           TakesUp(copy), Advance(copy, on), late' = late
    PROVE  NothingOverlooked'
<1> SUFFICES ASSUME NEW s \in Schedule, Due(table'[s])
             PROVE  \E c \in pass'.due : c.id = s
  BY DEF NothingOverlooked, Due
<1>1. copy.id \in Schedule /\ copy.every \in Every
  BY DEF Copy
<1>2. pass.at = "firing" /\ pass'.due = pass.due \ {copy}
  BY PassTypes DEF TakesUp, Firing
<1>3. s # copy.id
  <2>1. s = copy.id => table'[s] = [Planned(TRUE, copy.every, late) EXCEPT !.on = on]
    BY <1>1 DEF Advance, TypeOK
  <2>2. QED
    BY <1>1, <2>1, PlannedNotDue
<1>4. table'[s] = table[s]
  BY <1>3 DEF Advance, TypeOK
<1>5. QED
  BY <1>2, <1>3, <1>4 DEF NothingOverlooked

\* Time that passes while the pass waits makes nothing due that was not: the pass goes
\* by the instant it began at.
LEMMA OverlooksNothingMeanwhile ==
    ASSUME TypeOK, NothingOverlooked, Tick
    PROVE  NothingOverlooked'
<1>1. CASE pass = Sleeping
  BY <1>1 DEF Tick, NothingOverlooked, Sleeping
<1>2. CASE pass # Sleeping
  <2>1. late' = late + 1 /\ pass' = pass /\ late \in 0 .. MaxPass
    BY <1>2 DEF Tick, TypeOK
  <2>2. ASSUME NEW s \in Schedule, Due(table[s])'
        PROVE  Due(table[s])
    <3> DEFINE row == table[s]
    <3>1. row \in Row
      BY <2>2 DEF TypeOK, Due, Tick
    <3>2. table'[s] = [row EXCEPT !.left = Down(row.left, -MaxPass)]
      BY <3>1, <2>2 DEF Tick, Due
    <3>3. table'[s].on = row.on /\ table'[s].left = Down(row.left, -MaxPass)
      BY <3>1, <3>2 DEF Row
    <3>4. row.on /\ row # None
      BY <2>2, <3>1, <3>3 DEF Due, Tick
    <3>5. Down(row.left, -MaxPass) # None /\ Down(row.left, -MaxPass) + late' <= 0
      BY <2>2, <3>3 DEF Due
    <3>6. row.left # None /\ row.left \in Int /\ row.left >= -MaxPass
      BY <3>1, <3>5, RowFields DEF Down
    <3>7. row.left + late <= 0
      BY <2>1, <3>5, <3>6, TimeAssumption DEF Down
    <3>8. QED
      BY <3>4, <3>6, <3>7 DEF Due
  <2>3. QED
    BY <2>1, <2>2 DEF NothingOverlooked
<1>3. QED
  BY <1>1, <1>2

LEMMA ClockStep ==
    ASSUME TypeOK, PassHasClock, [Next]_vars
    PROVE  PassHasClock'
<1>1. \/ StartUp \/ GoDown \/ PassEnds \/ PassFails \/ Tick
      \/ TickStarts \/ TimedCloseReturns \/ Lists \/ UNCHANGED <<up, pass, late>>
      \/ \E copy \in Copy : TakesUp(copy) /\ UNCHANGED <<up, late>>
      \/ \E p \in Profile : TimedClose(p)
  BY DEF Next, vars, requestVars, FiresOrphan, Fires, FiresInVain, OpensByHand, ClosesByHand,
         DeleteProfile, LaunchReturns, LaunchFails, Opens, Create, Update, Delete, RunNow
<1>2. CASE \E copy \in Copy : TakesUp(copy) /\ UNCHANGED <<up, late>>
  <2>1. pass \in Firing /\ up /\ up' = up
    BY <1>2, PassTypes DEF TakesUp, PassHasClock, TypeOK
  <2>2. pass'.at = "firing"
    BY <1>2, <2>1 DEF TakesUp, Firing
  <2>3. QED
    BY <2>1, <2>2 DEF PassHasClock, Sleeping
<1>3. CASE TimedCloseReturns \/ \E p \in Profile : TimedClose(p)
  <2>1. pass \in Closing /\ up /\ up' = up
    BY <1>3, PassTypes DEF TimedCloseReturns, TimedClose, PassHasClock, TypeOK
  <2>2. pass'.at = "closing"
    BY <1>3, <2>1 DEF TimedCloseReturns, TimedClose, Closing
  <2>3. QED
    BY <2>1, <2>2 DEF PassHasClock, Sleeping
<1>4. CASE TickStarts \/ Lists
  <2>1. up /\ up' = up
    BY <1>4, PassTypes DEF TickStarts, Lists, PassHasClock, TypeOK
  <2>2. pass'.at \in {"closing", "firing"}
    BY <1>4 DEF TickStarts, Lists
  <2>3. QED
    BY <2>1, <2>2 DEF PassHasClock, Sleeping
<1>5. CASE StartUp \/ Tick \/ UNCHANGED <<up, pass, late>>
  BY <1>5 DEF PassHasClock, StartUp, Tick
<1>6. CASE GoDown \/ PassEnds \/ PassFails
  <2>1. pass' = Sleeping /\ late' = 0
    BY <1>6 DEF GoDown, PassEnds, PassFails
  <2>2. QED
    BY <2>1 DEF PassHasClock
<1>7. QED
  BY <1>1, <1>2, <1>3, <1>4, <1>5, <1>6

\* The one thing that opens a browser for a timed run notes its close down, and only a
\* close that is carried out takes the note away.
LEMMA NotedStep ==
    ASSUME TypeOK, TimedAreNoted, [Next]_vars
    PROVE  TimedAreNoted'
<1>1. CASE GoDown
  BY <1>1 DEF GoDown, TimedAreNoted
<1>2. ASSUME NEW p \in Profile, TimedClose(p) \/ OpensByHand(p) \/ ClosesByHand(p)
      PROVE  TimedAreNoted'
  BY <1>2 DEF TimedClose, OpensByHand, ClosesByHand, TimedAreNoted, TypeOK
<1>3. ASSUME NEW launch \in launching, LaunchReturns(launch)
      PROVE  TimedAreNoted'
  <2>1. launch.profile \in Profile /\ launch.run # None
    <3>1. launch.profile \in Profile /\ launch.run \in 0 .. Longest
      BY DEF TypeOK
    <3>2. QED
      BY <3>1, NoneAssumption, TimeAssumption
  <2>2. ASSUME NEW p \in Profile, browser'[p] = "timed"
        PROVE  closeIn'[p] # None
    <3>1. CASE p # launch.profile
      BY <1>3, <2>2, <3>1 DEF LaunchReturns, Opens, TimedAreNoted, TypeOK
    <3>2. CASE p = launch.profile /\ launch.timed
      BY <1>3, <2>1, <3>2 DEF LaunchReturns, TypeOK
    <3>3. CASE p = launch.profile /\ ~launch.timed
      <4>1. browser'[p] = browser[p]
        BY <1>3, <2>2, <3>3 DEF LaunchReturns, Opens, TypeOK
      <4>2. closeIn'[p] = closeIn[p]
        BY <1>3, <3>3 DEF LaunchReturns, TypeOK
      <4>3. QED
        BY <2>2, <4>1, <4>2 DEF TimedAreNoted
    <3>4. QED
      BY <3>1, <3>2, <3>3
  <2>3. QED
    BY <2>2 DEF TimedAreNoted
<1>4. CASE Tick
  <2>1. ASSUME NEW p \in Profile, closeIn[p] # None
        PROVE  closeIn'[p] # None
    <3>1. closeIn[p] \in 0 .. Longest /\ closeIn'[p] = Down(closeIn[p], 0)
      BY <1>4, <2>1 DEF Tick, TypeOK
    <3>2. closeIn'[p] \in -MaxPass .. Longest
      BY <3>1, <2>1, TimeAssumption DEF Down
    <3>3. QED
      BY <3>2, NoneAssumption
  <2>2. QED
    BY <1>4, <2>1 DEF Tick, TimedAreNoted
<1>5. CASE UNCHANGED <<browser, closeIn>>
  BY <1>5 DEF TimedAreNoted
<1>6. QED
  BY <1>1, <1>2, <1>3, <1>4, <1>5
  DEF Next, vars, requestVars, StartUp, TickStarts, TimedCloseReturns, Lists, PassEnds,
      PassFails, FiresOrphan, Fires, FiresInVain, DeleteProfile, LaunchFails, Create, Update,
      Delete, RunNow

LEMMA OverlookedStep ==
    ASSUME TypeOK, PassHasClock, NothingOverlooked, [Next]_vars
    PROVE  NothingOverlooked'
<1>1. CASE StartUp
  BY <1>1 DEF StartUp, PassHasClock, NothingOverlooked, Sleeping
<1>2. CASE GoDown \/ PassEnds \/ PassFails
  BY <1>2 DEF GoDown, PassEnds, PassFails, NothingOverlooked, Sleeping
<1>3. CASE TickStarts
  BY <1>3 DEF TickStarts, NothingOverlooked
<1>4. CASE TimedCloseReturns
  BY <1>4, PassTypes DEF TimedCloseReturns, NothingOverlooked, Closing
<1>5. CASE Lists
  <2>1. ASSUME NEW s \in Schedule, Due(table[s])'
        PROVE  \E copy \in pass'.due : copy.id = s
    <3>1. Due(table[s])
      BY <1>5, <2>1 DEF Lists, Due
    <3>2. [id |-> s, every |-> table[s].every] \in pass'.due
      BY <1>5, <3>1 DEF Lists
    <3>3. QED
      BY <3>2
  <2>2. QED
    BY <2>1 DEF NothingOverlooked
<1>6. ASSUME NEW copy \in Copy, FiresOrphan(copy) \/ Fires(copy) \/ FiresInVain(copy)
      PROVE  NothingOverlooked'
  BY <1>6, TakenUp DEF FiresOrphan, Fires, FiresInVain
<1>7. ASSUME NEW p \in Profile, TimedClose(p)
      PROVE  NothingOverlooked'
  BY <1>7, PassTypes DEF TimedClose, NothingOverlooked, Closing
<1>8. ASSUME NEW p \in Profile, DeleteProfile(p)
      PROVE  NothingOverlooked'
  <2>1. \A s \in Schedule : Due(table'[s]) => Due(table[s])
    BY <1>8 DEF DeleteProfile, Due
  <2>2. QED
    BY <1>8, <2>1, NothingNewDue DEF DeleteProfile
<1>9. ASSUME NEW s \in Schedule, NEW on \in BOOLEAN, NEW every \in Every,
             Create(s, on, every) \/ Update(s, on, every)
      PROVE  NothingOverlooked'
  <2>1. ~Due(Planned(on, every, 0))
    BY PlannedNotDue
  <2>2. \A t \in Schedule : Due(table'[t]) => Due(table[t])
    BY <1>9, <2>1 DEF Create, Update, TypeOK
  <2>3. QED
    BY <1>9, <2>2, NothingNewDue DEF Create, Update
<1>10. ASSUME NEW s \in Schedule, Delete(s) \/ RunNow(s)
       PROVE  NothingOverlooked'
  <2>1. ASSUME NEW t \in Schedule
        PROVE  \/ table'[t] = table[t] \/ table'[t] = None
               \/ table[t] \in Row /\ table'[t] = [table[t] EXCEPT !.on = FALSE]
    BY <1>10 DEF Delete, RunNow, TypeOK
  <2>2. \A t \in Schedule : Due(table'[t]) => Due(table[t])
    BY <2>1 DEF Due, Row
  <2>3. QED
    BY <1>10, <2>2, NothingNewDue DEF Delete, RunNow
<1>11. CASE Tick
  BY <1>11, OverlooksNothingMeanwhile
<1>12. CASE UNCHANGED <<table, pass, late>>
  BY <1>12 DEF NothingOverlooked, Due
<1>13. QED
  BY <1>1, <1>2, <1>3, <1>4, <1>5, <1>6, <1>7, <1>8, <1>9, <1>10, <1>11, <1>12
  DEF Next, vars, OpensByHand, ClosesByHand, LaunchReturns, LaunchFails, Opens

LEMMA SchedulerInvStep == SchedulerInv /\ [Next]_vars => SchedulerInv'
BY SchedulerTypeStep, ClockStep, NotedStep, OverlookedStep DEF SchedulerInv

LEMMA SchedulerInvHolds == Spec => []SchedulerInv
BY SchedulerInit, SchedulerInvStep, PTL DEF Spec

\* What a timed run opened is noted down to be closed, at any time and whoever opened
\* or closed what in between.
THEOREM TimedSessionsNoted == Spec => []TimedAreNoted
<1>1. SchedulerInv => TimedAreNoted
  BY DEF SchedulerInv
<1>2. QED
  BY <1>1, SchedulerInvHolds, PTL

\* When the app has come up, and when a pass is through, nothing is due of what was due
\* when it began, for any intervals and any delays of its launches and closes.
THEOREM NothingIsLeftDue == Spec => NothingLeftDue
<1> DEFINE Through == \/ ~up /\ up'
                      \/ pass.at = "firing" /\ pass.due = {} /\ pass' = Sleeping /\ up'
           NoneDue == \A s \in Schedule : ~Due(table'[s])
<1>1. SchedulerInv /\ [Next]_vars => [Through => NoneDue]_vars
  <2> SUFFICES ASSUME SchedulerInv, Next, Through, NEW s \in Schedule
               PROVE  ~Due(table'[s])
    OBVIOUS
  <2>1. CASE ~up /\ up'
    <3>1. StartUp
      BY <2>1 DEF Next, GoDown, TickStarts, TimedCloseReturns, Lists, PassEnds, PassFails,
                  FiresOrphan, Fires, FiresInVain, TimedClose, OpensByHand, ClosesByHand,
                  DeleteProfile, LaunchReturns, LaunchFails, Create, Update, Delete, RunNow, Tick
    <3>2. CASE Due(table[s]) \/ Unplanned(table[s])
      <4>1. table[s] \in Row
        BY <3>2 DEF SchedulerInv, TypeOK, Due, Unplanned
      <4>2. ~Due(Planned(TRUE, table[s].every, 0))
        BY <4>1, RowFields, PlannedNotDue DEF SchedulerInv
      <4>3. QED
        BY <3>1, <3>2, <4>2 DEF StartUp
    <3>3. QED
      BY <3>1, <3>2 DEF StartUp
  <2>2. CASE pass.at = "firing" /\ pass.due = {} /\ pass' = Sleeping /\ up'
    <3>1. ~Due(table[s])
      BY <2>2 DEF SchedulerInv, NothingOverlooked
    <3>2. up
      BY <2>2, PassTypes DEF SchedulerInv, PassHasClock
    <3>3. table' = table
      <4>1. pass # Sleeping
        BY <2>2, PassTypes DEF SchedulerInv
      <4>2. PassEnds \/ PassFails \/ GoDown
        BY <2>2, <3>2, <4>1 DEF Next, StartUp, TickStarts, TimedCloseReturns, Lists, FiresOrphan,
              Fires, FiresInVain, TakesUp, TimedClose, OpensByHand, ClosesByHand, DeleteProfile,
              LaunchReturns, LaunchFails, Opens, Create, Update, Delete, RunNow, Tick
      <4>3. QED
        BY <4>2 DEF PassEnds, PassFails, GoDown
    <3>4. QED
      BY <3>1, <3>3
  <2>3. QED
    BY <2>1, <2>2
<1>2. Spec => [][Through => NoneDue]_vars
  BY <1>1, SchedulerInvHolds, PTL DEF Spec
<1>3. QED
  BY <1>2 DEF NothingLeftDue

-----------------------------------------------------------------------------
(***************************************************************************)
(* Calendar                                                                *)
(***************************************************************************)

\* An instant is its day and its slot of the day.
LEMMA DaysAndSlots ==
    ASSUME NEW instant \in Nat
    PROVE  /\ instant = DayOf(instant) * SlotsPerDay + (instant % SlotsPerDay)
           /\ DayOf(instant) \in Nat
           /\ instant % SlotsPerDay \in 0 .. SlotsPerDay - 1
BY CalendarAssumption, SMTT(20) DEF DayOf

LEMMA SlotOfDay ==
    ASSUME NEW day \in Nat, NEW slot \in 0 .. SlotsPerDay - 1
    PROVE  /\ day * SlotsPerDay + slot \in Nat
           /\ DayOf(day * SlotsPerDay + slot) = day
           /\ (day * SlotsPerDay + slot) % SlotsPerDay = slot
<1>1. day * SlotsPerDay + slot \in Nat
  BY CalendarAssumption
<1>2. (day * SlotsPerDay + slot) \div SlotsPerDay = day
  BY CalendarAssumption, SMTT(20)
<1>3. (day * SlotsPerDay + slot) % SlotsPerDay = slot
  BY CalendarAssumption, SMTT(20)
<1> QED
  BY <1>1, <1>2, <1>3 DEF DayOf

\* Whole days are further apart than slots.
LEMMA DaysInOrder ==
    ASSUME NEW day \in Nat, NEW later \in Nat, day < later,
           NEW slot \in 0 .. SlotsPerDay - 1
    PROVE  day * SlotsPerDay + slot < later * SlotsPerDay
<1>1. later >= day + 1
  OBVIOUS
<1>2. later * SlotsPerDay >= (day + 1) * SlotsPerDay
  BY <1>1, CalendarAssumption, SMTT(20)
<1>3. (day + 1) * SlotsPerDay = day * SlotsPerDay + SlotsPerDay
  BY CalendarAssumption, SMTT(20)
<1> QED
  BY <1>2, <1>3, CalendarAssumption

\* Every weekday comes within seven days, so there is a first day that is allowed.
LEMMA SomeDayAllowed ==
    ASSUME NEW day \in Nat, NEW days \in DaySets
    PROVE  \E d \in day .. day + 6 : Weekday(d) \in Allowed(days)
<1>1. PICK w \in 0 .. 6 : w \in Allowed(days)
  <2>1. days \subseteq 0 .. 6
    BY CalendarAssumption
  <2>2. CASE days = {}
    BY <2>2, 0 \in 0 .. 6 DEF Allowed
  <2>3. CASE days # {}
    BY <2>1, <2>3 DEF Allowed
  <2> QED
    BY <2>2, <2>3
<1>2. /\ day + ((w - (day % 7)) % 7) \in day .. day + 6
      /\ (day + ((w - (day % 7)) % 7)) % 7 = w
  BY SMTT(20)
<1> QED
  BY <1>1, <1>2 DEF Weekday

LEMMA FirstDayAllowed ==
    ASSUME NEW day \in Nat, NEW days \in DaySets
    PROVE  /\ AllowedFrom(day, days) \in Nat
           /\ AllowedFrom(day, days) >= day
           /\ Weekday(AllowedFrom(day, days)) \in Allowed(days)
           /\ \A d \in Nat :
                day <= d /\ d < AllowedFrom(day, days) => Weekday(d) \notin Allowed(days)
<1> DEFINE Candidates == {d \in day .. day + 6 : Weekday(d) \in Allowed(days)}
<1>1. Candidates # {}
  BY SomeDayAllowed
<1>2. \E x \in Candidates : \A y \in Candidates : x <= y
  <2>1. \A d \in Candidates : d \in {day, day + 1, day + 2, day + 3, day + 4, day + 5, day + 6}
    OBVIOUS
  <2> HIDE DEF Candidates
  <2> QED
    BY <1>1, <2>1, SMTT(20)
<1>3. /\ AllowedFrom(day, days) \in Candidates
      /\ \A y \in Candidates : AllowedFrom(day, days) <= y
  BY <1>2 DEF AllowedFrom, Min
<1> QED
  BY <1>3

\* next_run_after returns the first time strictly after the instant it is given.
LEMMA NextRunIsNearest ==
    ASSUME NEW t \in Timing, NEW after \in Nat
    PROVE  Nearest(t, after, NextRunAfter(t, after))
<1>1. CASE t \in Interval
  <2>1. t.length \in Nat \ {0}
    BY <1>1, CalendarAssumption DEF Interval
  <2>2. NextRunAfter(t, after) = after + t.length
    BY <1>1 DEF NextRunAfter
  <2> QED
    BY <1>1, <2>1, <2>2 DEF Nearest
<1>2. CASE t \notin Interval
  <2> DEFINE today == DayOf(after) * SlotsPerDay + t.at
             first == DayOf(after) + IF today <= after THEN 1 ELSE 0
             day   == AllowedFrom(first, t.days)
             next  == day * SlotsPerDay + t.at
  <2>1. t.at \in 0 .. SlotsPerDay - 1 /\ t.days \in DaySets
    BY <1>2, CalendarAssumption DEF Timing, Daily
  <2>2. NextRunAfter(t, after) = next
    BY <1>2 DEF NextRunAfter
  <2>3. /\ after = DayOf(after) * SlotsPerDay + (after % SlotsPerDay)
        /\ DayOf(after) \in Nat
        /\ after % SlotsPerDay \in 0 .. SlotsPerDay - 1
    BY DaysAndSlots
  <2>4. /\ today \in Nat
        /\ first \in Nat
        /\ first = DayOf(after) + 1 \/ (first = DayOf(after) /\ after < today)
        /\ first = DayOf(after) \/ today <= after
    BY <2>1, <2>3, SlotOfDay
  <2>5. /\ day \in Nat /\ day >= first
        /\ Weekday(day) \in Allowed(t.days)
        /\ \A d \in Nat : first <= d /\ d < day => Weekday(d) \notin Allowed(t.days)
    BY <2>1, <2>4, FirstDayAllowed
  <2>6. next \in Nat /\ DayOf(next) = day /\ next % SlotsPerDay = t.at
    BY <2>1, <2>5, SlotOfDay
  <2>7. Occurs(t, next)
    BY <2>5, <2>6 DEF Occurs, Allowed
  <2> HIDE DEF day, first, today, next
  <2>8. next > after
    <3>1. CASE day = DayOf(after)
      <4>1. first = DayOf(after) /\ after < today
        BY <2>3, <2>4, <2>5, <3>1
      <4> QED
        BY <3>1, <4>1 DEF today, next
    <3>2. CASE day # DayOf(after)
      <4>1. DayOf(after) < day
        BY <2>3, <2>4, <2>5, <3>2
      <4>2. after < day * SlotsPerDay
        BY <2>3, <2>5, <4>1, DaysInOrder
      <4>3. day * SlotsPerDay \in Nat
        BY <2>5, CalendarAssumption
      <4> QED
        BY <2>1, <4>2, <4>3 DEF next
    <3> QED
      BY <3>1, <3>2
  <2>9. \A instant \in after + 1 .. next - 1 : ~Occurs(t, instant)
    <3> SUFFICES ASSUME NEW instant \in after + 1 .. next - 1, Occurs(t, instant)
                 PROVE  FALSE
      OBVIOUS
    <3>1. instant \in Nat /\ after < instant /\ instant < next
      BY <2>6
    <3>2. /\ instant = DayOf(instant) * SlotsPerDay + t.at
          /\ DayOf(instant) \in Nat
      BY <3>1, DaysAndSlots DEF Occurs
    <3>3. Weekday(DayOf(instant)) \in Allowed(t.days)
      BY <3>1, <3>2 DEF Occurs, Allowed, Weekday
    <3>4. DayOf(instant) < day
      <4>1. CASE day = DayOf(instant)
        BY <3>1, <3>2, <4>1 DEF next
      <4>2. CASE day < DayOf(instant)
        <5>1. next < DayOf(instant) * SlotsPerDay
          BY <2>1, <2>5, <3>2, <4>2, DaysInOrder DEF next
        <5>2. DayOf(instant) * SlotsPerDay \in Nat
          BY <3>2, CalendarAssumption
        <5> QED
          BY <2>1, <2>6, <3>1, <3>2, <5>1, <5>2
      <4> QED
        BY <2>5, <3>2, <4>1, <4>2
    <3>5. DayOf(instant) < first
      BY <2>4, <2>5, <3>2, <3>3, <3>4
    <3>6. DayOf(instant) <= DayOf(after)
      BY <2>3, <2>4, <3>2, <3>5
    <3>7. CASE DayOf(instant) = DayOf(after)
      \* the occurrence of that day is today's, which is past
      <4>1. instant = today
        BY <3>2, <3>7 DEF today
      <4>2. today <= after
        BY <2>3, <2>4, <3>5, <3>7
      <4> QED
        BY <2>4, <3>1, <4>1, <4>2
    <3>8. CASE DayOf(instant) < DayOf(after)
      <4>1. instant < DayOf(after) * SlotsPerDay
        BY <2>1, <2>3, <3>2, <3>8, DaysInOrder
      <4>2. DayOf(after) * SlotsPerDay \in Nat
        BY <2>3, CalendarAssumption
      <4> QED
        BY <2>3, <3>1, <4>1, <4>2
    <3> QED
      BY <2>3, <3>2, <3>6, <3>7, <3>8
  <2> QED
    BY <1>2, <2>2, <2>7, <2>8, <2>9 DEF Nearest
<1> QED
  BY <1>1, <1>2

\* Whatever the length of a day, the times, the weekdays and the intervals, and
\* from whatever instant: next_run_after returns the very first occurrence after it.
THEOREM RunsAreNearest == PlansNearest
BY NextRunIsNearest, CalendarAssumption DEF PlansNearest
=============================================================================
