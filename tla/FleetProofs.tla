---------------------------- MODULE FleetProofs ----------------------------
(***************************************************************************)
(* Theorems about Fleet for every set of processes, profiles and sessions  *)
(* and every TTL and heartbeat interval the configuration admits.          *)
(***************************************************************************)
EXTENDS FleetProperties, TLAPS

\* The lease operations keep the lease columns in their types.
LEMMA LeaseTypes ==
    ASSUME LeaseTypeOK, NEW p \in Profile, NEW h \in Holder
    PROVE  /\ AcquireLease(p, h) => LeaseTypeOK'
           /\ ReleaseLease(p, h) => LeaseTypeOK'
           /\ \A S \in SUBSET Profile : RenewLease(S, h) => LeaseTypeOK'
           /\ ForceSelect(p) \/ ForceClear(p) \/ DeleteRow(p) => LeaseTypeOK'
<1> USE TTLAssumption DEF LeaseTypeOK
<1>1. AcquireLease(p, h) => LeaseTypeOK'
  BY DEF AcquireLease, MayAcquire
<1>2. ReleaseLease(p, h) => LeaseTypeOK'
  BY DEF ReleaseLease, ClearLease
<1>3. ASSUME NEW S \in SUBSET Profile, RenewLease(S, h)
      PROVE  LeaseTypeOK'
  BY <1>3 DEF RenewLease
<1>4. ForceSelect(p) \/ ForceClear(p) \/ DeleteRow(p) => LeaseTypeOK'
  BY DEF ForceSelect, ForceClear, DeleteRow, ClearLease
<1>5. QED
  BY <1>1, <1>2, <1>3, <1>4

LEMMA TypeInit == Init => TypeOK
BY TTLAssumption, BeatAssumption
   DEF Init, LeaseInit, TypeOK, LeaseTypeOK, Status, Stage

LEMMA TypeStep == TypeOK /\ [Next]_vars => TypeOK'
<1> SUFFICES ASSUME TypeOK, [Next]_vars PROVE TypeOK'
  OBVIOUS
<1> USE SessionAssumption, BeatAssumption DEF TypeOK, Status, Stage
<1>0. UNCHANGED leaseVars => LeaseTypeOK'
  BY DEF leaseVars, LeaseTypeOK
<1>1. ASSUME NEW s \in Session, NEW next \in {"preparing", "starting"}, Launch(s, next)
      PROVE  TypeOK'
  BY <1>1, LeaseTypes DEF Launch
<1>2. ASSUME NEW s \in Session, LaunchProceeds(s)
      PROVE  TypeOK'
  BY <1>0, <1>2 DEF LaunchProceeds
<1>3. ASSUME NEW s \in Session, StartSucceeds(s)
      PROVE  TypeOK'
  BY <1>0, <1>3 DEF StartSucceeds
<1>4. ASSUME NEW s \in Session, LaunchFails(s)
      PROVE  TypeOK'
  BY <1>0, <1>4, LeaseTypes DEF LaunchFails
<1>5. ASSUME NEW s \in Session, CloseEvent(s)
      PROVE  TypeOK'
  BY <1>0, <1>5 DEF CloseEvent, Pop
<1>6. ASSUME NEW s \in Session, TerminateDone(s)
      PROVE  TypeOK'
  BY <1>6, LeaseTypes DEF TerminateDone
<1>7. ASSUME NEW s \in Session, DriverDies(s)
      PROVE  TypeOK'
  BY <1>0, <1>7 DEF DriverDies
<1>8. ASSUME NEW s \in Session, MonitorFiresForReplaced(s)
      PROVE  TypeOK'
  BY <1>0, <1>8 DEF MonitorFiresForReplaced, Pop
<1>9. ASSUME NEW s \in Session, MonitorFires(s)
      PROVE  TypeOK'
  BY <1>0, <1>9, LeaseTypes DEF MonitorFires
<1>10. ASSUME NEW s \in Session, HeartbeatDropped(s)
       PROVE  TypeOK'
  BY <1>0, <1>10 DEF HeartbeatDropped
<1>11. ASSUME NEW s \in Session, ShutDownCloses(s)
       PROVE  TypeOK'
  BY <1>0, <1>11 DEF ShutDownCloses, Pop
<1>12. ASSUME NEW h \in Holder, StartUp(h)
       PROVE  TypeOK'
  BY <1>0, <1>12 DEF StartUp
<1>13. ASSUME NEW h \in Holder, HeartbeatRenews(h)
       PROVE  TypeOK'
  <2>1. LeaseTypeOK'
    BY <1>13, TTLAssumption DEF HeartbeatRenews, RenewLease, LeaseTypeOK
  <2>2. QED
    BY <1>13, <2>1 DEF HeartbeatRenews
<1>14. ASSUME NEW h \in Holder, ShutDown(h)
       PROVE  TypeOK'
  BY <1>0, <1>14 DEF ShutDown, Become
<1>15. ASSUME NEW h \in Holder, ShutDownLists(h)
       PROVE  TypeOK'
  <2>1. rows \subseteq Profile
    BY DEF LeaseTypeOK
  <2>2. QED
    BY <1>0, <1>15, <2>1 DEF ShutDownLists
<1>16. ASSUME NEW h \in Holder, ShutDownEnds(h) \/ Crash(h)
       PROVE  TypeOK'
  BY <1>0, <1>16 DEF ShutDownEnds, Crash, End, Become
<1>17. ASSUME NEW h \in Holder, NEW p \in Profile, LaunchAlreadyRunning(h, p)
       PROVE  TypeOK'
  BY <1>17, LeaseTypes DEF LaunchAlreadyRunning, procVars
<1>18. ASSUME NEW h \in Holder, NEW p \in Profile, CloseBrowser(h, p)
       PROVE  TypeOK'
  BY <1>0, <1>18 DEF CloseBrowser, Pop
<1>19. ASSUME NEW h \in Holder, NEW p \in Profile, HeartbeatChecks(h, p)
       PROVE  TypeOK'
  <2>1. LeaseTypeOK'
    BY <1>0, <1>19, LeaseTypes DEF HeartbeatChecks
  <2>2. QED
    BY <1>19, <2>1 DEF HeartbeatChecks, Pop
<1>20. ASSUME NEW h \in Holder, NEW p \in Profile, ShutDownReleases(h, p)
       PROVE  TypeOK'
  BY <1>0, <1>20, LeaseTypes DEF ShutDownReleases
<1>21. ASSUME NEW p \in Profile, Operator(p)
       PROVE  TypeOK'
  <2>1. LeaseTypeOK'
    BY <1>21, TTLAssumption
       DEF Operator, ForceSelect, ForceClear, DeleteRow, ClearLease, LeaseTypeOK
  <2>2. QED
    BY <1>21, <2>1 DEF Operator, procVars
<1>22. CASE Tick
  <2>1. LeaseTypeOK'
    BY <1>22, TTLAssumption DEF Tick, LeaseTick, LeaseTypeOK
  <2>2. QED
    BY <1>22, <2>1 DEF Tick
<1>23. CASE UNCHANGED vars
  BY <1>23 DEF vars, procVars, leaseVars, LeaseTypeOK
<1>24. QED
  BY <1>1, <1>2, <1>3, <1>4, <1>5, <1>6, <1>7, <1>8, <1>9, <1>10, <1>11, <1>12,
     <1>13, <1>14, <1>15, <1>16, <1>17, <1>18, <1>19, <1>20, <1>21, <1>22, <1>23
     DEF Next

\* Every step of Fleet keeps every variable in its type.
THEOREM TypeCorrect == Spec => []TypeOK
BY TypeInit, TypeStep, PTL DEF Spec

-----------------------------------------------------------------------------
LEMMA FleetInvInit == Init => FleetInv
BY TypeInit
   DEF Init, LeaseInit, FleetInv, Exclusive, LeaseCoversBrowser, ActiveMatches,
       StagesFitStatus, DropsOnlyDeleted, DropsOneByOne, BeatHoldsClock, LeaseOutlastsBeat,
       NobodyUnlocks, Engaged, Drives

LEMMA FleetInvStep ==
    ASSUME Late = {}, Serial, Unlockable = {}
    PROVE  FleetInv /\ [Next]_vars => FleetInv'
<1> SUFFICES ASSUME FleetInv, [Next]_vars PROVE FleetInv'
  OBVIOUS
<1>0. TypeOK'
  BY TypeStep DEF FleetInv
<1> USE <1>0, SessionAssumption, BeatAssumption, TTLAssumption, NoOneAssumption
    DEF FleetInv, TypeOK, LeaseTypeOK, Status, Stage, Exclusive, LeaseCoversBrowser,
        ActiveMatches, StagesFitStatus, DropsOnlyDeleted, DropsOneByOne, BeatHoldsClock,
        LeaseOutlastsBeat, NobodyUnlocks, Engaged, Drives, LeftBehind, HoldsItsLease,
        Expired, Running, Own, Of, Active, IsRunning, Beating
<1>1. ASSUME NEW s \in Session, NEW next \in {"preparing", "starting"}, Launch(s, next)
      PROVE  FleetInv'
  <2>. USE <1>1 DEF Launch, AcquireLease, MayAcquire
  <2>1. s \notin active /\ lockedBy'[ProfileOf[s]] = ProcessOf[s] /\ left'[ProfileOf[s]] = TTL
    OBVIOUS
  <2>2. \A t \in Session : Drives(t) => ProfileOf[t] # ProfileOf[s]
    BY <2>1
  <2>3. Exclusive'
    BY <2>2
  <2>4. LeaseCoversBrowser' /\ LeaseOutlastsBeat'
    BY <2>1, <2>2
  <2>5. ActiveMatches' /\ StagesFitStatus'
    BY <2>1
  <2>6. DropsOnlyDeleted' /\ DropsOneByOne' /\ BeatHoldsClock' /\ NobodyUnlocks'
    OBVIOUS
  <2>7. QED
    BY <2>3, <2>4, <2>5, <2>6
<1>2. ASSUME NEW s \in Session, LaunchProceeds(s)
      PROVE  FleetInv'
  BY <1>2 DEF LaunchProceeds, leaseVars
<1>3. ASSUME NEW s \in Session, StartSucceeds(s)
      PROVE  FleetInv'
  BY <1>3 DEF StartSucceeds, leaseVars
<1>4. ASSUME NEW s \in Session, LaunchFails(s)
      PROVE  FleetInv'
  BY <1>4 DEF LaunchFails, ReleaseLease, ClearLease, leaseVars
<1>5. ASSUME NEW s \in Session, CloseEvent(s)
      PROVE  FleetInv'
  BY <1>5 DEF CloseEvent, Pop, leaseVars
<1>6. ASSUME NEW s \in Session, TerminateDone(s)
      PROVE  FleetInv'
  BY <1>6 DEF TerminateDone, ReleaseLease, ClearLease
<1>7. ASSUME NEW s \in Session, DriverDies(s)
      PROVE  FleetInv'
  BY <1>7 DEF DriverDies, leaseVars
<1>8. ASSUME NEW s \in Session, MonitorFiresForReplaced(s)
      PROVE  FleetInv'
  <2>1. stage[s] = "gone" /\ s \notin active
    BY <1>8 DEF MonitorFiresForReplaced
  <2>2. QED
    BY <2>1
<1>9. ASSUME NEW s \in Session, MonitorFires(s)
      PROVE  FleetInv'
  BY <1>9 DEF MonitorFires, ReleaseLease, ClearLease, leaseVars
<1>10. ASSUME NEW s \in Session, HeartbeatDropped(s)
       PROVE  FleetInv'
  BY <1>10 DEF HeartbeatDropped, leaseVars
<1>11. ASSUME NEW s \in Session, ShutDownCloses(s)
       PROVE  FleetInv'
  BY <1>11 DEF ShutDownCloses, Pop, leaseVars
<1>12. ASSUME NEW h \in Holder, StartUp(h)
       PROVE  FleetInv'
  BY <1>12 DEF StartUp, leaseVars
<1>13. ASSUME NEW h \in Holder, HeartbeatRenews(h)
       PROVE  FleetInv'
  <2>. USE <1>13 DEF HeartbeatRenews, RenewLease, Renewable
  <2>1. \A p \in Profile : left'[p] \in {left[p], TTL}
    OBVIOUS
  <2>2. \A s \in active : ProcessOf[s] = h /\ ProfileOf[s] \in rows => left'[ProfileOf[s]] = TTL
    OBVIOUS
  <2>3. LeaseCoversBrowser' /\ LeaseOutlastsBeat'
    BY <2>1, <2>2
  <2>4. BeatHoldsClock'
    OBVIOUS
  <2>5. Exclusive' /\ ActiveMatches' /\ StagesFitStatus' /\ DropsOnlyDeleted'
        /\ DropsOneByOne' /\ NobodyUnlocks'
    OBVIOUS
  <2>6. QED
    BY <2>3, <2>4, <2>5
<1>14. ASSUME NEW h \in Holder, ShutDown(h)
       PROVE  FleetInv'
  BY <1>14 DEF ShutDown, Become, leaseVars
<1>15. ASSUME NEW h \in Holder, ShutDownLists(h)
       PROVE  FleetInv'
  BY <1>15 DEF ShutDownLists, leaseVars
<1>16. ASSUME NEW h \in Holder, ShutDownEnds(h) \/ Crash(h)
       PROVE  FleetInv'
  <2>. USE <1>16 DEF ShutDownEnds, Crash, End, Become, leaseVars
  <2>1. status'[h] \in {"exited", "crashed"} /\ \A g \in Holder \ {h} : status'[g] = status[g]
    OBVIOUS
  <2>2. \A s \in Session :
          IF ProcessOf[s] = h THEN stage'[s] = "idle" /\ s \notin active'
          ELSE stage'[s] = stage[s] /\ (s \in active' <=> s \in active)
    OBVIOUS
  <2>3. UNCHANGED <<rows, lockedBy, left, selected>>
    OBVIOUS
  <2>4. ActiveMatches' /\ DropsOnlyDeleted' /\ DropsOneByOne' /\ NobodyUnlocks'
    BY <2>2, <2>3
  <2>5. Exclusive' /\ LeaseCoversBrowser'
    BY <2>2, <2>3
  <2>6. StagesFitStatus'
    BY <2>1, <2>2
  <2>7. BeatHoldsClock'
    BY <2>1, <2>2
  <2>8. LeaseOutlastsBeat'
    BY <2>1, <2>2, <2>3
  <2>9. QED
    BY <2>4, <2>5, <2>6, <2>7, <2>8
<1>17. ASSUME NEW h \in Holder, NEW p \in Profile, LaunchAlreadyRunning(h, p)
       PROVE  FleetInv'
  BY <1>17 DEF LaunchAlreadyRunning, AcquireLease, MayAcquire, procVars
<1>18. ASSUME NEW h \in Holder, NEW p \in Profile, CloseBrowser(h, p)
       PROVE  FleetInv'
  BY <1>18 DEF CloseBrowser, Pop, leaseVars
<1>19. ASSUME NEW h \in Holder, NEW p \in Profile, HeartbeatChecks(h, p)
       PROVE  FleetInv'
  <2>. USE <1>19 DEF HeartbeatChecks, RenewLease, Renewable, Pop
  <2>1. \A q \in Profile : left'[q] \in {left[q], TTL}
    OBVIOUS
  <2>2. \A s \in Session :
          \/ stage'[s] = stage[s] /\ (s \in active' <=> s \in active)
          \/ /\ s \in active /\ ProcessOf[s] = h /\ ProfileOf[s] = p /\ p \notin rows
             /\ stage'[s] = "dropping" /\ s \notin active'
    OBVIOUS
  <2>3. UNCHANGED <<rows, lockedBy, selected, status, events>>
    OBVIOUS
  <2>4. Exclusive' /\ ActiveMatches' /\ StagesFitStatus' /\ DropsOnlyDeleted' /\ NobodyUnlocks'
    BY <2>2, <2>3
  <2>5. DropsOneByOne'
    BY <2>2, <2>3
  <2>6. BeatHoldsClock'
    BY <2>2, <2>3
  <2>7. LeaseCoversBrowser'
    BY <2>1, <2>2, <2>3
  <2>8. LeaseOutlastsBeat'
    BY <2>1, <2>2, <2>3
  <2>9. QED
    BY <2>4, <2>5, <2>6, <2>7, <2>8
<1>20. ASSUME NEW h \in Holder, NEW p \in Profile, ShutDownReleases(h, p)
       PROVE  FleetInv'
  BY <1>20 DEF ShutDownReleases, ReleaseLease, ClearLease, leaseVars
<1>21. ASSUME NEW p \in Profile, Operator(p)
       PROVE  FleetInv'
  BY <1>21 DEF Operator, ForceSelect, ForceClear, DeleteRow, procVars
<1>22. CASE Tick
  <2>. USE <1>22 DEF Tick, LeaseTick, InTime, Leaving
  <2>1. UNCHANGED <<rows, lockedBy, selected, status, stage, active, events, todo>>
    OBVIOUS
  <2>2. LeaseCoversBrowser'
    <3>1. ASSUME NEW s \in Session, Drives(s), ProfileOf[s] \in rows
          PROVE  left[ProfileOf[s]] > 0
      BY <3>1
    <3>2. QED
      BY <2>1, <3>1
  <2>3. BeatHoldsClock'
    BY <2>1
  <2>4. LeaseOutlastsBeat'
    BY <2>1
  <2>5. QED
    BY <2>1, <2>2, <2>3, <2>4
<1>23. CASE UNCHANGED vars
  BY <1>23 DEF vars, procVars, leaseVars
<1>. HIDE <1>0, SessionAssumption, BeatAssumption, TTLAssumption, NoOneAssumption DEF FleetInv
<1>24. QED
  BY <1>1, <1>2, <1>3, <1>4, <1>5, <1>6, <1>7, <1>8, <1>9, <1>10, <1>11, <1>12,
     <1>13, <1>14, <1>15, <1>16, <1>17, <1>18, <1>19, <1>20, <1>21, <1>22, <1>23
     DEF Next

\* With everything in time, launches that do not overlap in one process and no
\* unlock of a live lease, the fleet never has two launches, browsers or teardowns
\* of one profile, but for the teardowns that a shutdown leaves behind: what the
\* lease is for.
THEOREM ExclusiveDriving ==
    ASSUME Late = {}, Serial, Unlockable = {}
    PROVE  Spec => []Exclusive
<1>1. FleetInv => Exclusive
  BY DEF FleetInv
<1>2. QED
  BY <1>1, FleetInvInit, FleetInvStep, PTL DEF Spec

\* Under the same conditions whoever starts, runs or closes a browser, and is not
\* left behind by a shutdown, holds an unexpired lease on its profile all the while,
\* whatever the TTL and the interval.
THEOREM LeaseHeldThroughout ==
    ASSUME Late = {}, Serial, Unlockable = {}
    PROVE  Spec => []LeaseCoversBrowser
<1>1. FleetInv => LeaseCoversBrowser
  BY DEF FleetInv
<1>2. QED
  BY <1>1, FleetInvInit, FleetInvStep, PTL DEF Spec

-----------------------------------------------------------------------------
(***************************************************************************)
(* Leases that are not left behind, with no hypothesis on what is late,    *)
(* overlaps or is unlocked.                                                *)
(***************************************************************************)

LEMMA CleanInvInit == Init => CleanInv
BY TypeInit, NoOneAssumption
   DEF Init, LeaseInit, CleanInv, NoLeaseWithoutRow, RegisteredAreUp, LeasesListed, Engaged

LEMMA CleanInvStep == CleanInv /\ [Next]_vars => CleanInv'
<1> SUFFICES ASSUME CleanInv, [Next]_vars PROVE CleanInv'
  OBVIOUS
<1>0. TypeOK'
  BY TypeStep DEF CleanInv
<1> USE <1>0, SessionAssumption, NoOneAssumption
    DEF CleanInv, NoLeaseWithoutRow, RegisteredAreUp, LeasesListed, TypeOK, LeaseTypeOK,
        Status, Stage, Engaged, Running, Own, Of, Active, IsRunning
<1>1. ASSUME NEW s \in Session, NEW next \in {"preparing", "starting"}, Launch(s, next)
      PROVE  CleanInv'
  BY <1>1 DEF Launch, AcquireLease, MayAcquire
<1>2. ASSUME NEW s \in Session, LaunchProceeds(s)
      PROVE  CleanInv'
  BY <1>2 DEF LaunchProceeds, leaseVars
<1>3. ASSUME NEW s \in Session, StartSucceeds(s)
      PROVE  CleanInv'
  BY <1>3 DEF StartSucceeds, leaseVars
<1>4. ASSUME NEW s \in Session, LaunchFails(s)
      PROVE  CleanInv'
  BY <1>4 DEF LaunchFails, ReleaseLease, ClearLease, leaseVars
<1>5. ASSUME NEW s \in Session, CloseEvent(s)
      PROVE  CleanInv'
  BY <1>5 DEF CloseEvent, Pop, leaseVars
<1>6. ASSUME NEW s \in Session, TerminateDone(s)
      PROVE  CleanInv'
  BY <1>6 DEF TerminateDone, ReleaseLease, ClearLease
<1>7. ASSUME NEW s \in Session, DriverDies(s)
      PROVE  CleanInv'
  BY <1>7 DEF DriverDies, leaseVars
<1>8. ASSUME NEW s \in Session, MonitorFiresForReplaced(s)
      PROVE  CleanInv'
  BY <1>8 DEF MonitorFiresForReplaced, Pop, leaseVars
<1>9. ASSUME NEW s \in Session, MonitorFires(s)
      PROVE  CleanInv'
  BY <1>9 DEF MonitorFires, ReleaseLease, ClearLease, leaseVars
<1>10. ASSUME NEW s \in Session, HeartbeatDropped(s)
       PROVE  CleanInv'
  BY <1>10 DEF HeartbeatDropped, leaseVars
<1>11. ASSUME NEW s \in Session, ShutDownCloses(s)
       PROVE  CleanInv'
  BY <1>11 DEF ShutDownCloses, Pop, leaseVars
<1>12. ASSUME NEW h \in Holder, StartUp(h)
       PROVE  CleanInv'
  BY <1>12 DEF StartUp, leaseVars
<1>13. ASSUME NEW h \in Holder, HeartbeatRenews(h)
       PROVE  CleanInv'
  BY <1>13 DEF HeartbeatRenews, RenewLease
<1>14. ASSUME NEW h \in Holder, ShutDown(h)
       PROVE  CleanInv'
  BY <1>14 DEF ShutDown, Become, leaseVars
<1>15. ASSUME NEW h \in Holder, ShutDownLists(h)
       PROVE  CleanInv'
  BY <1>15 DEF ShutDownLists, leaseVars
<1>16. ASSUME NEW h \in Holder, ShutDownEnds(h) \/ Crash(h)
       PROVE  CleanInv'
  BY <1>16 DEF ShutDownEnds, Crash, End, Become, leaseVars
<1>17. ASSUME NEW h \in Holder, NEW p \in Profile, LaunchAlreadyRunning(h, p)
       PROVE  CleanInv'
  BY <1>17 DEF LaunchAlreadyRunning, AcquireLease, MayAcquire, procVars
<1>18. ASSUME NEW h \in Holder, NEW p \in Profile, CloseBrowser(h, p)
       PROVE  CleanInv'
  BY <1>18 DEF CloseBrowser, Pop, leaseVars
<1>19. ASSUME NEW h \in Holder, NEW p \in Profile, HeartbeatChecks(h, p)
       PROVE  CleanInv'
  <2>. USE <1>19 DEF HeartbeatChecks, RenewLease, Pop
  <2>1. UNCHANGED <<rows, lockedBy, status>>
    OBVIOUS
  <2>2. \A q \in Profile, g \in Holder : q \in todo'[g] <=> q \in todo[g] /\ ~(g = h /\ q = p)
    OBVIOUS
  <2>3. \A s \in Session :
          \/ stage'[s] = stage[s] /\ (s \in active' <=> s \in active)
          \/ /\ s \in active /\ ProcessOf[s] = h
             /\ stage'[s] = "dropping" /\ s \notin active'
    OBVIOUS
  <2>4. LeasesListed' /\ NoLeaseWithoutRow'
    BY <2>1, <2>2
  <2>5. RegisteredAreUp'
    BY <2>1, <2>3
  <2>6. QED
    BY <2>4, <2>5
<1>20. ASSUME NEW h \in Holder, NEW p \in Profile, ShutDownReleases(h, p)
       PROVE  CleanInv'
  <2>1. ~IsLive(h, p)
    BY <1>20 DEF ShutDownReleases, IsLive, IsLiveBut
  <2>2. QED
    BY <1>20, <2>1 DEF ShutDownReleases, ReleaseLease, ClearLease
<1>21. ASSUME NEW p \in Profile, Operator(p)
       PROVE  CleanInv'
  BY <1>21 DEF Operator, ForceSelect, ForceClear, DeleteRow, ClearLease, procVars
<1>22. CASE Tick
  BY <1>22 DEF Tick, LeaseTick
<1>23. CASE UNCHANGED vars
  BY <1>23 DEF vars, procVars, leaseVars
<1>. HIDE <1>0, SessionAssumption, NoOneAssumption DEF CleanInv
<1>24. QED
  BY <1>1, <1>2, <1>3, <1>4, <1>5, <1>6, <1>7, <1>8, <1>9, <1>10, <1>11, <1>12,
     <1>13, <1>14, <1>15, <1>16, <1>17, <1>18, <1>19, <1>20, <1>21, <1>22, <1>23
     DEF Next

\* A clean shutdown leaves no lease behind, whatever it raced with.
THEOREM CleanExits == Spec => []CleanExit
<1>1. CleanInv => CleanExit
  BY DEF CleanInv, LeasesListed, CleanExit
<1>2. QED
  BY <1>1, CleanInvInit, CleanInvStep, PTL DEF Spec

-----------------------------------------------------------------------------
LEMMA StrandInvInit == Init => StrandInv
BY CleanInvInit, NoOneAssumption
   DEF Init, LeaseInit, StrandInv, NoDriverLost, LeaseAnswered

LEMMA StrandInvStep ==
    ASSUME ~DriverFails
    PROVE  StrandInv /\ [Next]_vars => StrandInv'
<1> SUFFICES ASSUME StrandInv, [Next]_vars PROVE StrandInv'
  OBVIOUS
<1>0. CleanInv'
  BY CleanInvStep DEF StrandInv
<1> USE <1>0, SessionAssumption, NoOneAssumption
    DEF StrandInv, NoDriverLost, LeaseAnswered, Answers,
        CleanInv, NoLeaseWithoutRow, RegisteredAreUp, LeasesListed, TypeOK, LeaseTypeOK,
        Status, Stage, Engaged, Running, Own, Of, Active, IsRunning
<1>1. ASSUME NEW s \in Session, NEW next \in {"preparing", "starting"}, Launch(s, next)
      PROVE  StrandInv'
  BY <1>1 DEF Launch, AcquireLease, MayAcquire
<1>2. ASSUME NEW s \in Session, LaunchProceeds(s)
      PROVE  StrandInv'
  BY <1>2 DEF LaunchProceeds, leaseVars
<1>3. ASSUME NEW s \in Session, StartSucceeds(s)
      PROVE  StrandInv'
  BY <1>3 DEF StartSucceeds, leaseVars
<1>4. ASSUME NEW s \in Session, LaunchFails(s)
      PROVE  StrandInv'
  BY <1>4 DEF LaunchFails, IsLiveBut, ReleaseLease, ClearLease, leaseVars
<1>5. ASSUME NEW s \in Session, CloseEvent(s)
      PROVE  StrandInv'
  BY <1>5 DEF CloseEvent, Pop, leaseVars
<1>6. ASSUME NEW s \in Session, TerminateDone(s)
      PROVE  StrandInv'
  BY <1>6 DEF TerminateDone, ReleaseLease, ClearLease
<1>7. ASSUME NEW s \in Session,
             DriverDies(s) \/ MonitorFiresForReplaced(s) \/ MonitorFires(s)
      PROVE  FALSE
  BY <1>7 DEF DriverDies, MonitorFiresForReplaced, MonitorFires
<1>8. ASSUME NEW s \in Session, HeartbeatDropped(s)
      PROVE  StrandInv'
  BY <1>8 DEF HeartbeatDropped, leaseVars
<1>9. ASSUME NEW s \in Session, ShutDownCloses(s)
      PROVE  StrandInv'
  BY <1>9 DEF ShutDownCloses, Pop, leaseVars
<1>10. ASSUME NEW h \in Holder, StartUp(h)
       PROVE  StrandInv'
  BY <1>10 DEF StartUp, leaseVars
<1>11. ASSUME NEW h \in Holder, HeartbeatRenews(h)
       PROVE  StrandInv'
  <2>1. UNCHANGED <<rows, lockedBy, status, stage, active>>
    BY <1>11 DEF HeartbeatRenews, RenewLease
  <2>2. QED
    BY <2>1
<1>12. ASSUME NEW h \in Holder, ShutDown(h) \/ ShutDownLists(h)
       PROVE  StrandInv'
  BY <1>12 DEF ShutDown, ShutDownLists, Become, leaseVars
<1>13. ASSUME NEW h \in Holder, ShutDownEnds(h) \/ Crash(h)
       PROVE  StrandInv'
  <2>. USE <1>13 DEF ShutDownEnds, Crash, End, Become, leaseVars
  <2>1. lockedBy' = lockedBy /\ status'[h] # "up"
        /\ \A g \in Holder \ {h} : status'[g] = status[g]
    OBVIOUS
  <2>2. \A s \in Session :
          IF ProcessOf[s] = h THEN stage'[s] = "idle"
          ELSE stage'[s] = stage[s] /\ (s \in active' <=> s \in active)
    OBVIOUS
  <2>3. QED
    BY <2>1, <2>2
<1>14. ASSUME NEW h \in Holder, NEW p \in Profile, LaunchAlreadyRunning(h, p)
       PROVE  StrandInv'
  BY <1>14 DEF LaunchAlreadyRunning, AcquireLease, MayAcquire, procVars
<1>15. ASSUME NEW h \in Holder, NEW p \in Profile, CloseBrowser(h, p)
       PROVE  StrandInv'
  BY <1>15 DEF CloseBrowser, Pop, leaseVars
<1>16. ASSUME NEW h \in Holder, NEW p \in Profile, HeartbeatChecks(h, p)
       PROVE  StrandInv'
  <2>. USE <1>16 DEF HeartbeatChecks, RenewLease, Renewable, Pop
  <2>1. UNCHANGED <<rows, lockedBy, status>>
    OBVIOUS
  <2>2. \A s \in Session :
          \/ stage'[s] = stage[s] /\ (s \in active' <=> s \in active)
          \/ /\ ProcessOf[s] = h /\ ProfileOf[s] = p /\ stage'[s] = "dropping"
             /\ (p \notin rows \/ lockedBy[p] # h)
    OBVIOUS
  <2>3. QED
    BY <2>1, <2>2
<1>17. ASSUME NEW h \in Holder, NEW p \in Profile, ShutDownReleases(h, p)
       PROVE  StrandInv'
  <2>1. /\ UNCHANGED <<rows, status, stage, active>>
        /\ \A q \in Profile : lockedBy'[q] \in {lockedBy[q], NoOne}
    BY <1>17 DEF ShutDownReleases, ReleaseLease, ClearLease, leaseVars
  <2>2. QED
    BY <2>1
<1>18. ASSUME NEW p \in Profile, Operator(p)
       PROVE  StrandInv'
  BY <1>18 DEF Operator, ForceSelect, ForceClear, DeleteRow, ClearLease, procVars
<1>19. CASE Tick
  BY <1>19 DEF Tick, LeaseTick
<1>20. CASE UNCHANGED vars
  BY <1>20 DEF vars, procVars, leaseVars
<1>. HIDE <1>0, SessionAssumption, NoOneAssumption DEF StrandInv
<1>21. QED
  BY <1>1, <1>2, <1>3, <1>4, <1>5, <1>6, <1>7, <1>8, <1>9, <1>10, <1>11, <1>12,
     <1>13, <1>14, <1>15, <1>16, <1>17, <1>18, <1>19, <1>20
     DEF Next

\* Unless a driver dies, a process that is up holds a lease only for a launch, a browser
\* or a teardown of its own: also when launches overlap each other and teardowns, when
\* beats are late and leases are lost, unlocked or taken over.
THEOREM NoLeaseStranded ==
    ASSUME ~DriverFails
    PROVE  Spec => []NoStrandedLease
<1>1. StrandInv => NoStrandedLease
  BY DEF StrandInv, CleanInv, RegisteredAreUp, LeaseAnswered, Answers, NoStrandedLease, Of, Own,
         Engaged
<1>2. QED
  BY <1>1, StrandInvInit, StrandInvStep, PTL DEF Spec

-----------------------------------------------------------------------------
(***************************************************************************)
(* How a lease changes hands.                                              *)
(***************************************************************************)

\* The ways a step can change whom the lease of p names.
Passes(p) ==
    \/ lockedBy'[p] # NoOne /\ Expired(p)
    \/ lockedBy'[p] = NoOne
       /\ \/ selected[p] # NoOne
          \/ p \notin rows'
          \/ \E s \in Of(lockedBy[p], p) : Engaged(s) /\ stage'[s] = "idle"
          \/ status[lockedBy[p]] = "releasing"

\* A dead process's lease, if it is still that, has no more left than before.
RunsDown(p) ==
    /\ lockedBy[p] # NoOne /\ status[lockedBy[p]] \in {"crashed", "exited"}
    /\ lockedBy'[p] = lockedBy[p]
    => left'[p] <= left[p]

\* An acquire takes only what is free, expired or its own already.
LEMMA AcquirePasses ==
    ASSUME TypeOK, NEW h \in Holder, status[h] = "up", NEW q \in Profile, AcquireLease(q, h),
           NEW p \in Profile
    PROVE  /\ lockedBy[p] # NoOne /\ lockedBy'[p] # lockedBy[p] => Passes(p)
           /\ RunsDown(p)
BY NoOneAssumption
   DEF TypeOK, LeaseTypeOK, AcquireLease, MayAcquire, Passes, RunsDown, Expired

\* A release by a session that ends, or by a shutdown.
LEMMA ReleasePasses ==
    ASSUME TypeOK, NEW h \in Holder, NEW q \in Profile, ReleaseLease(q, h),
           \/ status[h] = "releasing"
           \/ \E s \in Of(h, q) : Engaged(s) /\ stage'[s] = "idle",
           NEW p \in Profile
    PROVE  /\ lockedBy[p] # NoOne /\ lockedBy'[p] # lockedBy[p] => Passes(p)
           /\ RunsDown(p)
BY NoOneAssumption
   DEF TypeOK, LeaseTypeOK, ReleaseLease, ClearLease, Passes, RunsDown

\* A renewal names nobody new, and renews nothing of a process that is not up.
LEMMA RenewPasses ==
    ASSUME TypeOK, NEW h \in Holder, status[h] = "up", NEW S \in SUBSET Profile,
           RenewLease(S, h), NEW p \in Profile
    PROVE  lockedBy' = lockedBy /\ RunsDown(p)
BY DEF TypeOK, LeaseTypeOK, RenewLease, Renewable, RunsDown

LEMMA StillPasses ==
    ASSUME TypeOK, UNCHANGED leaseVars, NEW p \in Profile
    PROVE  lockedBy' = lockedBy /\ RunsDown(p)
BY DEF TypeOK, LeaseTypeOK, leaseVars, RunsDown

LEMMA LeaseStep ==
    ASSUME TypeOK, [Next]_vars, NEW p \in Profile
    PROVE  /\ lockedBy[p] # NoOne /\ lockedBy'[p] # lockedBy[p] => Passes(p)
           /\ RunsDown(p)
<1> DEFINE Goal == /\ lockedBy[p] # NoOne /\ lockedBy'[p] # lockedBy[p] => Passes(p)
                   /\ RunsDown(p)
<1>0. UNCHANGED leaseVars => Goal
  BY StillPasses
<1> USE SessionAssumption
<1>1. ASSUME NEW s \in Session, NEW next \in {"preparing", "starting"}, Launch(s, next)
      PROVE  Goal
  BY <1>1, AcquirePasses DEF Launch
<1>2. ASSUME NEW s \in Session,
             LaunchProceeds(s) \/ StartSucceeds(s) \/ CloseEvent(s) \/ DriverDies(s)
             \/ MonitorFiresForReplaced(s) \/ HeartbeatDropped(s) \/ ShutDownCloses(s)
      PROVE  Goal
  BY <1>0, <1>2 DEF LaunchProceeds, StartSucceeds, CloseEvent, DriverDies,
                    MonitorFiresForReplaced, HeartbeatDropped, ShutDownCloses
<1>3. ASSUME NEW s \in Session, LaunchFails(s) \/ TerminateDone(s) \/ MonitorFires(s)
      PROVE  Goal
  <2>1. Engaged(s) /\ stage'[s] = "idle" /\ s \in Of(ProcessOf[s], ProfileOf[s])
    BY <1>3 DEF LaunchFails, TerminateDone, MonitorFires, Engaged, TypeOK, Of, Own
  <2>2. UNCHANGED leaseVars \/ ReleaseLease(ProfileOf[s], ProcessOf[s])
    BY <1>3 DEF LaunchFails, TerminateDone, MonitorFires
  <2>3. QED
    BY <1>0, <2>1, <2>2, ReleasePasses
<1>4. ASSUME NEW h \in Holder,
             StartUp(h) \/ ShutDown(h) \/ ShutDownLists(h) \/ ShutDownEnds(h) \/ Crash(h)
      PROVE  Goal
  BY <1>0, <1>4 DEF StartUp, ShutDown, ShutDownLists, ShutDownEnds, Crash, End
<1>5. ASSUME NEW h \in Holder, HeartbeatRenews(h)
      PROVE  Goal
  BY <1>5, RenewPasses DEF HeartbeatRenews
<1>6. ASSUME NEW h \in Holder, NEW q \in Profile, LaunchAlreadyRunning(h, q)
      PROVE  Goal
  BY <1>6, AcquirePasses DEF LaunchAlreadyRunning
<1>7. ASSUME NEW h \in Holder, NEW q \in Profile, CloseBrowser(h, q)
      PROVE  Goal
  BY <1>0, <1>7 DEF CloseBrowser
<1>8. ASSUME NEW h \in Holder, NEW q \in Profile, HeartbeatChecks(h, q)
      PROVE  Goal
  BY <1>8, RenewPasses DEF HeartbeatChecks
<1>9. ASSUME NEW h \in Holder, NEW q \in Profile, ShutDownReleases(h, q)
      PROVE  Goal
  BY <1>0, <1>9, ReleasePasses DEF ShutDownReleases
<1>10. ASSUME NEW q \in Profile, Operator(q)
       PROVE  Goal
  BY <1>10 DEF Operator, ForceSelect, ForceClear, DeleteRow, ClearLease, TypeOK, LeaseTypeOK,
               Passes, RunsDown
<1>11. CASE Tick
  BY <1>11, TTLAssumption DEF Tick, LeaseTick, TypeOK, LeaseTypeOK, RunsDown
<1>12. CASE UNCHANGED vars
  BY <1>0, <1>12 DEF vars
<1>13. QED
  BY <1>1, <1>2, <1>3, <1>4, <1>5, <1>6, <1>7, <1>8, <1>9, <1>10, <1>11, <1>12 DEF Next

\* Only a lease that has run out is taken over, and only its holder, an unlock or a
\* deletion gives one back, whatever is late, overlaps or dies.
THEOREM LeasesNotStolen == Spec => NoLeaseStolen
<1>1. TypeOK /\ [Next]_vars =>
        \A p \in Profile :
          lockedBy[p] # NoOne /\ lockedBy'[p] # lockedBy[p] =>
            \/ lockedBy'[p] # NoOne /\ Expired(p)
            \/ lockedBy'[p] = NoOne
               /\ \/ selected[p] # NoOne
                  \/ p \notin rows'
                  \/ \E s \in Of(lockedBy[p], p) : Engaged(s) /\ stage'[s] = "idle"
                  \/ status[lockedBy[p]] = "releasing"
  BY LeaseStep DEF Passes
<1>2. QED
  BY <1>1, TypeCorrect, PTL DEF Spec, NoLeaseStolen

\* The lease of a process that crashed or left is never prolonged: nobody renews it by
\* mistake, so the TTL is as long as it can keep its profile locked.
THEOREM DeadLeasesRunDown == Spec => DeadLeaseRunsDown
<1>1. TypeOK /\ [Next]_vars =>
        \A p \in Profile :
          /\ lockedBy[p] # NoOne /\ status[lockedBy[p]] \in {"crashed", "exited"}
          /\ lockedBy'[p] = lockedBy[p]
          => left'[p] <= left[p]
  BY LeaseStep DEF RunsDown
<1>2. QED
  BY <1>1, TypeCorrect, PTL DEF Spec, DeadLeaseRunsDown

\* Of all steps only a launch that gets the lease engages a session.
LEMMA OnlyLaunchEngages ==
    ASSUME TypeOK, \A s \in active : Engaged(s), [Next]_vars,
           \A s \in Session, next \in {"preparing", "starting"} : ~Launch(s, next)
    PROVE  \A s \in Session : Engaged(s)' => Engaged(s)
<1> SUFFICES ASSUME NEW s \in Session, stage[s] = "idle"
             PROVE  stage'[s] = "idle"
  BY DEF Engaged
<1> USE DEF TypeOK, Engaged, Own, Of, Active
<1>1. ASSUME NEW t \in Session, LaunchProceeds(t) \/ StartSucceeds(t) \/ LaunchFails(t)
      PROVE  stage'[s] = "idle"
  BY <1>1 DEF LaunchProceeds, StartSucceeds, LaunchFails
<1>2. ASSUME NEW t \in Session, CloseEvent(t)
      PROVE  stage'[s] = "idle"
  BY <1>2 DEF CloseEvent, Pop
<1>3. ASSUME NEW t \in Session, TerminateDone(t) \/ DriverDies(t) \/ MonitorFires(t)
      PROVE  stage'[s] = "idle"
  BY <1>3 DEF TerminateDone, DriverDies, MonitorFires
<1>4. ASSUME NEW t \in Session, MonitorFiresForReplaced(t)
      PROVE  stage'[s] = "idle"
  BY <1>4 DEF MonitorFiresForReplaced, Pop
<1>5. ASSUME NEW t \in Session, HeartbeatDropped(t)
      PROVE  stage'[s] = "idle"
  BY <1>5 DEF HeartbeatDropped
<1>6. ASSUME NEW t \in Session, ShutDownCloses(t)
      PROVE  stage'[s] = "idle"
  BY <1>6 DEF ShutDownCloses, Pop
<1>7. ASSUME NEW h \in Holder,
             StartUp(h) \/ HeartbeatRenews(h) \/ ShutDown(h) \/ ShutDownLists(h)
      PROVE  stage'[s] = "idle"
  BY <1>7 DEF StartUp, HeartbeatRenews, ShutDown, ShutDownLists, Become
<1>8. ASSUME NEW h \in Holder, ShutDownEnds(h) \/ Crash(h)
      PROVE  stage'[s] = "idle"
  BY <1>8 DEF ShutDownEnds, Crash, End, Become
<1>9. ASSUME NEW h \in Holder, NEW p \in Profile,
             LaunchAlreadyRunning(h, p) \/ ShutDownReleases(h, p)
      PROVE  stage'[s] = "idle"
  BY <1>9 DEF LaunchAlreadyRunning, ShutDownReleases, procVars
<1>10. ASSUME NEW h \in Holder, NEW p \in Profile, CloseBrowser(h, p)
       PROVE  stage'[s] = "idle"
  BY <1>10 DEF CloseBrowser, Pop
<1>11. ASSUME NEW h \in Holder, NEW p \in Profile, HeartbeatChecks(h, p)
       PROVE  stage'[s] = "idle"
  BY <1>11 DEF HeartbeatChecks, Pop
<1>12. CASE Tick \/ UNCHANGED vars \/ \E p \in Profile : Operator(p)
  BY <1>12 DEF Tick, Operator, vars, procVars
<1>. HIDE DEF TypeOK
<1>13. QED
  BY <1>1, <1>2, <1>3, <1>4, <1>5, <1>6, <1>7, <1>8, <1>9, <1>10, <1>11, <1>12 DEF Next

-----------------------------------------------------------------------------
(***************************************************************************)
(* What nobody hands away.                                                 *)
(***************************************************************************)

LEMMA SerialInvInit == Init => SerialInv
BY CleanInvInit DEF SerialInv, OneOfEach, Init, Engaged

LEMMA SerialInvStep ==
    ASSUME Serial
    PROVE  SerialInv /\ [Next]_vars => SerialInv'
<1> SUFFICES ASSUME SerialInv, [Next]_vars PROVE OneOfEach'
  BY CleanInvStep DEF SerialInv
<1> USE SessionAssumption
<1>1. ASSUME NEW s \in Session, NEW next \in {"preparing", "starting"}, Launch(s, next)
      PROVE  OneOfEach'
  <2>1. \A t \in Of(ProcessOf[s], ProfileOf[s]) : ~Engaged(t)
    BY <1>1 DEF Launch, IsRunning, Active
  <2>2. \A t \in Session : t # s => stage'[t] = stage[t]
    BY <1>1 DEF Launch, SerialInv, CleanInv, TypeOK
  <2>3. QED
    BY <2>1, <2>2 DEF SerialInv, OneOfEach, Engaged, Of, Own
<1>2. CASE \A s \in Session, next \in {"preparing", "starting"} : ~Launch(s, next)
  <2>1. \A s \in Session : Engaged(s)' => Engaged(s)
    BY <1>2, OnlyLaunchEngages DEF SerialInv, CleanInv, RegisteredAreUp, TypeOK, Engaged
  <2>2. QED
    BY <2>1 DEF SerialInv, OneOfEach
<1>3. QED
  BY <1>1, <1>2

\* A process that is releasing what it has left does not come back up.
LEMMA ReleasingIsLast ==
    ASSUME TypeOK, [Next]_vars, NEW h \in Holder, status[h] = "releasing"
    PROVE  status'[h] \in {"releasing", "exited", "crashed"}
<1> USE DEF TypeOK
<1>1. ASSUME NEW g \in Holder, StartUp(g) \/ ShutDown(g) \/ ShutDownLists(g)
      PROVE  status'[h] = "releasing"
  BY <1>1 DEF StartUp, ShutDown, ShutDownLists
<1>2. ASSUME NEW g \in Holder, ShutDownEnds(g) \/ Crash(g)
      PROVE  status'[h] \in {"releasing", "exited", "crashed"}
  BY <1>2 DEF ShutDownEnds, Crash, End
<1>3. CASE status' = status
  BY <1>3
<1>. HIDE DEF TypeOK
<1>4. QED
  BY <1>1, <1>2, <1>3
     DEF Next, vars, procVars, Launch, LaunchProceeds, StartSucceeds, LaunchFails, CloseEvent,
         TerminateDone, DriverDies, MonitorFiresForReplaced, MonitorFires, HeartbeatDropped,
         ShutDownCloses, HeartbeatRenews, LaunchAlreadyRunning, CloseBrowser, HeartbeatChecks,
         ShutDownReleases, Operator, Tick

\* Where launches of a profile do not overlap in a process, whatever else is late, dies or
\* is taken over, the lease of a launch or a browser lasts until it expires or an operator
\* unlocks it: no teardown, failed launch or shutdown of its own process gives it back.
THEOREM LiveKeepsItsLease ==
    ASSUME Serial
    PROVE  Spec => LiveKeepsUnexpired
<1>1. ASSUME SerialInv, SerialInv', [Next]_vars, NEW h \in Holder, NEW p \in Profile,
             IsLive(h, p)', p \in rows', lockedBy[p] = h, lockedBy'[p] # h
      PROVE  Expired(p) \/ selected[p] # NoOne
  <2>1. PICK t \in Of(h, p) : t \in active' \/ stage'[t] = "starting"
    BY <1>1 DEF IsLive, IsLiveBut, IsRunning, Active, SerialInv, CleanInv, TypeOK, Own, Of
  <2>2. Engaged(t)' /\ status'[h] \in {"up", "stopping"}
    BY <1>1, <2>1 DEF SerialInv, CleanInv, RegisteredAreUp, Engaged, Of, Own
  <2>3. status[h] # "releasing"
    BY <1>1, <2>2, ReleasingIsLast DEF SerialInv, CleanInv
  <2>4. Passes(p)
    BY <1>1, LeaseStep, NoOneAssumption DEF SerialInv, CleanInv
  <2>5. ASSUME NEW s \in Of(h, p), Engaged(s), stage'[s] = "idle"
        PROVE  FALSE
    <3>1. s # t
      BY <2>2, <2>5 DEF Engaged
    <3>2. ~Engaged(t)
      BY <1>1, <2>1, <2>5, <3>1 DEF SerialInv, OneOfEach, Of, Own
    <3>3. \E r \in Session, next \in {"preparing", "starting"} : Launch(r, next)
      BY <1>1, <2>1, <2>2, <3>2, OnlyLaunchEngages
         DEF SerialInv, CleanInv, RegisteredAreUp, TypeOK, Engaged, Of, Own
    <3>4. PICK r \in Session, next \in {"preparing", "starting"} : Launch(r, next)
      BY <3>3
    <3>5. stage'[s] = next \/ stage'[s] = stage[s]
      BY <1>1, <3>4 DEF Launch, SerialInv, CleanInv, TypeOK, Of, Own
    <3>6. QED
      BY <2>5, <3>5 DEF Engaged
  <2>6. QED
    BY <1>1, <2>3, <2>4, <2>5 DEF Passes
<1>2. SerialInv /\ SerialInv' /\ [Next]_vars =>
        \A h \in Holder, p \in Profile :
          /\ IsLive(h, p)' /\ p \in rows'
          /\ lockedBy[p] = h /\ lockedBy'[p] # h
          => Expired(p) \/ selected[p] # NoOne
  BY <1>1
<1>3. QED
  BY <1>2, SerialInvInit, SerialInvStep, PTL DEF Spec, LiveKeepsUnexpired

-----------------------------------------------------------------------------
(***************************************************************************)
(* The fleet implements ExclusiveDriver.                                   *)
(***************************************************************************)

\* Nobody goes on with a teardown that a shutdown has left behind.
LEMMA LeftBehindStays ==
    ASSUME TypeOK, RegisteredAreUp, RegisteredAreUp', [Next]_vars,
           NEW s \in Session, LeftBehind(s), Engaged(s)'
    PROVE  LeftBehind(s)'
<1> USE SessionAssumption DEF TypeOK, Engaged, Own, Of, Active
<1>0. s \notin active /\ stage[s] \in {"cut", "exiting"}
  BY DEF LeftBehind, RegisteredAreUp
<1>1. ASSUME NEW t \in Session, NEW next \in {"preparing", "starting"}, Launch(t, next)
      PROVE  stage'[s] = stage[s]
  BY <1>0, <1>1 DEF Launch
<1>2. ASSUME NEW t \in Session,
             LaunchProceeds(t) \/ StartSucceeds(t) \/ LaunchFails(t) \/ TerminateDone(t)
             \/ DriverDies(t) \/ MonitorFires(t) \/ HeartbeatDropped(t)
      PROVE  stage'[s] = stage[s]
  BY <1>0, <1>2 DEF LaunchProceeds, StartSucceeds, LaunchFails, TerminateDone, DriverDies,
                    MonitorFires, HeartbeatDropped
<1>3. ASSUME NEW t \in Session,
             CloseEvent(t) \/ MonitorFiresForReplaced(t) \/ ShutDownCloses(t)
      PROVE  stage'[s] = stage[s]
  BY <1>0, <1>3 DEF CloseEvent, MonitorFiresForReplaced, ShutDownCloses, Pop
<1>4. ASSUME NEW h \in Holder,
             \/ StartUp(h) \/ HeartbeatRenews(h) \/ ShutDown(h) \/ ShutDownLists(h)
             \/ ShutDownEnds(h) \/ Crash(h)
      PROVE  stage'[s] = stage[s]
  BY <1>0, <1>4 DEF StartUp, HeartbeatRenews, ShutDown, ShutDownLists, ShutDownEnds, Crash, End,
                    Become
<1>5. ASSUME NEW h \in Holder, NEW p \in Profile,
             \/ LaunchAlreadyRunning(h, p) \/ ShutDownReleases(h, p) \/ CloseBrowser(h, p)
             \/ HeartbeatChecks(h, p)
      PROVE  stage'[s] = stage[s]
  BY <1>0, <1>5 DEF LaunchAlreadyRunning, ShutDownReleases, CloseBrowser, HeartbeatChecks, Pop,
                    procVars
<1>6. ASSUME Tick \/ UNCHANGED vars \/ \E p \in Profile : Operator(p)
      PROVE  stage'[s] = stage[s]
  BY <1>6 DEF Tick, Operator, vars, procVars
<1>7. stage'[s] = stage[s]
  <2> HIDE SessionAssumption DEF TypeOK, Engaged, Own, Of, Active
  <2>1. QED
    BY <1>1, <1>2, <1>3, <1>4, <1>5, <1>6 DEF Next
<1>8. CASE stage[s] = "cut"
  BY <1>7, <1>8 DEF LeftBehind
<1>9. CASE stage[s] = "exiting" /\ status[ProcessOf[s]] = "releasing"
  <2>1. status'[ProcessOf[s]] \in {"releasing", "exited", "crashed"}
    BY <1>9, ReleasingIsLast
  <2>2. QED
    BY <1>7, <1>9, <2>1 DEF LeftBehind, RegisteredAreUp, Running
<1>10. QED
  BY <1>8, <1>9 DEF LeftBehind

\* The refinement mapping, without its CHOOSE.
DriverFits ==
    \A p \in Profile :
        /\ \A s \in Session : Drives(s) /\ ProfileOf[s] = p => Driver[p] = ProcessOf[s]
        /\ (\A s \in Session : ProfileOf[s] = p => ~Drives(s)) => Driver[p] = NoOne

LEMMA DriverIs == Exclusive => DriverFits
<1> SUFFICES ASSUME Exclusive, NEW p \in Profile
             PROVE  /\ \A s \in Session :
                         Drives(s) /\ ProfileOf[s] = p => Driver[p] = ProcessOf[s]
                    /\ (\A s \in Session : ProfileOf[s] = p => ~Drives(s)) => Driver[p] = NoOne
  BY DEF DriverFits
<1>1. ASSUME NEW s \in Session, Drives(s), ProfileOf[s] = p
      PROVE  Driver[p] = ProcessOf[s]
  <2> DEFINE t == CHOOSE t \in Session : Drives(t) /\ ProfileOf[t] = p
  <2>1. t \in Session /\ Drives(t) /\ ProfileOf[t] = p
    BY <1>1
  <2>2. t = s
    BY <1>1, <2>1 DEF Exclusive
  <2>3. Driver[p] = ProcessOf[t]
    BY <1>1 DEF Driver
  <2>4. QED
    BY <2>2, <2>3
<1>2. (\A s \in Session : ProfileOf[s] = p => ~Drives(s)) => Driver[p] = NoOne
  BY DEF Driver
<1>3. QED
  BY <1>1, <1>2

LEMMA StepHandsOver ==
    ASSUME Late = {}, Serial, Unlockable = {}
    PROVE  FleetInv /\ FleetInv' /\ DriverFits /\ DriverFits' /\ [Next]_vars
             => [Abstract!Next]_Driver
<1> SUFFICES ASSUME FleetInv, FleetInv', DriverFits, DriverFits', [Next]_vars
             PROVE  Abstract!Next
  OBVIOUS
<1>0. /\ Driver = [p \in Profile |-> Driver[p]]
      /\ Driver' = [p \in Profile |-> Driver'[p]]
  BY DEF Driver
<1> USE SessionAssumption, NoOneAssumption
<1>1. ASSUME NEW s \in Session, NEW next \in {"preparing", "starting"}, Launch(s, next)
      PROVE  Abstract!Next
  <2> DEFINE p == ProfileOf[s]
             h == ProcessOf[s]
  <2>1. /\ stage[s] = "idle" /\ s \notin active /\ MayAcquire(p, h)
        /\ \A t \in Session : stage'[t] = IF t = s THEN next ELSE stage[t]
    BY <1>1 DEF Launch, AcquireLease, FleetInv, TypeOK, ActiveMatches
  <2>2. \A t \in Session : ProfileOf[t] = p => ~Drives(t)
    BY <1>1, <2>1 DEF Launch, FleetInv, LeaseCoversBrowser, HoldsItsLease, MayAcquire, Expired,
                      Own, Of, Active, IsRunning, Drives, Engaged
  <2>3. Driver[p] = NoOne
    BY <2>2 DEF DriverFits
  <2>4. /\ Drives(s)'
        /\ \A t \in Session : t # s => (Drives(t)' <=> Drives(t))
    BY <1>1, <2>1 DEF Drives, LeftBehind, Engaged, Launch
  <2>5. Driver'[p] = h
    BY <2>4 DEF DriverFits
  <2>6. ASSUME NEW q \in Profile, q # p
        PROVE  Driver'[q] = Driver[q]
    <3>1. CASE \E t \in Session : Drives(t) /\ ProfileOf[t] = q
      <4>1. PICK t \in Session : Drives(t) /\ ProfileOf[t] = q
        BY <3>1
      <4>2. Drives(t)'
        BY <2>4, <2>6, <4>1
      <4>3. QED
        BY <4>1, <4>2 DEF DriverFits
    <3>2. CASE \A t \in Session : ProfileOf[t] = q => ~Drives(t)
      <4>1. \A t \in Session : ProfileOf[t] = q => ~Drives(t)'
        BY <2>4, <2>6, <3>2
      <4>2. QED
        BY <3>2, <4>1 DEF DriverFits
    <3>3. QED
      BY <3>1, <3>2
  <2>7. Abstract!Take(p, h)
    BY <1>0, <2>3, <2>5, <2>6 DEF Abstract!Take
  <2>8. QED
    BY <2>7 DEF Abstract!Next
<1>2. CASE \A s \in Session, next \in {"preparing", "starting"} : ~Launch(s, next)
  <2> DEFINE S == {p \in Profile : Driver'[p] = NoOne}
  <2>1. \A s \in Session : Drives(s)' => Drives(s)
    <3>1. RegisteredAreUp /\ RegisteredAreUp'
      BY DEF FleetInv, ActiveMatches, StagesFitStatus, TypeOK, Status, RegisteredAreUp, Engaged,
             Running
    <3>2. QED
      BY <1>2, <3>1, OnlyLaunchEngages, LeftBehindStays
         DEF FleetInv, ActiveMatches, TypeOK, Drives, Engaged
  <2>2. ASSUME NEW p \in Profile
        PROVE  Driver'[p] \in {NoOne, Driver[p]}
    <3>1. CASE \E t \in Session : Drives(t)' /\ ProfileOf[t] = p
      BY <2>1, <3>1 DEF DriverFits
    <3>2. CASE \A t \in Session : ProfileOf[t] = p => ~Drives(t)'
      BY <3>2 DEF DriverFits
    <3>3. QED
      BY <3>1, <3>2
  <2>3. Abstract!Leave(S)
    BY <1>0, <2>2 DEF Abstract!Leave
  <2>4. QED
    BY <2>3 DEF Abstract!Next
<1>3. QED
  BY <1>1, <1>2

\* The fleet implements ExclusiveDriver: with everything in time, launches that do not
\* overlap in one process and no unlock, a profile passes from one process to another
\* only through a moment when no process has anything of it running but what a
\* shutdown has left behind.
THEOREM FleetHandsOver ==
    ASSUME Late = {}, Serial, Unlockable = {}
    PROVE  Spec => HandsOver
<1>1. Init => Abstract!Init
  BY DEF Init, Abstract!Init, Driver, Drives, Engaged
<1>2. FleetInv => Exclusive
  BY DEF FleetInv
<1>3. QED
  BY <1>1, <1>2, FleetInvInit, FleetInvStep, DriverIs, StepHandsOver, PTL
     DEF Spec, HandsOver, Abstract!Spec
=============================================================================
