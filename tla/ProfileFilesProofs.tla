------------------------- MODULE ProfileFilesProofs -------------------------
(***************************************************************************)
(* Theorems about ProfileFiles for every number of processes and profiles. *)
(***************************************************************************)
EXTENDS ProfileFilesProperties, TLAPS

DriverTyped ==
    /\ driver \in [Profile -> Process \cup {None}]
    /\ stage \in [Profile -> Stage]
    /\ \A p \in Profile : driver[p] = None <=> stage[p] = "none"

DiskTyped ==
    /\ rows \subseteq minted /\ minted \subseteq Profile
    /\ dir \in [Profile -> Directory]
    /\ \A p \in Profile \ minted : dir[p] = "none"

\* Nothing is written, listed or made for a profile whose id has not been drawn.
KnownTo(ids, state) ==
    /\ state.at \in {"creating", "cloning", "cloned", "extracting", "extracted", "deleting", "removed"}
         => state.profile \in ids
    /\ state.at = "cleaning" => state.missing \subseteq ids

Typed ==
    /\ DiskTyped
    /\ DriverTyped
    /\ call \in [Process -> Call]
    /\ \A h \in Process : KnownTo(minted, call[h])

\* What a process can be in the middle of.
LEMMA CallFields ==
    ASSUME NEW state \in Call
    PROVE  /\ state.at \in {"creating", "extracting", "extracted", "deleting", "removed",
                            "cloning", "cloned"} => state.profile \in Profile
           /\ state.at \in {"cloning", "copying", "sending"} => state.source \in Profile
           /\ state.at \in {"cloning", "cloned", "copying", "sending"} => state.torn \in BOOLEAN
           /\ state.at \in {"listed", "relisted"} => state.disk \subseteq Profile
           /\ state.at \in {"relisted", "cleaning"} => state.orphaned \subseteq Profile
           /\ state.at = "cleaning" => state.missing \subseteq Profile /\ state.failed \subseteq Profile
BY DEF Call, Idle, Down

\* The states an operation goes on to.
LEMMA CallNext ==
    /\ Idle \in Call /\ Down \in Call
    /\ \A p \in Profile, at \in {"creating", "extracting", "extracted", "deleting", "removed"} :
         [at |-> at, profile |-> p] \in Call
    /\ \A p, q \in Profile, torn \in BOOLEAN, at \in {"cloning", "cloned"} :
         [at |-> at, profile |-> q, source |-> p, torn |-> torn] \in Call
    /\ \A p \in Profile, torn \in BOOLEAN, at \in {"copying", "sending"} :
         [at |-> at, source |-> p, torn |-> torn] \in Call
    /\ \A disk \in SUBSET Profile : [at |-> "listed", disk |-> disk] \in Call
    /\ \A disk, orphaned \in SUBSET Profile :
         /\ [at |-> "relisted", orphaned |-> orphaned, disk |-> disk] \in Call
         /\ \A missing, failed \in SUBSET Profile :
              [at |-> "cleaning", orphaned |-> orphaned, missing |-> missing, failed |-> failed] \in Call
BY DEF Call

\* An operation that goes on with what it has.
LEMMA CallGoesOn ==
    ASSUME NEW state \in Call
    PROVE  /\ state.at = "cloning" => [state EXCEPT !.at = "cloned"] \in Call
           /\ state.at = "extracting" => [state EXCEPT !.at = "extracted"] \in Call
           /\ state.at = "deleting" => [state EXCEPT !.at = "removed"] \in Call
           /\ state.at = "copying" => [state EXCEPT !.at = "sending"] \in Call
           /\ \A p \in Profile : state.at = "cleaning" =>
                /\ [state EXCEPT !.orphaned = @ \ {p}] \in Call
                /\ [state EXCEPT !.missing = @ \ {p}] \in Call
                /\ [state EXCEPT !.orphaned = @ \ {p}, !.failed = @ \cup {p}] \in Call
                /\ [state EXCEPT !.missing = @ \ {p}, !.failed = @ \cup {p}] \in Call
           /\ state.at \in {"cloning", "copying"} => [state EXCEPT !.torn = TRUE] \in Call
<1>1. state.at = "cloning" => [state EXCEPT !.at = "cloned"] \in Call
  BY DEF Call, Idle, Down
<1>2. state.at = "extracting" => [state EXCEPT !.at = "extracted"] \in Call
  BY DEF Call, Idle, Down
<1>3. state.at = "deleting" => [state EXCEPT !.at = "removed"] \in Call
  BY DEF Call, Idle, Down
<1>4. state.at = "copying" => [state EXCEPT !.at = "sending"] \in Call
  BY DEF Call, Idle, Down
<1>5. ASSUME NEW p \in Profile, state.at = "cleaning"
      PROVE  /\ [state EXCEPT !.orphaned = @ \ {p}] \in Call
             /\ [state EXCEPT !.missing = @ \ {p}] \in Call
             /\ [state EXCEPT !.orphaned = @ \ {p}, !.failed = @ \cup {p}] \in Call
             /\ [state EXCEPT !.missing = @ \ {p}, !.failed = @ \cup {p}] \in Call
  <2>1. state \in [at : {"cleaning"}, orphaned : SUBSET Profile, missing : SUBSET Profile,
                   failed : SUBSET Profile]
    BY <1>5 DEF Call, Idle, Down
  <2>2. QED
    BY <2>1 DEF Call
<1>6. state.at \in {"cloning", "copying"} => [state EXCEPT !.torn = TRUE] \in Call
  BY DEF Call, Idle, Down
<1>7. QED
  BY <1>1, <1>2, <1>3, <1>4, <1>5, <1>6

-----------------------------------------------------------------------------
\* What the several kinds of steps have to keep.
LEMMA CallStep ==
    ASSUME Typed, NEW h \in Process, NEW state \in Call, Goto(h, state),
           minted \subseteq minted', KnownTo(minted', state)
    PROVE  call' \in [Process -> Call] /\ \A g \in Process : KnownTo(minted', call'[g])
<1>1. call' \in [Process -> Call] /\ \A g \in Process : call'[g] \in {call[g], state}
  BY DEF Typed, Goto
<1>2. ASSUME NEW g \in Process PROVE KnownTo(minted', call[g])
  BY DEF Typed, KnownTo
<1>3. QED
  BY <1>1, <1>2

LEMMA FileStep ==
    ASSUME Typed, NEW p \in Profile, NEW content \in Directory, Files(p, content),
           rows' \subseteq minted', minted' \in {minted, minted \cup {p}}, p \in minted'
    PROVE  DiskTyped'
BY DEF Typed, DiskTyped, Files

LEMMA DiskStays ==
    ASSUME Typed, UNCHANGED <<minted, dir>>, rows' \subseteq minted
    PROVE  DiskTyped'
BY DEF Typed, DiskTyped

LEMMA DriverStays ==
    ASSUME Typed, UNCHANGED <<driver, stage>>
    PROVE  DriverTyped'
BY DEF Typed, DriverTyped

LEMMA TypedInit == Init => Typed
BY DEF Init, Driving!Init, Typed, DiskTyped, DriverTyped, Directory, Stage, Call, Idle, KnownTo

LEMMA TypedStep == Typed /\ [Next]_vars => Typed'
<1> SUFFICES ASSUME Typed, [Next]_vars PROVE Typed'
  OBVIOUS
<1> USE DEF Directory
<1>a. /\ DiskTyped /\ DriverTyped /\ call \in [Process -> Call]
      /\ rows \subseteq minted /\ minted \subseteq Profile
      /\ \A p \in Profile : dir[p] \in Directory
  BY DEF Typed, DiskTyped
<1>b. ASSUME NEW h \in Process PROVE call[h] \in Call /\ KnownTo(minted, call[h])
  BY DEF Typed
<1> DEFINE CallTyped == call' \in [Process -> Call] /\ \A g \in Process : KnownTo(minted', call'[g])
<1>c. DiskTyped' /\ DriverTyped' /\ CallTyped => Typed'
  BY DEF Typed
<1>d. UNCHANGED <<minted, call>> => CallTyped
  BY DEF Typed
<1> HIDE DEF CallTyped
<1>e. ASSUME NEW h \in Process, NEW state \in Call, Goto(h, state),
             minted \subseteq minted', KnownTo(minted', state)
      PROVE  CallTyped
  BY <1>e, CallStep DEF CallTyped
<1>f. Idle \in Call /\ Down \in Call /\ KnownTo(minted', Idle) /\ KnownTo(minted', Down)
  BY DEF Call, KnownTo, Idle, Down
<1>1. ASSUME NEW h \in Process, NEW p \in Profile, CreateMakes(h, p) PROVE Typed'
  <2>1. DiskTyped'
    BY <1>1, <1>a, FileStep DEF CreateMakes
  <2>2. [at |-> "creating", profile |-> p] \in Call
        /\ KnownTo(minted', [at |-> "creating", profile |-> p])
    BY <1>1, CallNext DEF CreateMakes, KnownTo
  <2>3. QED
    BY <1>1, <2>1, <2>2, <1>c, <1>e, DriverStays DEF CreateMakes
<1>2. ASSUME NEW h \in Process, NEW p \in Profile, ImportStarts(h, p) PROVE Typed'
  <2>1. DiskTyped'
    BY <1>2, <1>a, FileStep DEF ImportStarts
  <2>2. [at |-> "extracting", profile |-> p] \in Call
        /\ KnownTo(minted', [at |-> "extracting", profile |-> p])
    BY <1>2, CallNext DEF ImportStarts, KnownTo
  <2>3. QED
    BY <1>2, <2>1, <2>2, <1>c, <1>e, DriverStays DEF ImportStarts
<1>3. ASSUME NEW h \in Process, NEW p \in Profile, NEW q \in Profile, CloneMakes(h, p, q)
      PROVE  Typed'
  <2> DEFINE state == [at |-> "cloning", profile |-> q, source |-> p, torn |-> InUse(p)]
  <2>1. DiskTyped'
    BY <1>3, <1>a, FileStep DEF CloneMakes
  <2>2. InUse(p) \in BOOLEAN
    BY DEF InUse
  <2>3. state \in Call /\ KnownTo(minted', state)
    BY <1>3, <2>2, CallNext DEF CloneMakes, KnownTo
  <2>4. Goto(h, state) /\ minted \subseteq minted' /\ UNCHANGED <<driver, stage>>
    BY <1>3 DEF CloneMakes
  <2> HIDE DEF state
  <2>5. QED
    BY <2>1, <2>3, <2>4, <1>c, <1>e, DriverStays
<1>4. ASSUME NEW h \in Process, NEW p \in Profile, DeleteReads(h, p) PROVE Typed'
  <2>1. [at |-> "deleting", profile |-> p] \in Call
        /\ KnownTo(minted', [at |-> "deleting", profile |-> p])
    BY <1>4, <1>a, CallNext DEF DeleteReads, KnownTo
  <2>2. QED
    BY <1>4, <2>1, <1>a, <1>c, <1>e, DiskStays, DriverStays DEF DeleteReads
<1>5. ASSUME NEW h \in Process, NEW p \in Profile, ExportChecks(h, p) PROVE Typed'
  <2> DEFINE state == [at |-> "copying", source |-> p, torn |-> InUse(p)]
  <2>1. InUse(p) \in BOOLEAN
    BY DEF InUse
  <2>2. state \in Call /\ KnownTo(minted', state)
    BY <2>1, CallNext DEF KnownTo
  <2>3. Goto(h, state) /\ UNCHANGED <<rows, minted, dir, driver, stage>>
    BY <1>5 DEF ExportChecks
  <2> HIDE DEF state
  <2>4. QED
    BY <2>2, <2>3, <1>a, <1>c, <1>e, DiskStays, DriverStays
<1>6. ASSUME NEW h \in Process, NEW p \in Profile, CleanupRemoves(h, p) \/ CleanupCannotRemove(h, p)
      PROVE  Typed'
  <2>1. call[h].at = "cleaning"
    BY <1>6 DEF CleanupRemoves, CleanupCannotRemove
  <2>2. PICK state : /\ Goto(h, state) /\ state \in Call
                     /\ state.at = "cleaning" /\ state.missing = call[h].missing
    <3> DEFINE removed == [call[h] EXCEPT !.orphaned = @ \ {p}]
               failing == [call[h] EXCEPT !.orphaned = @ \ {p}, !.failed = @ \cup {p}]
    <3>1. removed \in Call /\ failing \in Call
      BY <2>1, <1>b, CallGoesOn
    <3>2. /\ removed.at = "cleaning" /\ removed.missing = call[h].missing
          /\ failing.at = "cleaning" /\ failing.missing = call[h].missing
      BY <2>1, <1>b DEF Call, Idle, Down
    <3>3. Goto(h, removed) \/ Goto(h, failing)
      BY <1>6 DEF CleanupRemoves, CleanupCannotRemove
    <3> HIDE DEF removed, failing
    <3>4. QED
      BY <3>1, <3>2, <3>3
  <2>3. PICK content \in Directory : Files(p, content) /\ (dir[p] = "none" => content = "none")
    BY <1>6, <1>a DEF CleanupRemoves, CleanupCannotRemove
  <2>4. UNCHANGED <<rows, minted, driver, stage>>
    BY <1>6 DEF CleanupRemoves, CleanupCannotRemove
  <2>5. KnownTo(minted', state)
    BY <2>1, <2>2, <2>4, <1>b DEF KnownTo
  <2>6. DiskTyped'
    BY <2>3, <2>4, <1>a DEF DiskTyped, Files
  <2>7. QED
    BY <2>2, <2>4, <2>5, <2>6, <1>c, <1>e, DriverStays
<1>7. ASSUME NEW h \in Process, NEW p \in Profile, CleanupMakes(h, p) \/ CleanupCannotMake(h, p)
      PROVE  Typed'
  <2>1. call[h].at = "cleaning" /\ p \in call[h].missing
    BY <1>7 DEF CleanupMakes, CleanupCannotMake
  <2>2. PICK state : /\ Goto(h, state) /\ state \in Call
                     /\ state.at = "cleaning" /\ state.missing = call[h].missing \ {p}
    <3> DEFINE made == [call[h] EXCEPT !.missing = @ \ {p}]
               failing == [call[h] EXCEPT !.missing = @ \ {p}, !.failed = @ \cup {p}]
    <3>1. made \in Call /\ failing \in Call
      BY <2>1, <1>b, CallGoesOn
    <3>2. /\ made.at = "cleaning" /\ made.missing = call[h].missing \ {p}
          /\ failing.at = "cleaning" /\ failing.missing = call[h].missing \ {p}
      BY <2>1, <1>b DEF Call, Idle, Down
    <3>3. Goto(h, made) \/ Goto(h, failing)
      BY <1>7 DEF CleanupMakes, CleanupCannotMake
    <3> HIDE DEF made, failing
    <3>4. QED
      BY <3>1, <3>2, <3>3
  <2>3. UNCHANGED <<rows, minted, driver, stage>>
    BY <1>7 DEF CleanupMakes, CleanupCannotMake
  <2>4. p \in minted /\ KnownTo(minted', state)
    BY <2>1, <2>2, <2>3, <1>b DEF KnownTo
  <2>5. DiskTyped'
    <3>1. CASE CleanupMakes(h, p)
      <4>1. Files(p, IF dir[p] = "none" THEN "empty" ELSE dir[p])
        BY <3>1 DEF CleanupMakes
      <4>2. QED
        BY <4>1, <2>3, <2>4, <1>a, FileStep
    <3>2. CASE CleanupCannotMake(h, p)
      BY <3>2, <1>a, DiskStays DEF CleanupCannotMake
    <3>3. QED
      BY <3>1, <3>2, <1>7
  <2>6. QED
    BY <2>2, <2>3, <2>4, <2>5, <1>c, <1>e, DriverStays
<1>8. ASSUME NEW h \in Process, NEW p \in Profile, Launch(h, p) PROVE Typed'
  <2>1. DiskTyped'
    BY <1>8, <1>a, FileStep DEF Launch
  <2>2. DriverTyped'
    BY <1>8, <1>a, NoneAssumption DEF Launch, DriverTyped, Driving!Take, Stage
  <2>3. ASSUME NEW g \in Process, Copies(g, p)
        PROVE  /\ [call[g] EXCEPT !.torn = TRUE] \in Call
               /\ KnownTo(minted, [call[g] EXCEPT !.torn = TRUE])
    <3>1. call[g].at \in {"cloning", "copying"}
      BY <2>3 DEF Copies
    <3>2. [call[g] EXCEPT !.torn = TRUE] \in Call
      BY <3>1, <1>b, CallGoesOn
    <3>3. /\ [call[g] EXCEPT !.torn = TRUE].at = call[g].at
          /\ call[g].at = "cloning" => [call[g] EXCEPT !.torn = TRUE].profile = call[g].profile
      BY <3>1, <1>b DEF Call, Idle, Down
    <3>4. QED
      BY <3>1, <3>2, <3>3, <1>b DEF KnownTo
  <2>4. CallTyped
    BY <1>8, <2>3, <1>a, <1>b DEF Launch, CallTyped
  <2>5. QED
    BY <2>1, <2>2, <2>4, <1>c
<1>9. ASSUME NEW h \in Process, SavesRow(h) PROVE Typed'
  <2>1. rows' \subseteq minted /\ UNCHANGED <<minted, dir, driver, stage>>
    BY <1>9, <1>a, <1>b DEF SavesRow, KnownTo
  <2>2. QED
    BY <1>9, <2>1, <1>c, <1>e, <1>f, DiskStays, DriverStays DEF SavesRow
<1>10. ASSUME NEW h \in Process, SaveFails(h) PROVE Typed'
  BY <1>10, <1>a, <1>c, <1>e, <1>f, DiskStays, DriverStays DEF SaveFails
<1>11. ASSUME NEW h \in Process, CloneCopies(h) PROVE Typed'
  <2> DEFINE state == [call[h] EXCEPT !.at = "cloned"]
  <2>1. state \in Call /\ call[h].source \in Profile
    BY <1>11, <1>b, CallGoesOn, CallFields DEF CloneCopies
  <2>2. state.at = "cloned" /\ state.profile = call[h].profile
    BY <1>11, <1>b DEF CloneCopies, Call, Idle, Down
  <2>3. Goto(h, state) /\ UNCHANGED <<rows, minted, driver, stage>>
    BY <1>11 DEF CloneCopies
  <2>4. call[h].profile \in minted /\ KnownTo(minted', state)
    BY <1>11, <1>b, <2>2, <2>3 DEF KnownTo, CloneCopies
  <2> HIDE DEF state
  <2>5. \E content \in Directory : Files(call[h].profile, content)
    BY <1>11, <2>1, <1>a DEF CloneCopies
  <2>6. DiskTyped'
    BY <2>3, <2>4, <2>5, <1>a, FileStep
  <2>7. QED
    BY <2>1, <2>3, <2>4, <2>6, <1>c, <1>e, DriverStays
<1>12. ASSUME NEW h \in Process, ImportExtracts(h) PROVE Typed'
  <2> DEFINE state == [call[h] EXCEPT !.at = "extracted"]
  <2>1. state \in Call
    BY <1>12, <1>b, CallGoesOn DEF ImportExtracts
  <2>2. state.at = "extracted" /\ state.profile = call[h].profile
    BY <1>12, <1>b DEF ImportExtracts, Call, Idle, Down
  <2>3. Goto(h, state) /\ UNCHANGED <<rows, minted, driver, stage>> /\ Files(call[h].profile, "full")
    BY <1>12 DEF ImportExtracts
  <2>4. call[h].profile \in minted /\ KnownTo(minted', state)
    BY <1>12, <1>b, <2>2, <2>3 DEF KnownTo, ImportExtracts
  <2> HIDE DEF state
  <2>5. DiskTyped'
    BY <2>3, <2>4, <1>a, FileStep
  <2>6. QED
    BY <2>1, <2>3, <2>4, <2>5, <1>c, <1>e, DriverStays
<1>13. ASSUME NEW h \in Process, ImportRefused(h) PROVE Typed'
  <2>1. call[h].profile \in minted
    BY <1>13, <1>b DEF ImportRefused, KnownTo
  <2>2. DiskTyped'
    <3>1. \E content \in Directory : Files(call[h].profile, content)
      BY <1>13, <2>1, <1>a DEF ImportRefused
    <3>2. QED
      BY <1>13, <2>1, <3>1, <1>a, FileStep DEF ImportRefused
  <2>3. QED
    BY <1>13, <2>2, <1>c, <1>e, <1>f, DriverStays DEF ImportRefused
<1>14. ASSUME NEW h \in Process, DeleteRemoves(h) PROVE Typed'
  <2> DEFINE state == [call[h] EXCEPT !.at = "removed"]
  <2>1. state \in Call
    BY <1>14, <1>b, CallGoesOn DEF DeleteRemoves
  <2>2. state.at = "removed" /\ state.profile = call[h].profile
    BY <1>14, <1>b DEF DeleteRemoves, Call, Idle, Down
  <2>3. Goto(h, state) /\ UNCHANGED <<rows, minted, driver, stage>> /\ Files(call[h].profile, "none")
    BY <1>14 DEF DeleteRemoves
  <2>4. call[h].profile \in minted /\ KnownTo(minted', state)
    BY <1>14, <1>b, <2>2, <2>3 DEF KnownTo, DeleteRemoves
  <2> HIDE DEF state
  <2>5. DiskTyped'
    BY <2>3, <2>4, <1>a, FileStep
  <2>6. QED
    BY <2>1, <2>3, <2>4, <2>5, <1>c, <1>e, DriverStays
<1>15. ASSUME NEW h \in Process, DeleteRaises(h) PROVE Typed'
  <2>1. call[h].profile \in minted
    BY <1>15, <1>b DEF DeleteRaises, KnownTo
  <2>2. DiskTyped'
    BY <1>15, <2>1, <1>a, FileStep DEF DeleteRaises
  <2>3. QED
    BY <1>15, <2>2, <1>c, <1>e, <1>f, DriverStays DEF DeleteRaises
<1>16. ASSUME NEW h \in Process, DeletesRow(h) PROVE Typed'
  <2>1. rows' \subseteq minted /\ UNCHANGED <<minted, dir, driver, stage>>
    BY <1>16, <1>a DEF DeletesRow
  <2>2. QED
    BY <1>16, <2>1, <1>c, <1>e, <1>f, DiskStays, DriverStays DEF DeletesRow
<1>17. ASSUME NEW h \in Process, ExportCopies(h) PROVE Typed'
  <2> DEFINE state == [call[h] EXCEPT !.at = "sending"]
  <2>1. state \in Call
    BY <1>17, <1>b, CallGoesOn DEF ExportCopies
  <2>2. state.at = "sending"
    BY <1>17, <1>b DEF ExportCopies, Call, Idle, Down
  <2>3. Goto(h, state) /\ UNCHANGED <<rows, minted, dir, driver, stage>>
    BY <1>17 DEF ExportCopies
  <2>4. KnownTo(minted', state)
    BY <2>2 DEF KnownTo
  <2> HIDE DEF state
  <2>5. QED
    BY <2>1, <2>3, <2>4, <1>a, <1>c, <1>e, DiskStays, DriverStays
<1>18. ASSUME NEW h \in Process, ExportEnds(h) PROVE Typed'
  BY <1>18, <1>a, <1>c, <1>e, <1>f, DiskStays, DriverStays DEF ExportEnds
<1>19. ASSUME NEW h \in Process, CleanupLists(h) PROVE Typed'
  <2>1. [at |-> "listed", disk |-> OnDisk] \in Call /\ KnownTo(minted', [at |-> "listed", disk |-> OnDisk])
    BY CallNext DEF OnDisk, KnownTo
  <2>2. QED
    BY <1>19, <2>1, <1>a, <1>c, <1>e, DiskStays, DriverStays DEF CleanupLists
<1>20. ASSUME NEW h \in Process, CleanupFindsOrphans(h) PROVE Typed'
  <2> DEFINE orphaned == call[h].disk \ rows
             state == [at |-> "relisted", orphaned |-> orphaned, disk |-> OnDisk]
  <2>1. call[h].disk \subseteq Profile
    BY <1>20, <1>b, CallFields DEF CleanupFindsOrphans
  <2>2. state \in Call /\ KnownTo(minted', state)
    BY <2>1, CallNext DEF OnDisk, KnownTo
  <2>3. (Goto(h, state) \/ Goto(h, Idle)) /\ UNCHANGED <<rows, minted, dir, driver, stage>>
    BY <1>20 DEF CleanupFindsOrphans
  <2> HIDE DEF state
  <2>4. QED
    BY <2>2, <2>3, <1>a, <1>c, <1>e, <1>f, DiskStays, DriverStays
<1>21. ASSUME NEW h \in Process, CleanupFindsMissing(h) PROVE Typed'
  <2> DEFINE state == [at |-> "cleaning", orphaned |-> call[h].orphaned,
                      missing |-> rows \ call[h].disk, failed |-> {}]
  <2>1. call[h].orphaned \subseteq Profile
    BY <1>21, <1>b, CallFields DEF CleanupFindsMissing
  <2>2. state \in Call /\ KnownTo(minted, state)
    BY <2>1, <1>a, CallNext DEF KnownTo
  <2>3. Goto(h, state) /\ UNCHANGED <<rows, minted, dir, driver, stage>>
    BY <1>21 DEF CleanupFindsMissing
  <2> HIDE DEF state
  <2>4. QED
    BY <2>2, <2>3, <1>a, <1>c, <1>e, DiskStays, DriverStays
<1>22. ASSUME NEW h \in Process, CleanupEnds(h) PROVE Typed'
  BY <1>22, <1>a, <1>c, <1>e, <1>f, DiskStays, DriverStays DEF CleanupEnds
<1>23. ASSUME NEW h \in Process, Crash(h) PROVE Typed'
  <2>1. DriverTyped'
    BY <1>23, <1>a, NoneAssumption DEF Crash, DriverTyped, Stage
  <2>2. QED
    BY <1>23, <2>1, <1>a, <1>c, <1>e, <1>f, DiskStays DEF Crash
<1>24. ASSUME NEW h \in Process, Restart(h) PROVE Typed'
  BY <1>24, <1>a, <1>c, <1>e, <1>f, DiskStays, DriverStays DEF Restart
<1>25. ASSUME NEW p \in Profile, Started(p) \/ Closes(p) \/ BrowserGone(p) PROVE Typed'
  <2>1. DriverTyped'
    BY <1>25, <1>a, NoneAssumption
       DEF Started, Closes, BrowserGone, Driving!Leave, DriverTyped, Stage
  <2>2. QED
    BY <1>25, <2>1, <1>a, <1>c, <1>d, DiskStays DEF Started, Closes, BrowserGone
<1>26. CASE UNCHANGED vars
  BY <1>26, <1>a, <1>c, <1>d, DiskStays, DriverStays DEF vars
<1>27. QED
  BY <1>1, <1>2, <1>3, <1>4, <1>5, <1>6, <1>7, <1>8, <1>9, <1>10, <1>11, <1>12, <1>13, <1>14, <1>15,
     <1>16, <1>17, <1>18, <1>19, <1>20, <1>21, <1>22, <1>23, <1>24, <1>25, <1>26 DEF Next

LEMMA AlwaysTyped == Spec => []Typed
BY TypedInit, TypedStep, PTL DEF Spec

\* Rows, directories, drivers and operations are what they should be; a row or a
\* directory only ever has an id that was drawn.
THEOREM FilesTypeCorrect == Spec => []TypeOK
<1>1. Typed => TypeOK
  BY DEF Typed, DiskTyped, DriverTyped, TypeOK
<1>2. QED
  BY <1>1, AlwaysTyped, PTL

-----------------------------------------------------------------------------
\* What an export has read so far, or is sending, was not written to meanwhile.
Clean(state) == state.at \in {"copying", "sending"} => ~state.torn

Exports == \A h \in Process : Clean(call[h])

LEMMA ExportsStep ==
    ASSUME "export" \in Apart, Typed, Exports, [Next]_vars
    PROVE  Exports'
<1>a. call \in [Process -> Call] /\ DriverTyped
  BY DEF Typed
<1>b. ASSUME NEW h \in Process PROVE call[h] \in Call /\ Clean(call[h])
  BY <1>a DEF Exports
<1>c. ASSUME NEW h \in Process, NEW state, Goto(h, state), Clean(state) PROVE Exports'
  <2>1. \A g \in Process : call'[g] \in {call[g], state}
    BY <1>c, <1>a DEF Goto
  <2>2. QED
    BY <2>1, <1>c, <1>b DEF Exports
<1>d. UNCHANGED call => Exports'
  BY DEF Exports
<1>e. Clean(Idle) /\ Clean(Down)
  BY DEF Clean, Idle, Down
<1>1. ASSUME NEW h \in Process, NEW p \in Profile,
             CreateMakes(h, p) \/ ImportStarts(h, p) \/ DeleteReads(h, p)
      PROVE  Exports'
  <2>1. \A at \in {"creating", "extracting", "deleting"} : Clean([at |-> at, profile |-> p])
    BY DEF Clean
  <2>2. QED
    BY <1>1, <2>1, <1>c DEF CreateMakes, ImportStarts, DeleteReads
<1>2. ASSUME NEW h \in Process, NEW p \in Profile, NEW q \in Profile, CloneMakes(h, p, q)
      PROVE  Exports'
  <2>1. Clean([at |-> "cloning", profile |-> q, source |-> p, torn |-> InUse(p)])
    BY DEF Clean
  <2>2. QED
    BY <1>2, <2>1, <1>c DEF CloneMakes
<1>3. ASSUME NEW h \in Process, NEW p \in Profile, ExportChecks(h, p) PROVE Exports'
  <2>1. ~InUse(p)
    <3>1. CASE driver[p] = None
      BY <3>1, <1>a DEF DriverTyped, InUse
    <3>2. CASE driver[p] = h
      BY <3>2, <1>3 DEF ExportChecks, OwnIsQuiet
    <3>3. QED
      BY <3>1, <3>2, <1>3 DEF ExportChecks
  <2>2. Clean([at |-> "copying", source |-> p, torn |-> InUse(p)])
    BY <2>1 DEF Clean
  <2>3. QED
    BY <1>3, <2>2, <1>c DEF ExportChecks
<1>4. ASSUME NEW h \in Process, ExportCopies(h) PROVE Exports'
  <2>1. Clean([call[h] EXCEPT !.at = "sending"])
    BY <1>4, <1>b DEF ExportCopies, Clean, Call, Idle, Down
  <2>2. QED
    BY <1>4, <2>1, <1>c DEF ExportCopies
<1>5. ASSUME NEW h \in Process, NEW p \in Profile, Launch(h, p) PROVE Exports'
  <2>1. ASSUME NEW g \in Process PROVE Clean(call'[g])
    <3>1. CASE Copies(g, p)
      <4>1. call[g].at = "cloning"
        BY <1>5, <3>1 DEF Launch, MayLaunch, Copies
      <4>2. call'[g].at = "cloning"
        BY <1>5, <3>1, <4>1, <1>b DEF Launch, Call, Idle, Down
      <4>3. QED
        BY <4>2 DEF Clean
    <3>2. CASE ~Copies(g, p)
      BY <1>5, <3>2, <1>b DEF Launch
    <3>3. QED
      BY <3>1, <3>2
  <2>2. QED
    BY <2>1 DEF Exports
<1>6. ASSUME NEW h \in Process, CloneCopies(h) \/ ImportExtracts(h) \/ DeleteRemoves(h) PROVE Exports'
  <2>1. CASE CloneCopies(h)
    <3>1. Clean([call[h] EXCEPT !.at = "cloned"])
      BY <2>1, <1>b DEF CloneCopies, Clean, Call, Idle, Down
    <3>2. QED
      BY <2>1, <3>1, <1>c DEF CloneCopies
  <2>2. CASE ImportExtracts(h)
    <3>1. Clean([call[h] EXCEPT !.at = "extracted"])
      BY <2>2, <1>b DEF ImportExtracts, Clean, Call, Idle, Down
    <3>2. QED
      BY <2>2, <3>1, <1>c DEF ImportExtracts
  <2>3. CASE DeleteRemoves(h)
    <3>1. Clean([call[h] EXCEPT !.at = "removed"])
      BY <2>3, <1>b DEF DeleteRemoves, Clean, Call, Idle, Down
    <3>2. QED
      BY <2>3, <3>1, <1>c DEF DeleteRemoves
  <2>4. QED
    BY <1>6, <2>1, <2>2, <2>3
<1>7. ASSUME NEW h \in Process,
             \/ SavesRow(h) \/ SaveFails(h) \/ ImportRefused(h) \/ DeleteRaises(h) \/ DeletesRow(h)
             \/ ExportEnds(h) \/ CleanupEnds(h) \/ Restart(h) \/ Crash(h)
      PROVE  Exports'
  BY <1>7, <1>c, <1>e
     DEF SavesRow, SaveFails, ImportRefused, DeleteRaises, DeletesRow, ExportEnds, CleanupEnds,
         Restart, Crash
<1>8. ASSUME NEW h \in Process, CleanupLists(h) \/ CleanupFindsOrphans(h) \/ CleanupFindsMissing(h)
      PROVE  Exports'
  <2>1. PICK state : Goto(h, state) /\ (state = Idle \/ state.at \in {"listed", "relisted", "cleaning"})
    BY <1>8 DEF CleanupLists, CleanupFindsOrphans, CleanupFindsMissing
  <2>2. Clean(state)
    BY <2>1, <1>e DEF Clean
  <2>3. QED
    BY <2>1, <2>2, <1>c
<1>9. ASSUME NEW h \in Process, NEW p \in Profile,
             \/ CleanupRemoves(h, p) \/ CleanupCannotRemove(h, p)
             \/ CleanupMakes(h, p) \/ CleanupCannotMake(h, p)
      PROVE  Exports'
  <2>1. call[h].at = "cleaning"
    BY <1>9 DEF CleanupRemoves, CleanupCannotRemove, CleanupMakes, CleanupCannotMake
  <2>2. /\ Clean([call[h] EXCEPT !.orphaned = @ \ {p}])
        /\ Clean([call[h] EXCEPT !.missing = @ \ {p}])
        /\ Clean([call[h] EXCEPT !.orphaned = @ \ {p}, !.failed = @ \cup {p}])
        /\ Clean([call[h] EXCEPT !.missing = @ \ {p}, !.failed = @ \cup {p}])
    BY <2>1, <1>b DEF Clean, Call, Idle, Down
  <2>3. QED
    BY <1>9, <2>2, <1>c DEF CleanupRemoves, CleanupCannotRemove, CleanupMakes, CleanupCannotMake
<1>10. ASSUME NEW p \in Profile, Started(p) \/ Closes(p) \/ BrowserGone(p) PROVE Exports'
  BY <1>10, <1>d DEF Started, Closes, BrowserGone
<1>11. CASE UNCHANGED vars
  BY <1>11, <1>d DEF vars
<1>12. QED
  BY <1>1, <1>2, <1>3, <1>4, <1>5, <1>6, <1>7, <1>8, <1>9, <1>10, <1>11 DEF Next

\* As long as nobody launches what is being exported, and no process exports what it
\* is just starting or closing, no archive was written to while it was read
\* (export_profile), for any number of processes and with any of them dying.
THEOREM ArchivesAreWhole == "export" \in Apart => (Spec => []ArchiveIsWhole)
<1> SUFFICES ASSUME "export" \in Apart PROVE Spec => []ArchiveIsWhole
  OBVIOUS
<1>1. Init => Exports
  BY DEF Init, Exports, Clean, Idle
<1>2. Typed /\ Exports /\ [Next]_vars => Exports'
  BY ExportsStep
<1>3. Exports => ArchiveIsWhole
  BY DEF Exports, ArchiveIsWhole, Clean
<1>4. QED
  BY <1>1, <1>2, <1>3, AlwaysTyped, PTL DEF Spec

-----------------------------------------------------------------------------
\* The steps that end an operation.
LEMMA WhoEnds ==
    ASSUME Typed, [Next]_vars, NEW h \in Process, call[h] # Idle, call'[h] = Idle
    PROVE  \/ SavesRow(h) \/ SaveFails(h) \/ ImportRefused(h) \/ DeleteRaises(h) \/ DeletesRow(h)
           \/ ExportEnds(h) \/ CleanupFindsOrphans(h) \/ CleanupEnds(h) \/ Restart(h)
<1>a. call \in [Process -> Call]
  BY DEF Typed
<1>b. ASSUME NEW g \in Process PROVE call[g] \in Call
  BY <1>a
<1>c. ASSUME NEW g \in Process, NEW state, Goto(g, state) PROVE g = h /\ state = Idle
  BY <1>c, <1>a DEF Goto
<1>d. ~UNCHANGED call
  OBVIOUS
<1>1. ASSUME NEW g \in Process, NEW p \in Profile
      PROVE  /\ ~CreateMakes(g, p) /\ ~ImportStarts(g, p) /\ ~DeleteReads(g, p)
             /\ ~ExportChecks(g, p)
  BY <1>c DEF CreateMakes, ImportStarts, DeleteReads, ExportChecks, Idle
<1>2. ASSUME NEW g \in Process, NEW p, NEW q PROVE ~CloneMakes(g, p, q)
  BY <1>c DEF CloneMakes, Idle
<1>3. ASSUME NEW g \in Process, NEW p
      PROVE  /\ ~CleanupRemoves(g, p) /\ ~CleanupCannotRemove(g, p)
             /\ ~CleanupMakes(g, p) /\ ~CleanupCannotMake(g, p)
  <2>1. ASSUME call[g].at = "cleaning"
        PROVE  /\ [call[g] EXCEPT !.orphaned = @ \ {p}] # Idle
               /\ [call[g] EXCEPT !.missing = @ \ {p}] # Idle
               /\ [call[g] EXCEPT !.orphaned = @ \ {p}, !.failed = @ \cup {p}] # Idle
               /\ [call[g] EXCEPT !.missing = @ \ {p}, !.failed = @ \cup {p}] # Idle
    BY <2>1, <1>b DEF Call, Idle, Down
  <2>2. QED
    BY <2>1, <1>c DEF CleanupRemoves, CleanupCannotRemove, CleanupMakes, CleanupCannotMake
<1>4. ASSUME NEW g \in Process, NEW p \in Profile PROVE ~Launch(g, p)
  <2>1. Copies(h, p) => [call[h] EXCEPT !.torn = TRUE] # Idle
    BY <1>b DEF Copies, Call, Idle, Down
  <2>2. QED
    BY <2>1 DEF Launch
<1>5. ASSUME NEW g \in Process
      PROVE  ~CloneCopies(g) /\ ~ImportExtracts(g) /\ ~DeleteRemoves(g) /\ ~ExportCopies(g)
  <2>1. /\ call[g].at = "cloning" => [call[g] EXCEPT !.at = "cloned"] # Idle
        /\ call[g].at = "extracting" => [call[g] EXCEPT !.at = "extracted"] # Idle
        /\ call[g].at = "deleting" => [call[g] EXCEPT !.at = "removed"] # Idle
        /\ call[g].at = "copying" => [call[g] EXCEPT !.at = "sending"] # Idle
    BY <1>b DEF Call, Idle, Down
  <2>2. QED
    BY <2>1, <1>c DEF CloneCopies, ImportExtracts, DeleteRemoves, ExportCopies
<1>6. ASSUME NEW g \in Process PROVE ~CleanupLists(g) /\ ~CleanupFindsMissing(g) /\ ~Crash(g)
  BY <1>c DEF CleanupLists, CleanupFindsMissing, Crash, Idle, Down
<1>7. ASSUME NEW p \in Profile PROVE ~Started(p) /\ ~Closes(p) /\ ~BrowserGone(p)
  BY <1>d DEF Started, Closes, BrowserGone
<1>8. ~UNCHANGED vars
  BY <1>d DEF vars
<1>9. PICK g \in Process :
        \/ SavesRow(g) \/ SaveFails(g) \/ ImportRefused(g) \/ DeleteRaises(g) \/ DeletesRow(g)
        \/ ExportEnds(g) \/ CleanupFindsOrphans(g) \/ CleanupEnds(g) \/ Restart(g)
  BY <1>1, <1>2, <1>3, <1>4, <1>5, <1>6, <1>7, <1>8 DEF Next
<1>10. \E state : Goto(g, state)
  BY <1>9 DEF SavesRow, SaveFails, ImportRefused, DeleteRaises, DeletesRow, ExportEnds,
              CleanupFindsOrphans, CleanupEnds, Restart
<1>11. QED
  BY <1>9, <1>10, <1>c

-----------------------------------------------------------------------------
\* In the middle of making a profile that is not listed yet.
MakingStates == {"creating", "cloning", "cloned", "extracting", "extracted"}
WritingStates == MakingStates \cup {"deleting", "removed"}
CleaningStates == {"listed", "relisted", "cleaning"}

\* The directory of a profile being made is there, and the profile is not listed.
NewOnes ==
    \A h \in Process : call[h].at \in MakingStates =>
        call[h].profile \notin rows /\ dir[call[h].profile] # "none"

\* Nobody else makes or deletes that profile.
OneMaker ==
    \A g, h \in Process :
        g # h /\ call[h].at \in MakingStates /\ call[g].at \in WritingStates =>
            call[g].profile # call[h].profile

\* Whoever cleans up is alone in that, and nobody makes or deletes profiles.
CleanAlone ==
    \A g, h \in Process :
        g # h /\ call[h].at \in CleaningStates => call[g].at \notin CleaningStates \cup WritingStates

\* So what it has listed is true, and what is left to do is what differs and has not
\* failed yet.
CleanTrue ==
    \A h \in Process :
        /\ call[h].at \in {"listed", "relisted"} => call[h].disk = OnDisk
        /\ call[h].at = "relisted" => call[h].orphaned = OnDisk \ rows
        /\ call[h].at = "cleaning" =>
             /\ call[h].orphaned = (OnDisk \ rows) \ call[h].failed
             /\ call[h].missing = (rows \ OnDisk) \ call[h].failed

CleanInv == NewOnes /\ OneMaker /\ CleanAlone /\ CleanTrue

\* A process that is about to write or clean up finds nobody cleaning up.
LEMMA NobodyCleans ==
    ASSUME "cleanup" \in Apart, MayWrite, NEW g \in Process
    PROVE  call[g].at \notin CleaningStates
BY DEF MayWrite, Cleaning, CleaningStates

LEMMA CleanInit == Init => CleanInv
BY DEF Init, Idle, CleanInv, NewOnes, OneMaker, CleanAlone, CleanTrue, MakingStates, WritingStates,
       CleaningStates

\* A step by which nobody begins anything keeps the invariant, if rows and disk stay.
LEMMA CleanQuiet ==
    ASSUME Typed, CleanInv, UNCHANGED <<rows, dir>>,
           \A g \in Process : call'[g] = call[g]
                              \/ call'[g].at \notin WritingStates \cup CleaningStates
    PROVE  CleanInv'
<1> USE DEF CleanInv, MakingStates, WritingStates, CleaningStates
<1>0. OnDisk' = OnDisk
  BY DEF OnDisk
<1>1. NewOnes'
  BY DEF NewOnes
<1>2. OneMaker'
  BY DEF OneMaker
<1>3. CleanAlone'
  BY DEF CleanAlone
<1>4. CleanTrue'
  BY <1>0 DEF CleanTrue
<1>5. QED
  BY <1>1, <1>2, <1>3, <1>4

\* A step of somebody who makes or deletes profile p, with nobody cleaning up: it
\* leaves what others make alone.
LEMMA CleanWrites ==
    ASSUME Typed, CleanInv, NEW h \in Process, NEW p \in Profile, NEW state, Goto(h, state),
           \A g \in Process : call[g].at \notin CleaningStates, state.at \notin CleaningStates,
           \A g \in Process : g # h /\ call[g].at \in MakingStates => call[g].profile # p,
           \A q \in Profile : q # p => dir'[q] = dir[q] /\ (q \in rows' <=> q \in rows),
           state.at \in WritingStates => state.profile = p,
           state.at \in MakingStates =>
               /\ p \notin rows' /\ dir'[p] # "none"
               /\ \A g \in Process : g # h /\ call[g].at \in WritingStates => call[g].profile # p
    PROVE  CleanInv'
<1> USE DEF CleanInv
<1>a. /\ call'[h] = state
      /\ \A g \in Process : g # h => call'[g] = call[g]
  BY DEF Typed, Goto
<1>b. ASSUME NEW g \in Process, call[g].at \in MakingStates PROVE call[g].profile \in Profile
  <2>1. call[g] \in Call
    BY DEF Typed
  <2>2. QED
    BY <1>b, <2>1, CallFields DEF MakingStates
<1>1. NewOnes'
  BY <1>a, <1>b DEF NewOnes, WritingStates
<1>2. OneMaker'
  <2> SUFFICES ASSUME NEW f \in Process, NEW g \in Process, f # g,
                      call'[g].at \in MakingStates, call'[f].at \in WritingStates
               PROVE  call'[f].profile # call'[g].profile
    BY DEF OneMaker
  <2>1. CASE g = h
    BY <2>1, <1>a DEF WritingStates
  <2>2. CASE f = h
    BY <2>2, <1>a
  <2>3. CASE g # h /\ f # h
    BY <2>3, <1>a DEF OneMaker
  <2>4. QED
    BY <2>1, <2>2, <2>3
<1>3. CleanAlone'
  BY <1>a DEF CleanAlone
<1>4. CleanTrue'
  BY <1>a DEF CleanTrue, CleaningStates
<1>5. QED
  BY <1>1, <1>2, <1>3, <1>4

\* A step of somebody who cleans up, or begins to, with nobody making or deleting.
LEMMA CleanCleans ==
    ASSUME Typed, CleanInv, NEW h \in Process, NEW state, Goto(h, state),
           \A g \in Process : g # h => call[g].at \notin WritingStates \cup CleaningStates,
           state.at \notin WritingStates,
           state.at \in {"listed", "relisted"} => state.disk = OnDisk',
           state.at = "relisted" => state.orphaned = OnDisk' \ rows',
           state.at = "cleaning" =>
               /\ state.orphaned = (OnDisk' \ rows') \ state.failed
               /\ state.missing = (rows' \ OnDisk') \ state.failed
    PROVE  CleanInv'
<1> USE DEF CleanInv
<1>a. /\ call'[h] = state
      /\ \A g \in Process : g # h => call'[g] = call[g]
  BY DEF Typed, Goto
<1>b. \A g \in Process : call'[g].at \notin WritingStates
  BY <1>a
<1>1. NewOnes' /\ OneMaker'
  BY <1>b DEF NewOnes, OneMaker, WritingStates
<1>2. CleanAlone'
  BY <1>a, <1>b DEF CleanAlone
<1>3. CleanTrue'
  BY <1>a DEF CleanTrue, CleaningStates
<1>4. QED
  BY <1>1, <1>2, <1>3

LEMMA WriterAlone ==
    ASSUME Typed, CleanInv, NEW h \in Process, call[h].at \in WritingStates
    PROVE  /\ call[h].profile \in minted /\ call[h].profile \in Profile
           /\ \A g \in Process : call[g].at \notin CleaningStates
           /\ \A g \in Process : g # h /\ call[g].at \in MakingStates =>
                call[g].profile # call[h].profile
           /\ call[h].at \in MakingStates =>
                /\ call[h].profile \notin rows /\ dir[call[h].profile] # "none"
                /\ \A g \in Process : g # h /\ call[g].at \in WritingStates =>
                     call[g].profile # call[h].profile
<1> USE DEF CleanInv
<1>1. call[h].profile \in minted /\ minted \subseteq Profile
  BY DEF Typed, DiskTyped, KnownTo, WritingStates, MakingStates
<1>2. \A g \in Process : call[g].at \notin CleaningStates
  BY DEF CleanAlone, CleaningStates, WritingStates, MakingStates
<1>3. QED
  BY <1>1, <1>2 DEF OneMaker, NewOnes, WritingStates

\* Nobody writes under an id that has not been drawn.
LEMMA NewIsNobodys ==
    ASSUME Typed, NEW p, p \notin minted, NEW g \in Process, call[g].at \in WritingStates
    PROVE  call[g].profile # p
BY DEF Typed, KnownTo, WritingStates, MakingStates

LEMMA CleanStep ==
    ASSUME "cleanup" \in Apart, Typed, CleanInv, [Next]_vars
    PROVE  CleanInv'
<1> USE DEF CleanInv
<1>a. /\ call \in [Process -> Call] /\ dir \in [Profile -> Directory]
      /\ rows \subseteq minted /\ minted \subseteq Profile
  BY DEF Typed, DiskTyped
<1>b. ASSUME NEW h \in Process PROVE call[h] \in Call
  BY <1>a
<1>c. ASSUME NEW h \in Process, NEW state, Goto(h, state)
      PROVE  call'[h] = state /\ \A g \in Process : g # h => call'[g] = call[g]
  BY <1>c, <1>a DEF Goto
<1>d. ASSUME NEW p \in Profile, NEW content, Files(p, content)
      PROVE  dir'[p] = content /\ \A q \in Profile : q # p => dir'[q] = dir[q]
  BY <1>d, <1>a DEF Files
<1>1. ASSUME NEW h \in Process, NEW p \in Profile, CreateMakes(h, p) \/ ImportStarts(h, p)
      PROVE  CleanInv'
  <2>1. PICK state : /\ Goto(h, state) /\ state.at \in {"creating", "extracting"}
                     /\ state.profile = p
    BY <1>1 DEF CreateMakes, ImportStarts
  <2>2. \A g \in Process : call[g].at \notin CleaningStates
    BY <1>1, NobodyCleans DEF CreateMakes, ImportStarts
  <2>3. PICK content \in {"empty", "part"} : Files(p, content)
    BY <1>1 DEF CreateMakes, ImportStarts
  <2>4. p \notin minted /\ UNCHANGED rows
    BY <1>1 DEF CreateMakes, ImportStarts
  <2>5. \A g \in Process : call[g].at \in WritingStates => call[g].profile # p
    BY <2>4, NewIsNobodys
  <2>6. QED
    BY <2>1, <2>2, <2>3, <2>4, <2>5, <1>a, <1>d, CleanWrites
       DEF MakingStates, WritingStates, CleaningStates
<1>2. ASSUME NEW h \in Process, NEW p \in Profile, NEW q \in Profile, CloneMakes(h, p, q)
      PROVE  CleanInv'
  <2>1. PICK state : Goto(h, state) /\ state.at = "cloning" /\ state.profile = q
    BY <1>2 DEF CloneMakes
  <2>2. \A g \in Process : call[g].at \notin CleaningStates
    BY <1>2, NobodyCleans DEF CloneMakes
  <2>3. Files(q, "empty") /\ q \notin minted /\ UNCHANGED rows
    BY <1>2 DEF CloneMakes
  <2>4. \A g \in Process : call[g].at \in WritingStates => call[g].profile # q
    BY <2>3, NewIsNobodys
  <2>5. QED
    BY <2>1, <2>2, <2>3, <2>4, <1>a, <1>d, CleanWrites
       DEF MakingStates, WritingStates, CleaningStates
<1>3. ASSUME NEW h \in Process, NEW p \in Profile, DeleteReads(h, p) PROVE CleanInv'
  <2> DEFINE state == [at |-> "deleting", profile |-> p]
  <2>1. Goto(h, state) /\ p \in rows /\ UNCHANGED <<rows, dir>>
    BY <1>3 DEF DeleteReads
  <2>2. \A g \in Process : call[g].at \notin CleaningStates
    BY <1>3, NobodyCleans DEF DeleteReads
  <2>3. \A g \in Process : call[g].at \in MakingStates => call[g].profile # p
    BY <2>1 DEF NewOnes
  <2>4. state.at = "deleting" /\ state.profile = p
    OBVIOUS
  <2> HIDE DEF state
  <2>5. QED
    BY <2>1, <2>2, <2>3, <2>4, CleanWrites DEF MakingStates, WritingStates, CleaningStates
<1>4. ASSUME NEW h \in Process, CloneCopies(h) \/ ImportExtracts(h) PROVE CleanInv'
  <2> DEFINE p == call[h].profile
  <2>1. call[h].at \in MakingStates /\ call[h].at \in WritingStates
    BY <1>4 DEF CloneCopies, ImportExtracts, MakingStates, WritingStates
  <2>2. PICK state : Goto(h, state) /\ state.at \in {"cloned", "extracted"} /\ state.profile = p
    BY <1>4, <1>b DEF CloneCopies, ImportExtracts, Call, Idle, Down
  <2>3. PICK content : Files(p, content) /\ content # "none"
    BY <1>4 DEF CloneCopies, ImportExtracts
  <2>4. UNCHANGED rows
    BY <1>4 DEF CloneCopies, ImportExtracts
  <2>5. p \in Profile /\ dir'[p] # "none" /\ \A q \in Profile : q # p => dir'[q] = dir[q]
    BY <2>1, <2>3, <1>d, WriterAlone
  <2>6. /\ \A g \in Process : call[g].at \notin CleaningStates
        /\ \A g \in Process : g # h /\ call[g].at \in WritingStates => call[g].profile # p
        /\ p \notin rows
    BY <2>1, WriterAlone
  <2> HIDE DEF p
  <2>7. QED
    BY <2>2, <2>4, <2>5, <2>6, CleanWrites DEF MakingStates, WritingStates, CleaningStates
<1>5. ASSUME NEW h \in Process, SavesRow(h) \/ DeletesRow(h) PROVE CleanInv'
  <2> DEFINE p == call[h].profile
  <2>1. call[h].at \in WritingStates
    BY <1>5 DEF SavesRow, DeletesRow, MakingStates, WritingStates
  <2>2. Goto(h, Idle) /\ UNCHANGED dir /\ \A q \in Profile : q # p => (q \in rows' <=> q \in rows)
    BY <1>5 DEF SavesRow, DeletesRow
  <2>3. /\ p \in Profile
        /\ \A g \in Process : call[g].at \notin CleaningStates
        /\ \A g \in Process : g # h /\ call[g].at \in MakingStates => call[g].profile # p
    BY <2>1, WriterAlone
  <2>4. Idle.at \notin WritingStates \cup CleaningStates
    BY DEF Idle, MakingStates, WritingStates, CleaningStates
  <2> HIDE DEF p
  <2>5. QED
    BY <2>2, <2>3, <2>4, CleanWrites DEF WritingStates
<1>6. ASSUME NEW h \in Process, ImportRefused(h) \/ DeleteRaises(h) \/ DeleteRemoves(h)
      PROVE  CleanInv'
  <2> DEFINE p == call[h].profile
  <2>1. call[h].at \in WritingStates
    BY <1>6 DEF ImportRefused, DeleteRaises, DeleteRemoves, MakingStates, WritingStates
  <2>2. PICK state : /\ Goto(h, state) /\ state.at \notin MakingStates \cup CleaningStates
                     /\ state.at \in WritingStates => state.profile = p
    BY <1>6, <1>b DEF ImportRefused, DeleteRaises, DeleteRemoves, MakingStates, WritingStates,
                      CleaningStates, Call, Idle, Down
  <2>3. /\ p \in Profile
        /\ \A g \in Process : call[g].at \notin CleaningStates
        /\ \A g \in Process : g # h /\ call[g].at \in MakingStates => call[g].profile # p
    BY <2>1, WriterAlone
  <2>4. UNCHANGED rows /\ \A q \in Profile : q # p => dir'[q] = dir[q]
    BY <1>6, <2>3, <1>d DEF ImportRefused, DeleteRaises, DeleteRemoves
  <2> HIDE DEF p
  <2>5. QED
    BY <2>2, <2>3, <2>4, CleanWrites
<1>7. ASSUME NEW h \in Process, CleanupLists(h) PROVE CleanInv'
  <2> DEFINE state == [at |-> "listed", disk |-> OnDisk]
  <2>1. Goto(h, state) /\ UNCHANGED <<rows, dir>> /\ MayClean
    BY <1>7 DEF CleanupLists
  <2>2. \A g \in Process : call[g].at \notin WritingStates \cup CleaningStates
    BY <2>1 DEF MayClean, Cleaning, Writing, WritingStates, MakingStates, CleaningStates
  <2>3. OnDisk' = OnDisk
    BY <2>1 DEF OnDisk
  <2>4. state.at = "listed" /\ state.disk = OnDisk
    OBVIOUS
  <2> HIDE DEF state
  <2>5. QED
    BY <2>1, <2>2, <2>3, <2>4, CleanCleans DEF WritingStates, MakingStates
<1>e. ASSUME NEW h \in Process, call[h].at \in CleaningStates
      PROVE  \A g \in Process : g # h => call[g].at \notin WritingStates \cup CleaningStates
  BY <1>e DEF CleanAlone
<1>8. ASSUME NEW h \in Process, CleanupFindsOrphans(h) PROVE CleanInv'
  <2> DEFINE orphaned == call[h].disk \ rows
             state == [at |-> "relisted", orphaned |-> orphaned, disk |-> OnDisk]
  <2>1. call[h].at = "listed" /\ call[h].disk = OnDisk
    BY <1>8 DEF CleanupFindsOrphans, CleanTrue
  <2>2. Goto(h, state) /\ UNCHANGED <<rows, dir>>
    BY <1>8, <2>1 DEF CleanupFindsOrphans
  <2>3. OnDisk' = OnDisk /\ state.at = "relisted" /\ state.disk = OnDisk
        /\ state.orphaned = OnDisk \ rows
    BY <2>1, <2>2 DEF OnDisk
  <2>4. \A g \in Process : g # h => call[g].at \notin WritingStates \cup CleaningStates
    BY <2>1, <1>e DEF CleaningStates
  <2> HIDE DEF state
  <2>5. QED
    BY <2>2, <2>3, <2>4, CleanCleans DEF WritingStates, MakingStates
<1>9. ASSUME NEW h \in Process, CleanupFindsMissing(h) PROVE CleanInv'
  <2> DEFINE state == [at |-> "cleaning", orphaned |-> call[h].orphaned,
                      missing |-> rows \ call[h].disk, failed |-> {}]
  <2>1. call[h].at = "relisted" /\ call[h].disk = OnDisk /\ call[h].orphaned = OnDisk \ rows
    BY <1>9 DEF CleanupFindsMissing, CleanTrue
  <2>2. Goto(h, state) /\ UNCHANGED <<rows, dir>>
    BY <1>9 DEF CleanupFindsMissing
  <2>3. OnDisk' = OnDisk /\ state.at = "cleaning" /\ state.missing = rows \ OnDisk
        /\ state.orphaned = OnDisk \ rows /\ state.failed = {}
    BY <2>1, <2>2 DEF OnDisk
  <2>4. \A g \in Process : g # h => call[g].at \notin WritingStates \cup CleaningStates
    BY <2>1, <1>e DEF CleaningStates
  <2> HIDE DEF state
  <2>5. QED
    BY <2>2, <2>3, <2>4, CleanCleans DEF WritingStates, MakingStates
<1>10. ASSUME NEW h \in Process, NEW p \in Profile,
              \/ CleanupRemoves(h, p) \/ CleanupCannotRemove(h, p)
              \/ CleanupMakes(h, p) \/ CleanupCannotMake(h, p)
       PROVE  CleanInv'
  <2>1. call[h].at = "cleaning" /\ UNCHANGED rows
    BY <1>10 DEF CleanupRemoves, CleanupCannotRemove, CleanupMakes, CleanupCannotMake
  <2>2. \A g \in Process : g # h => call[g].at \notin WritingStates \cup CleaningStates
    BY <2>1, <1>e DEF CleaningStates
  <2>3. /\ call[h].orphaned = (OnDisk \ rows) \ call[h].failed
        /\ call[h].missing = (rows \ OnDisk) \ call[h].failed
    BY <2>1 DEF CleanTrue
  <2>4. ASSUME NEW state, Goto(h, state), state.at = "cleaning",
               state.orphaned = (OnDisk' \ rows) \ state.failed,
               state.missing = (rows \ OnDisk') \ state.failed
        PROVE  CleanInv'
    BY <2>1, <2>2, <2>4, CleanCleans DEF WritingStates, MakingStates
  <2>5. CASE CleanupRemoves(h, p)
    <3> DEFINE state == [call[h] EXCEPT !.orphaned = @ \ {p}]
    <3>1. Goto(h, state) /\ Files(p, "none") /\ p \in call[h].orphaned
      BY <2>5 DEF CleanupRemoves
    <3>2. state.at = "cleaning" /\ state.orphaned = call[h].orphaned \ {p}
          /\ state.missing = call[h].missing /\ state.failed = call[h].failed
      BY <2>1, <1>b DEF Call, Idle, Down
    <3>3. OnDisk' = OnDisk \ {p}
      BY <3>1, <1>d DEF OnDisk
    <3> HIDE DEF state
    <3>4. QED
      BY <2>3, <2>4, <3>1, <3>2, <3>3
  <2>6. CASE CleanupCannotRemove(h, p)
    <3> DEFINE state == [call[h] EXCEPT !.orphaned = @ \ {p}, !.failed = @ \cup {p}]
    <3>1. Goto(h, state) /\ p \in call[h].orphaned
      BY <2>6 DEF CleanupCannotRemove
    <3>2. state.at = "cleaning" /\ state.orphaned = call[h].orphaned \ {p}
          /\ state.missing = call[h].missing /\ state.failed = call[h].failed \cup {p}
      BY <2>1, <1>b DEF Call, Idle, Down
    <3>3. PICK content : Files(p, content) /\ (content = "none" <=> dir[p] = "none")
      BY <2>6 DEF CleanupCannotRemove
    <3>4. OnDisk' = OnDisk
      BY <3>3, <1>d DEF OnDisk
    <3>5. p \notin rows
      BY <3>1, <2>3
    <3> HIDE DEF state
    <3>6. QED
      BY <2>3, <2>4, <3>1, <3>2, <3>4, <3>5
  <2>7. CASE CleanupMakes(h, p)
    <3> DEFINE state == [call[h] EXCEPT !.missing = @ \ {p}]
    <3>1. /\ Goto(h, state) /\ p \in call[h].missing
          /\ Files(p, IF dir[p] = "none" THEN "empty" ELSE dir[p])
      BY <2>7 DEF CleanupMakes
    <3>2. state.at = "cleaning" /\ state.missing = call[h].missing \ {p}
          /\ state.orphaned = call[h].orphaned /\ state.failed = call[h].failed
      BY <2>1, <1>b DEF Call, Idle, Down
    <3>3. OnDisk' = OnDisk \cup {p}
      BY <3>1, <1>d DEF OnDisk
    <3> HIDE DEF state
    <3>4. QED
      BY <2>3, <2>4, <3>1, <3>2, <3>3
  <2>8. CASE CleanupCannotMake(h, p)
    <3> DEFINE state == [call[h] EXCEPT !.missing = @ \ {p}, !.failed = @ \cup {p}]
    <3>1. Goto(h, state) /\ p \in call[h].missing /\ UNCHANGED dir
      BY <2>8 DEF CleanupCannotMake
    <3>2. state.at = "cleaning" /\ state.missing = call[h].missing \ {p}
          /\ state.orphaned = call[h].orphaned /\ state.failed = call[h].failed \cup {p}
      BY <2>1, <1>b DEF Call, Idle, Down
    <3>3. OnDisk' = OnDisk
      BY <3>1 DEF OnDisk
    <3> HIDE DEF state
    <3>4. QED
      BY <2>3, <2>4, <3>1, <3>2, <3>3
  <2>9. QED
    BY <1>10, <2>5, <2>6, <2>7, <2>8
<1>11. ASSUME NEW h \in Process, NEW p \in Profile, Launch(h, p) PROVE CleanInv'
  <2>1. ASSUME NEW g \in Process
        PROVE  /\ call'[g].at = call[g].at
               /\ call[g].at \in WritingStates => call'[g].profile = call[g].profile
    <3>1. CASE Copies(g, p)
      <4>1. call'[g] = [call[g] EXCEPT !.torn = TRUE]
        BY <1>11, <3>1 DEF Launch
      <4>2. call[g].at \in {"cloning", "copying"}
        BY <3>1 DEF Copies
      <4>3. QED
        BY <4>1, <4>2, <1>b DEF Call, Idle, Down, WritingStates, MakingStates
    <3>2. CASE ~Copies(g, p)
      BY <1>11, <3>2 DEF Launch
    <3>3. QED
      BY <3>1, <3>2
  <2>2. \A g \in Process : call[g].at \notin CleaningStates
    BY <1>11, NobodyCleans DEF Launch
  <2>3. /\ UNCHANGED rows /\ p \in rows
        /\ dir'[p] = "full" /\ \A q \in Profile : q # p => dir'[q] = dir[q]
    BY <1>11, <1>d DEF Launch
  <2>4. \A g \in Process : call[g].at \in WritingStates => call[g].profile \in Profile
    BY WriterAlone
  <2>5. NewOnes'
    BY <2>1, <2>3, <2>4 DEF NewOnes, WritingStates
  <2>6. OneMaker'
    BY <2>1 DEF OneMaker, WritingStates
  <2>7. CleanAlone' /\ CleanTrue'
    BY <2>1, <2>2 DEF CleanAlone, CleanTrue, CleaningStates
  <2>8. QED
    BY <2>5, <2>6, <2>7
<1>12. ASSUME NEW h \in Process,
              \/ SaveFails(h) \/ ExportCopies(h) \/ ExportEnds(h) \/ CleanupEnds(h) \/ Crash(h)
              \/ Restart(h) \/ \E p \in Profile : ExportChecks(h, p)
       PROVE  CleanInv'
  <2>1. PICK state : Goto(h, state) /\ state.at \in {"idle", "down", "copying", "sending"}
    <3>1. CASE ExportCopies(h)
      <4>1. [call[h] EXCEPT !.at = "sending"].at = "sending"
        BY <3>1, <1>b DEF ExportCopies, Call, Idle, Down
      <4>2. QED
        BY <3>1, <4>1 DEF ExportCopies
    <3>2. CASE \E p \in Profile : ExportChecks(h, p)
      <4>1. PICK p \in Profile : ExportChecks(h, p)
        BY <3>2
      <4>2. Goto(h, [at |-> "copying", source |-> p, torn |-> InUse(p)])
        BY <4>1 DEF ExportChecks
      <4>3. QED
        BY <4>2
    <3>3. CASE Goto(h, Idle) \/ Goto(h, Down)
      BY <3>3 DEF Idle, Down
    <3>4. QED
      BY <1>12, <3>1, <3>2, <3>3 DEF SaveFails, ExportEnds, CleanupEnds, Crash, Restart
  <2>2. UNCHANGED <<rows, dir>>
    BY <1>12 DEF SaveFails, ExportCopies, ExportEnds, CleanupEnds, Crash, Restart, ExportChecks
  <2>3. \A g \in Process : call'[g] = call[g] \/ call'[g] = state
    BY <2>1, <1>c
  <2>4. QED
    BY <2>1, <2>2, <2>3, CleanQuiet DEF WritingStates, MakingStates, CleaningStates
<1>13. ASSUME NEW p \in Profile, Started(p) \/ Closes(p) \/ BrowserGone(p) PROVE CleanInv'
  BY <1>13, CleanQuiet DEF Started, Closes, BrowserGone
<1>14. CASE UNCHANGED vars
  BY <1>14, CleanQuiet DEF vars
<1>15. QED
  BY <1>1, <1>2, <1>3, <1>4, <1>5, <1>6, <1>7, <1>8, <1>9, <1>10, <1>11, <1>12, <1>13, <1>14 DEF Next

LEMMA AlwaysClean ==
    ASSUME "cleanup" \in Apart
    PROVE  Spec => []CleanInv
<1>1. Init => CleanInv
  BY CleanInit
<1>2. Typed /\ CleanInv /\ [Next]_vars => CleanInv'
  BY CleanStep
<1>3. QED
  BY <1>1, <1>2, AlwaysTyped, PTL DEF Spec

-----------------------------------------------------------------------------
\* A clean-up that overlaps nothing goes through with everything failures and deaths
\* had left behind, and only what it could not remove or make still differs
\* (auto_cleanup, cleanup_orphaned_directories, create_missing_directories).
THEOREM CleanupsSettle == "cleanup" \in Apart => (Spec => CleanupSettles)
<1> SUFFICES ASSUME "cleanup" \in Apart PROVE Spec => CleanupSettles
  OBVIOUS
<1>1. ASSUME Typed, CleanInv, [Next]_vars, NEW h \in Process, Cleaning(h), call'[h] = Idle
      PROVE  /\ call[h].at = "cleaning"
             /\ OnDisk \ call[h].failed = rows \ call[h].failed
  <2>1. call[h].at \in CleaningStates /\ call[h] # Idle /\ call[h] # Down
    BY <1>1 DEF Cleaning, CleaningStates, Idle, Down
  <2>2. CleanupFindsOrphans(h) \/ CleanupEnds(h)
    BY <1>1, <2>1, WhoEnds DEF SavesRow, SaveFails, ImportRefused, DeleteRaises, DeletesRow,
                               ExportEnds, Restart, CleaningStates
  <2>3. ~CleanupFindsOrphans(h)
    <3> SUFFICES ASSUME CleanupFindsOrphans(h) PROVE FALSE
      OBVIOUS
    <3>1. call[h].at = "listed" /\ call[h].disk = OnDisk
      BY <1>1 DEF CleanupFindsOrphans, CleanInv, CleanTrue
    <3>2. Goto(h, [at |-> "relisted", orphaned |-> call[h].disk \ rows, disk |-> OnDisk])
      BY <3>1 DEF CleanupFindsOrphans
    <3>3. call'[h].at = "relisted"
      BY <1>1, <3>2 DEF Goto, Typed
    <3>4. QED
      BY <1>1, <3>3 DEF Idle
  <2>4. /\ call[h].at = "cleaning"
        /\ (OnDisk \ rows) \ call[h].failed = {}
        /\ (rows \ OnDisk) \ call[h].failed = {}
    BY <1>1, <2>2, <2>3 DEF CleanupEnds, CleanInv, CleanTrue
  <2>5. QED
    BY <2>4
<1>2. Typed /\ CleanInv /\ [Next]_vars =>
        [\A h \in Process :
           Cleaning(h) /\ call'[h] = Idle =>
             /\ call[h].at = "cleaning"
             /\ OnDisk \ call[h].failed = rows \ call[h].failed]_vars
  BY <1>1
<1>3. QED
  BY <1>2, AlwaysTyped, AlwaysClean, PTL DEF Spec, CleanupSettles

\* As long as nobody makes, deletes or launches profiles during a clean-up, only the
\* deletion of a profile takes files from it, and no profile is listed before its
\* directory is there (create_profile, clone_profile, import_profile,
\* cleanup_orphaned_profiles).
THEOREM OnlyDeletionsTakeFiles == "cleanup" \in Apart => (Spec => OnlyDeletionTakesFiles)
<1> SUFFICES ASSUME "cleanup" \in Apart PROVE Spec => OnlyDeletionTakesFiles
  OBVIOUS
<1> DEFINE Keeps(p) == p \in rows /\ ~Lost(dir[p]) /\ Lost(dir'[p]) =>
                         \E h \in Process : call[h].at = "deleting" /\ call[h].profile = p
           Lists(p) == p \in rows' \ rows => dir'[p] # "none"
<1>1. ASSUME Typed, CleanInv, [Next]_vars, NEW p \in Profile PROVE Keeps(p) /\ Lists(p)
  <2>a. dir \in [Profile -> Directory] /\ rows \subseteq minted /\ minted \subseteq Profile
    BY <1>1 DEF Typed, DiskTyped
  <2>b. ASSUME NEW q \in Profile, NEW content, Files(q, content), q # p PROVE dir'[p] = dir[p]
    BY <2>b, <2>a DEF Files
  <2>c. ASSUME NEW content, Files(p, content) PROVE dir'[p] = content
    BY <2>c, <2>a DEF Files
  <2>d. ASSUME UNCHANGED rows PROVE Lists(p)
    BY <2>d
  <2>e. ASSUME UNCHANGED dir PROVE Keeps(p)
    BY <2>e
  <2>f. ASSUME NEW q \in Profile, q \notin rows, NEW content, Files(q, content) PROVE Keeps(p)
    BY <2>f, <2>b
  <2>g. ASSUME NEW h \in Process, call[h].at \in WritingStates
        PROVE  call[h].profile \in Profile /\ (call[h].at \in MakingStates => call[h].profile \notin rows)
    BY <2>g, <1>1, WriterAlone
  <2>1. ASSUME NEW h \in Process, NEW q \in Profile, CreateMakes(h, q) \/ ImportStarts(h, q)
        PROVE  Keeps(p) /\ Lists(p)
    BY <2>1, <2>a, <2>d, <2>f DEF CreateMakes, ImportStarts
  <2>2. ASSUME NEW h \in Process, NEW x \in Profile, NEW q \in Profile, CloneMakes(h, x, q)
        PROVE  Keeps(p) /\ Lists(p)
    BY <2>2, <2>a, <2>d, <2>f DEF CloneMakes
  <2>3. ASSUME NEW h \in Process, CloneCopies(h) \/ ImportExtracts(h) \/ ImportRefused(h)
        PROVE  Keeps(p) /\ Lists(p)
    <3>1. call[h].at \in MakingStates /\ call[h].at \in WritingStates
      BY <2>3 DEF CloneCopies, ImportExtracts, ImportRefused, MakingStates, WritingStates
    <3>2. \E content : Files(call[h].profile, content)
      BY <2>3 DEF CloneCopies, ImportExtracts, ImportRefused
    <3>3. UNCHANGED rows
      BY <2>3 DEF CloneCopies, ImportExtracts, ImportRefused
    <3>4. QED
      BY <3>1, <3>2, <3>3, <2>d, <2>f, <2>g
  <2>4. ASSUME NEW h \in Process, SavesRow(h) PROVE Keeps(p) /\ Lists(p)
    <3>1. call[h].at \in MakingStates
      BY <2>4 DEF SavesRow, MakingStates
    <3>2. dir[call[h].profile] # "none"
      BY <1>1, <3>1 DEF CleanInv, NewOnes
    <3>3. QED
      BY <2>4, <3>2, <2>e DEF SavesRow
  <2>5. ASSUME NEW h \in Process, DeleteRemoves(h) \/ DeleteRaises(h) PROVE Keeps(p) /\ Lists(p)
    <3>1. call[h].at = "deleting" /\ UNCHANGED rows
      BY <2>5 DEF DeleteRemoves, DeleteRaises
    <3>2. call[h].profile \in Profile
      BY <3>1, <2>g DEF WritingStates
    <3>3. call[h].profile # p => dir'[p] = dir[p]
      BY <2>5, <3>2, <2>b DEF DeleteRemoves, DeleteRaises
    <3>4. QED
      BY <3>1, <3>3, <2>d
  <2>6. ASSUME NEW h \in Process, DeletesRow(h) PROVE Keeps(p) /\ Lists(p)
    BY <2>6, <2>e DEF DeletesRow
  <2>7. ASSUME NEW h \in Process, NEW q \in Profile, CleanupRemoves(h, q) \/ CleanupCannotRemove(h, q)
        PROVE  Keeps(p) /\ Lists(p)
    <3>1. call[h].at = "cleaning" /\ q \in call[h].orphaned /\ UNCHANGED rows
      BY <2>7 DEF CleanupRemoves, CleanupCannotRemove
    <3>2. q \notin rows
      BY <3>1, <1>1 DEF CleanInv, CleanTrue
    <3>3. \E content : Files(q, content)
      BY <2>7 DEF CleanupRemoves, CleanupCannotRemove
    <3>4. QED
      BY <3>1, <3>2, <3>3, <2>d, <2>f
  <2>8. ASSUME NEW h \in Process, NEW q \in Profile, CleanupMakes(h, q) PROVE Keeps(p) /\ Lists(p)
    <3>1. Files(q, IF dir[q] = "none" THEN "empty" ELSE dir[q]) /\ UNCHANGED rows
      BY <2>8 DEF CleanupMakes
    <3>2. dir[p] # "none" => dir'[p] = dir[p]
      BY <3>1, <2>b, <2>c
    <3>3. QED
      BY <3>1, <3>2, <2>d DEF Lost
  <2>9. ASSUME NEW h \in Process, NEW q \in Profile, Launch(h, q) PROVE Keeps(p) /\ Lists(p)
    <3>1. Files(q, "full") /\ UNCHANGED rows
      BY <2>9 DEF Launch
    <3>2. dir'[p] \in {dir[p], "full"}
      BY <3>1, <2>b, <2>c
    <3>3. QED
      BY <3>1, <3>2, <2>d DEF Lost
  <2>10. ASSUME NEW h \in Process,
                \/ SaveFails(h) \/ ExportCopies(h) \/ ExportEnds(h) \/ CleanupEnds(h) \/ Crash(h)
                \/ Restart(h) \/ CleanupLists(h) \/ CleanupFindsOrphans(h) \/ CleanupFindsMissing(h)
                \/ \E q \in Profile : ExportChecks(h, q) \/ DeleteReads(h, q) \/ CleanupCannotMake(h, q)
         PROVE  Keeps(p) /\ Lists(p)
    <3>1. UNCHANGED <<rows, dir>>
      BY <2>10 DEF SaveFails, ExportCopies, ExportEnds, CleanupEnds, Crash, Restart, CleanupLists,
                   CleanupFindsOrphans, CleanupFindsMissing, ExportChecks, DeleteReads, CleanupCannotMake
    <3>2. QED
      BY <3>1, <2>d, <2>e
  <2>11. ASSUME NEW q \in Profile, Started(q) \/ Closes(q) \/ BrowserGone(q)
         PROVE  Keeps(p) /\ Lists(p)
    BY <2>11, <2>d, <2>e DEF Started, Closes, BrowserGone
  <2>12. CASE UNCHANGED vars
    BY <2>12, <2>d, <2>e DEF vars
  <2> HIDE DEF Keeps, Lists
  <2>13. QED
    BY <1>1, <2>1, <2>2, <2>3, <2>4, <2>5, <2>6, <2>7, <2>8, <2>9, <2>10, <2>11, <2>12 DEF Next
<1>2. Typed /\ CleanInv /\ [Next]_vars =>
        [\A p \in Profile :
           /\ p \in rows /\ ~Lost(dir[p]) /\ Lost(dir'[p]) =>
                \E h \in Process : call[h].at = "deleting" /\ call[h].profile = p
           /\ p \in rows' \ rows => dir'[p] # "none"]_vars
  BY <1>1
<1>3. QED
  BY <1>2, AlwaysTyped, AlwaysClean, PTL DEF Spec, OnlyDeletionTakesFiles
=============================================================================
