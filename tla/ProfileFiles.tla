---------------------------- MODULE ProfileFiles ----------------------------
(***************************************************************************)
(* Profiles as a row in the database and a directory on disk, which no     *)
(* transaction joins: create, clone, import, export, delete and the        *)
(* clean-up write or read the two one after the other, each in its own     *)
(* order, while other processes do the same, browsers write into the       *)
(* directories, and any process may die in between.                        *)
(*                                                                         *)
(* File work never suspends, so one server does one such operation at a    *)
(* time; a launch and a close do suspend.  That a profile has one driver   *)
(* at most is what leases ensure; here it is taken from ExclusiveDriver,   *)
(* which Fleet implements, except for a browser that a shutdown leaves     *)
(* behind half closed: such a browser is not modelled here.                *)
(***************************************************************************)
EXTENDS FiniteSets

CONSTANTS
    Process,
    Profile,      \* profile ids: eight random characters, never drawn twice
    None,
    Apart         \* the operations nobody lets overlap with what they do not look out for

ASSUME NoneAssumption == None \notin Process
ASSUME ApartAssumption == Apart \subseteq {"export", "cleanup"}

VARIABLES
    rows,         \* profiles listed in the database
    minted,       \* ids drawn so far
    dir,          \* what is in each profile's directory
    driver,       \* who holds a profile's lease
    stage,        \* how far its browser is
    call          \* the operation each process is in the middle of

vars == <<rows, minted, dir, driver, stage, call>>

Driving == INSTANCE ExclusiveDriver WITH Holder <- Process, NoOne <- None

\* A directory that is not there, new and empty, with some of its files, or all.
Directory == {"none", "empty", "part", "full"}

\* "lost": the holder has died, and its lease has not run out yet.
Stage == {"none", "starting", "open", "closing", "lost"}

Idle == [at |-> "idle"]

Down == [at |-> "down"]

\* source: what a copy is read from; torn: a browser wrote there meanwhile; failed:
\* the directories a clean-up could not remove or make, which it counts and logs.
Call ==
    {Idle, Down}
    \cup [at : {"creating", "extracting", "extracted", "deleting", "removed"}, profile : Profile]
    \cup [at : {"cloning", "cloned"}, profile : Profile, source : Profile, torn : BOOLEAN]
    \cup [at : {"copying", "sending"}, source : Profile, torn : BOOLEAN]
    \cup [at : {"listed"}, disk : SUBSET Profile]
    \cup [at : {"relisted"}, orphaned : SUBSET Profile, disk : SUBSET Profile]
    \cup [at : {"cleaning"}, orphaned : SUBSET Profile, missing : SUBSET Profile,
          failed : SUBSET Profile]

TypeOK ==
    /\ rows \subseteq minted /\ minted \subseteq Profile
    /\ dir \in [Profile -> Directory]
    /\ \A p \in Profile \ minted : dir[p] = "none"
    /\ driver \in [Profile -> Process \cup {None}]
    /\ stage \in [Profile -> Stage]
    /\ \A p \in Profile : driver[p] = None <=> stage[p] = "none"
    /\ call \in [Process -> Call]

Init ==
    /\ rows = {} /\ minted = {}
    /\ dir = [p \in Profile |-> "none"]
    /\ Driving!Init
    /\ stage = [p \in Profile |-> "none"]
    /\ call = [h \in Process |-> Idle]

-----------------------------------------------------------------------------
Goto(h, state) == call' = [call EXCEPT ![h] = state]

Files(p, content) == dir' = [dir EXCEPT ![p] = content]

OnDisk == {p \in Profile : dir[p] # "none"}

Cleaning(h) == call[h].at \in {"listed", "relisted", "cleaning"}

Writing(h) == call[h].at \in {"creating", "cloning", "cloned", "extracting", "extracted",
                              "deleting", "removed"}

\* Nobody cleans up while somebody adds or deletes profiles or starts a browser, if
\* those are kept apart.
MayWrite == "cleanup" \in Apart => \A h \in Process : ~Cleaning(h)

MayClean ==
    "cleanup" \in Apart =>
        /\ \A h \in Process : ~Cleaning(h) /\ ~Writing(h)
        /\ \A p \in Profile : stage[p] \in {"none", "lost"}

Copies(g, p) == call[g].at \in {"cloning", "copying"} /\ call[g].source = p

\* A browser reads and writes its directory from start() to the end of __aexit__.
InUse(p) == stage[p] \in {"starting", "open", "closing"}

\* Nobody launches a profile that is being exported, and nobody exports one that the
\* same process is starting or closing, if those are kept apart.
MayLaunch(p) ==
    "export" \in Apart => \A g \in Process : call[g].at = "copying" => call[g].source # p

OwnIsQuiet(h, p) == "export" \in Apart => ~(driver[p] = h /\ InUse(p))

-----------------------------------------------------------------------------
\* create_profile makes the directory ...
CreateMakes(h, p) ==
    /\ call[h] = Idle /\ p \notin minted /\ MayWrite
    /\ minted' = minted \cup {p}
    /\ Files(p, "empty")
    /\ Goto(h, [at |-> "creating", profile |-> p])
    /\ UNCHANGED <<rows, driver, stage>>

\* ... then the row; clone_profile and import_profile end alike.
SavesRow(h) ==
    /\ call[h].at \in {"creating", "cloned", "extracted"}
    /\ rows' = rows \cup {call[h].profile}
    /\ Goto(h, Idle)
    /\ UNCHANGED <<minted, dir, driver, stage>>

\* The database refuses the row: create and clone leave the directory behind.
SaveFails(h) ==
    /\ call[h].at \in {"creating", "cloned"}
    /\ Goto(h, Idle)
    /\ UNCHANGED <<rows, minted, dir, driver, stage>>

\* clone_profile reads the source's row and makes the copy's directory, whether or
\* not a browser runs on the source ...
CloneMakes(h, p, q) ==
    /\ call[h] = Idle /\ p \in rows /\ q \notin minted /\ MayWrite
    /\ minted' = minted \cup {q}
    /\ Files(q, "empty")
    /\ Goto(h, [at |-> "cloning", profile |-> q, source |-> p, torn |-> InUse(p)])
    /\ UNCHANGED <<rows, driver, stage>>

\* ... and copies what it finds; a copy that fails half way is only logged.
CloneCopies(h) ==
    /\ call[h].at = "cloning"
    /\ LET p == call[h].source
       IN  \E content \in {dir[p], "part"} :
             Files(call[h].profile, IF dir[p] = "none" THEN "empty" ELSE content)
    /\ Goto(h, [call[h] EXCEPT !.at = "cloned"])
    /\ UNCHANGED <<rows, minted, driver, stage>>

\* import_profile: the archive's files are written into a new directory ...
ImportStarts(h, p) ==
    /\ call[h] = Idle /\ p \notin minted /\ MayWrite
    /\ minted' = minted \cup {p}
    /\ Files(p, "part")
    /\ Goto(h, [at |-> "extracting", profile |-> p])
    /\ UNCHANGED <<rows, driver, stage>>

ImportExtracts(h) ==
    /\ call[h].at = "extracting"
    /\ Files(call[h].profile, "full")
    /\ Goto(h, [call[h] EXCEPT !.at = "extracted"])
    /\ UNCHANGED <<rows, minted, driver, stage>>

\* ... and taken away again if they are too large, unreadable, do not fit on the
\* disk, or the row is refused; what rmtree cannot remove stays, and is not reported.
ImportRefused(h) ==
    /\ call[h].at \in {"extracting", "extracted"}
    /\ \E content \in {"none", "part", dir[call[h].profile]} : Files(call[h].profile, content)
    /\ Goto(h, Idle)
    /\ UNCHANGED <<rows, minted, driver, stage>>

-----------------------------------------------------------------------------
\* delete_profile reads the row, asks nobody about browsers ...
DeleteReads(h, p) ==
    /\ call[h] = Idle /\ p \in rows /\ MayWrite
    /\ Goto(h, [at |-> "deleting", profile |-> p])
    /\ UNCHANGED <<rows, minted, dir, driver, stage>>

\* ... removes the directory ...
DeleteRemoves(h) ==
    /\ call[h].at = "deleting"
    /\ Files(call[h].profile, "none")
    /\ Goto(h, [call[h] EXCEPT !.at = "removed"])
    /\ UNCHANGED <<rows, minted, driver, stage>>

\* ... of which rmtree may fail half way, leaving the row ...
DeleteRaises(h) ==
    /\ call[h].at = "deleting"
    /\ dir[call[h].profile] # "none"
    /\ Files(call[h].profile, "part")
    /\ Goto(h, Idle)
    /\ UNCHANGED <<rows, minted, driver, stage>>

\* ... and deletes the row, which may fail too.
DeletesRow(h) ==
    /\ call[h].at = "removed"
    /\ rows' \in {rows, rows \ {call[h].profile}}
    /\ Goto(h, Idle)
    /\ UNCHANGED <<minted, dir, driver, stage>>

-----------------------------------------------------------------------------
\* Mutant: only this process's browsers are looked at.
ExportChecksAlone(h, p) ==
    /\ call[h] = Idle /\ p \in rows
    /\ ~(driver[p] = h /\ stage[p] = "open")
    /\ OwnIsQuiet(h, p)
    /\ Goto(h, [at |-> "copying", source |-> p, torn |-> InUse(p)])
    /\ UNCHANGED <<rows, minted, dir, driver, stage>>

\* export_profile refuses while the browser is open here or leased elsewhere; one
\* that this process is still starting or closing has no session and our own lease.
ExportChecks(h, p) ==
    /\ call[h] = Idle /\ p \in rows
    /\ ~(driver[p] = h /\ stage[p] = "open")
    /\ driver[p] = None \/ (driver[p] = h /\ stage[p] # "lost")
    /\ OwnIsQuiet(h, p)
    /\ Goto(h, [at |-> "copying", source |-> p, torn |-> InUse(p)])
    /\ UNCHANGED <<rows, minted, dir, driver, stage>>

\* The archive is written and sent; its temporary file goes on every way out.
ExportCopies(h) ==
    /\ call[h].at = "copying"
    /\ Goto(h, [call[h] EXCEPT !.at = "sending"])
    /\ UNCHANGED <<rows, minted, dir, driver, stage>>

ExportEnds(h) ==
    /\ call[h].at \in {"copying", "sending"}
    /\ Goto(h, Idle)
    /\ UNCHANGED <<rows, minted, dir, driver, stage>>

-----------------------------------------------------------------------------
\* The clean-up lists the directories ...
CleanupLists(h) ==
    /\ call[h] = Idle /\ MayClean
    /\ Goto(h, [at |-> "listed", disk |-> OnDisk])
    /\ UNCHANGED <<rows, minted, dir, driver, stage>>

\* Mutant: the clean-up opens an empty database beside the application's.
CleanupFindsOrphansElsewhere(h) ==
    /\ call[h].at = "listed"
    /\ Goto(h, [at |-> "relisted", orphaned |-> call[h].disk, disk |-> OnDisk])
    /\ UNCHANGED <<rows, minted, dir, driver, stage>>

\* ... then the rows: what has none is an orphan, and one that is gone by the time
\* it is looked into ends the clean-up with an error; lists the directories again ...
CleanupFindsOrphans(h) ==
    /\ call[h].at = "listed"
    /\ LET orphaned == call[h].disk \ rows
       IN  Goto(h, IF orphaned \subseteq OnDisk
                     THEN [at |-> "relisted", orphaned |-> orphaned, disk |-> OnDisk] ELSE Idle)
    /\ UNCHANGED <<rows, minted, dir, driver, stage>>

\* ... and the rows again: a profile without a directory is missing one.
CleanupFindsMissing(h) ==
    /\ call[h].at = "relisted"
    /\ Goto(h, [at |-> "cleaning", orphaned |-> call[h].orphaned,
                missing |-> rows \ call[h].disk, failed |-> {}])
    /\ UNCHANGED <<rows, minted, dir, driver, stage>>

\* Then it removes the orphans one by one ...
CleanupRemoves(h, p) ==
    /\ call[h].at = "cleaning" /\ p \in call[h].orphaned
    /\ dir[p] # "none"
    /\ Files(p, "none")
    /\ Goto(h, [call[h] EXCEPT !.orphaned = @ \ {p}])
    /\ UNCHANGED <<rows, minted, driver, stage>>

\* Mutant: the first directory that cannot be removed ends the clean-up.
CleanupCannotRemoveStops(h, p) ==
    /\ call[h].at = "cleaning" /\ p \in call[h].orphaned
    /\ \E content \in {dir[p], "part"} : Files(p, IF dir[p] = "none" THEN "none" ELSE content)
    /\ Goto(h, Idle)
    /\ UNCHANGED <<rows, minted, driver, stage>>

\* ... going on to the next when one, or a part of one, cannot be removed, or is gone ...
CleanupCannotRemove(h, p) ==
    /\ call[h].at = "cleaning" /\ p \in call[h].orphaned
    /\ \E content \in {dir[p], "part"} : Files(p, IF dir[p] = "none" THEN "none" ELSE content)
    /\ Goto(h, [call[h] EXCEPT !.orphaned = @ \ {p}, !.failed = @ \cup {p}])
    /\ UNCHANGED <<rows, minted, driver, stage>>

\* ... makes the missing directories ...
CleanupMakes(h, p) ==
    /\ call[h].at = "cleaning" /\ call[h].orphaned = {} /\ p \in call[h].missing
    /\ Files(p, IF dir[p] = "none" THEN "empty" ELSE dir[p])
    /\ Goto(h, [call[h] EXCEPT !.missing = @ \ {p}])
    /\ UNCHANGED <<rows, minted, driver, stage>>

\* ... going on to the next when one cannot be made ...
CleanupCannotMake(h, p) ==
    /\ call[h].at = "cleaning" /\ call[h].orphaned = {} /\ p \in call[h].missing
    /\ dir[p] = "none"
    /\ Goto(h, [call[h] EXCEPT !.missing = @ \ {p}, !.failed = @ \cup {p}])
    /\ UNCHANGED <<rows, minted, dir, driver, stage>>

\* ... and is done.
CleanupEnds(h) ==
    /\ call[h].at = "cleaning" /\ call[h].orphaned = {} /\ call[h].missing = {}
    /\ Goto(h, Idle)
    /\ UNCHANGED <<rows, minted, dir, driver, stage>>

-----------------------------------------------------------------------------
\* launch_browser takes the lease, and camoufox.start() begins to fill the directory.
Launch(h, p) ==
    /\ call[h] = Idle /\ p \in rows /\ MayWrite /\ MayLaunch(p)
    /\ Driving!Take(p, h)
    /\ stage' = [stage EXCEPT ![p] = "starting"]
    /\ Files(p, "full")
    /\ call' = [g \in Process |-> IF Copies(g, p) THEN [call[g] EXCEPT !.torn = TRUE] ELSE call[g]]
    /\ UNCHANGED <<rows, minted>>

Started(p) ==
    /\ stage[p] = "starting"
    /\ stage' = [stage EXCEPT ![p] = "open"]
    /\ UNCHANGED <<rows, minted, dir, driver, call>>

Closes(p) ==
    /\ stage[p] = "open"
    /\ stage' = [stage EXCEPT ![p] = "closing"]
    /\ UNCHANGED <<rows, minted, dir, driver, call>>

\* Mutant: the session is forgotten and the lease kept.
BrowserGoneLeased(p) ==
    /\ stage[p] \in {"starting", "closing", "lost"}
    /\ stage' = [stage EXCEPT ![p] = "none"]
    /\ UNCHANGED <<rows, minted, dir, driver, call>>

\* The launch failed, the teardown is over, or a dead holder's lease has run out.
BrowserGone(p) ==
    /\ stage[p] \in {"starting", "closing", "lost"}
    /\ stage' = [stage EXCEPT ![p] = "none"]
    /\ Driving!Leave({p})
    /\ UNCHANGED <<rows, minted, dir, call>>

\* A process dies with its browsers; what it had written stays, and its leases.
Crash(h) ==
    /\ call[h] # Down
    /\ stage' = [p \in Profile |-> IF driver[p] = h THEN "lost" ELSE stage[p]]
    /\ Goto(h, Down)
    /\ UNCHANGED <<rows, minted, dir, driver>>

\* It starts again, under a new holder id.
Restart(h) ==
    /\ call[h] = Down
    /\ Goto(h, Idle)
    /\ UNCHANGED <<rows, minted, dir, driver, stage>>

Next ==
    \/ \E h \in Process :
         \/ \E p \in Profile :
              \/ CreateMakes(h, p) \/ ImportStarts(h, p) \/ DeleteReads(h, p)
              \/ ExportChecks(h, p) \/ Launch(h, p)
              \/ CleanupRemoves(h, p) \/ CleanupCannotRemove(h, p)
              \/ CleanupMakes(h, p) \/ CleanupCannotMake(h, p)
              \/ \E q \in Profile : CloneMakes(h, p, q)
         \/ SavesRow(h) \/ SaveFails(h) \/ CloneCopies(h)
         \/ ImportExtracts(h) \/ ImportRefused(h)
         \/ DeleteRemoves(h) \/ DeleteRaises(h) \/ DeletesRow(h)
         \/ ExportCopies(h) \/ ExportEnds(h)
         \/ CleanupLists(h) \/ CleanupFindsOrphans(h) \/ CleanupFindsMissing(h) \/ CleanupEnds(h)
         \/ Crash(h) \/ Restart(h)
    \/ \E p \in Profile : Started(p) \/ Closes(p) \/ BrowserGone(p)

Spec == Init /\ [][Next]_vars
=============================================================================
