# A TLA+ model of the Camoufox profile manager

The profile manager keeps browser profiles ("one identity each") in an SQLite
database, starts a Camoufox browser for a profile on request or on a schedule,
and lets several instances (web UI, command line, other machines on a shared
disk) work on the same database. What can go wrong in it is mostly *order*:
coroutines of one process that suspend in the middle of a launch or a close,
processes that share nothing but one SQLite file, and timers that act on what
they read some time ago. That is what these modules are about.

Paths below are relative to the repository; `core/` and `api/` stand for
`src/camoufox_pm/core/` and `src/camoufox_pm/api/`.

## 1. Inventory

### How the program runs

One process is one asyncio event loop. The storage methods are `async` but never
await anything: a storage call runs to its commit without giving way to another
coroutine of the process. A coroutine gives way only in

* `camoufox.start()` and `camoufox.__aexit__()` (`core/browser_session.py`),
* `fill_what_geoip_would_have` and `proxy_check.check` (network),
* `asyncio.sleep` (heartbeat 30 s, monitor 10 s, scheduler poll 30 s, failed login),
* `await monitor` in `terminate()`.

Other processes interleave at any point between two SQL statements. This decides
the grain of every action below: *one action is the code between two suspension
points* (Fleet, Scheduler), or *between two SQL statements* where other
processes matter (ProfileLease's unlock, ProfileRow).

### Components, their state and operations

| component | state | operations | interacts with |
|---|---|---|---|
| leases (`core/leases.py`, `core/database.py`) | `locked_by`, `lock_expires` in the profile's row | acquire, renew, release, force-release, expiry | sessions, unlock command, profile deletion |
| browser sessions (`core/browser_session.py`, `core/profile_manager.py`, `main.py`) | `active_sessions`, `_starting`, `_exit_tasks`, monitor and heartbeat tasks | launch, close, close event, driver monitor, heartbeat, shutdown | leases, scheduler, API |
| SQLite connection (`core/database.py`) | one connection per process: its open transaction, its snapshot | statement, commit, failure | everything |
| profile row (`core/profile_manager.py`, `core/database.py`, `api/routes/profiles.py`) | settings, proxy, proxy check, pinned machine, `row_version` | edit, rotate, refresh, reconcile, clear geography, pin, check, delete | browser launch, API clients holding forms |
| groups (`api/routes/groups.py`, `core/profile_manager.py`) | `profile_groups`, `group_id` of each profile | create, rename, delete, edit a profile or many into a group | profile row and its version |
| users and sessions (`core/auth.py`, `api/dependencies.py`, `cli.py`) | `users`, `sessions` | login, rehash, logout, the guard of every request, expiry; add, passwd, remove | the command line against a running server |
| profile directories (`core/profile_manager.py`, `core/cleanup.py`, `core/profile_archive.py`) | directories on disk beside the rows | create, clone, import, export, delete, cleanup | profile row, running browsers |
| pinned machine (`core/fingerprint_store.py`, `core/profile_manager.py`) | the `fingerprint` of a profile, the browser installed | preset, first launch, replay, clone, import, refresh, reconcile, rotate | profile row, launches |
| place (`core/proxy_check.py`, `core/models.py`) | timezone, coordinates and WebRTC setting of a profile, the last check's answer | check, edit, clear, spreadsheet, launch | profile row, the network |
| scheduler (`core/scheduler.py`, `api/routes/schedules.py`) | `schedules` table, `_timed_closes`, the pass in progress | reconcile, tick, execute, run now, create, update, delete | sessions, profile deletion |
| Excel, crypto, command line, desktop, API surface, VNC bridge, web UI | none of their own | - | all of the above |

### What is hard, and what correctness means

* **Leases and sessions.** Launches of one profile race in one process and across
  processes; a close is long and a launch fits into it; heartbeats are late;
  processes die; the lease has to cover the browser and nothing else. *Correct:*
  at most one driver of a profile, covered by an unexpired lease from before the
  start to after the end, except for the teardowns that a shutdown leaves behind; no lease
  without a reason; no lease lost to anyone before it expired; what goes wrong is repaired.
* **Profile row.** Read-modify-write from forms, from long-running operations and
  from launches. *Correct:* a version names a content; an edit that sends its
  version reverts nobody; deletion is final; what is not an edit makes nobody stale.
* **Groups.** No foreign key ties `group_id` to the table; a deletion edits the members
  one by one and stops at the first stale one; saving is INSERT OR REPLACE on a
  UNIQUE name. *Correct:* a group never vanishes from under its members; an edit about
  something else moves nobody.
* **Users and sessions.** The command line changes what a server has just read; a
  failed insert leaves a transaction open, and the server reads its snapshot from then on.
  *Correct:* a session has a user; what revokes takes effect.
* **Directories.** A row and a directory, written one after the other, in an order of its own
  for each operation, with processes dying in between. *Correct:* only deletion takes files; an
  archive is not read while it is written; a clean-up settles what is left over, but for what it cannot remove or make.
* **Pinned machine.** Six operations make, copy, renew or replace a machine, from
  settings that may have changed since. *Correct:* one machine per profile; a user agent
  of that machine; a healthy machine is never replaced.
* **Place.** What a page sees comes from the settings, from a lookup or from this
  computer, by rules in two places (`compare`, and what a launch fills in). *Correct:* the two
  agree; a clock left to the exit is the exit's.
* **Scheduler.** A pass works from copies and suspends between them. *Correct:*
  nothing due is left behind or replayed; nothing starves; timed sessions end; what
  was deleted stays deleted; the timer closes only its own sessions; the next run is the first one.

All hazards, with their lines and the properties aimed at them, are in
`PROJECT.json`.

## 2. Modules

```
ProfileLease <-EXTENDS- Fleet <- FleetProperties <- FleetProofs, MCFleet
                                      | INSTANCE (refinement)
                                      v
                                ExclusiveDriver
                                      ^
                                      | INSTANCE (assumed of launches)
                        ProfileFiles -+  <- ProfileFilesProperties <- ProfileFilesProofs, MCProfileFiles

SharedDatabase <- ProfileRow <- ProfileRowProperties <- ProfileRowProofs, MCProfileRow
               <- Groups     <- GroupsProperties     <- GroupsProofs, MCGroups
               <- Accounts   <- AccountsProperties   <- AccountsProofs, MCAccounts

Scheduler, Calendar <- SchedulerProperties     <- SchedulerProofs, MCScheduler
PinnedMachine       <- PinnedMachineProperties <- PinnedMachineProofs, MCPinnedMachine
ProxyPlace          <- ProxyPlaceProperties    <- ProxyPlaceProofs, MCProxyPlace
```

**ProfileLease** is the lease columns. Every operation is one committed UPDATE with
a WHERE clause and so one action with that clause as its guard; `force_release_lease`
is a SELECT and an UPDATE and so two. Time is relative: `left[p]` is the number of
ticks until `lock_expires`, `-1` once it has passed. The code compares that instant
with "now" and nothing else, so counting down loses nothing and needs no bound.

**Fleet** composes it with `BrowserSessionManager` and `launch_browser` of several
processes. `stage[s]` follows one launch call from the acquire to the end of the
teardown; `active` is `active_sessions`, where a later session takes the place of an
earlier one, as in the dictionary; `events` are Playwright close events to come;
`todo` is the rest of the heartbeat's or the shutdown's loop.

A teardown has a stage of its own for each coroutine it runs in, because that decides what follows it: `"closing"`
(a route or the scheduler's timed close, which releases), `"exiting"` (`_handle_exit`, in a task that nobody awaits),
`"draining"` (`close_all`), `"dropping"` (the heartbeat, which does not release). `ShutDown` stands for
`scheduler.stop` and `stop_heartbeat`, whose cancellation reaches a teardown in `__aexit__` (`terminate()`
catches `Exception` only): it becomes `"cut"`, popped and with nobody to end it. `ShutDownReleases` waits for
neither kind and releases their leases, as `release_all_leases` does.

| action | code |
|---|---|
| `Launch`, `LaunchAlreadyRunning`, `LaunchProceeds`, `StartSucceeds`, `LaunchFails` | `launch_browser`, `BrowserSessionManager.launch` |
| `CloseBrowser`, `TerminateDone` | `close_and_release` |
| `CloseEvent` | the close handler and `_handle_exit` |
| `DriverDies`, `MonitorFires`, `MonitorFiresForReplaced` | the driver process, `_monitor` |
| `HeartbeatRenews`, `HeartbeatChecks`, `HeartbeatDropped` | `_renew_leases` |
| `StartUp`, `ShutDown`, `ShutDownCloses`, `ShutDownLists`, `ShutDownReleases`, `ShutDownEnds` | `lifespan`, `close_all`, `release_all_leases` |
| `Crash`, `Operator`, `Tick` | a killed process, `camoufox-pm unlock` and profile deletion, time |

Three constants describe the environment rather than the code, so that each property
is checked in the weakest environment it holds in. `Late` is the set of things that
may take longer than the lease allows ("beat", "start", "teardown"; empty means that
all are in time, which says nothing of a shutdown: it releases when it gets there). `Serial` says that nobody launches a profile this process is still
starting or closing. `DriverFails` lets the Playwright driver die.

**ExclusiveDriver** is the abstract specification: a profile has one driver or none,
and passes from one process to another only through none. The mapping (`Driver`) counts every launch,
browser and teardown but those that a shutdown has left behind (`LeftBehind`).

**SharedDatabase** is the connections of several processes to one SQLite file in WAL
mode. Python's `sqlite3` opens a transaction before the first writing statement and
only `commit` ends it; the code never rolls back. So a connection may be left inside
a transaction that holds the write lock (`"writer"`), that has a snapshot
(`"reader"`) or neither (`"begun"`), and what later statements see and may do depends
on it.

**ProfileRow** is one row and everything that writes it, through several processes.
`call[h]` is the operation process `h` is in the middle of; `form[c]` is what a client
was last shown; `asked[h]` is the proxy that a suspended check is asking.

**Groups** is the groups table, the `group_id` column and the row versions, through several
processes, one action per statement or per group of statements that one transaction holds
together. `call[h]` keeps a job: the profiles still to edit and whether a stale one stops it
(`delete_group`) or is skipped (`bulk_update_profiles`). `FreshNames` says that nobody gives
a group the name of another; nothing in the code refuses it.

| action | code |
|---|---|
| `CreateGroup`, `UpdateGroupReads`, `UpdateGroupSaves` | `create_group`, `update_group`, `save_profile_group` |
| `DeleteGroupFinds`, `DeleteGroupLists`, `DeleteGroupEnds` | `delete_group`, `delete_profile_group` |
| `Puts`, `BulkUpdates`, `EditReads`, `EditSaves` | `update_profile`, `bulk_update_profiles`, `_save_profile_if_unchanged` |
| `CreateProfile`, `LoadForm`, `DeleteProfile` | the routes of that name |
| `WriteTimesOut`, `OtherAccess`, `Restart` | "database is locked", any other statement, a new process |

**Accounts** is the users and sessions tables, several servers and one command line.
A username is UNIQUE and a session's user a foreign key, and both refuse inside the write, which
then leaves its transaction open (`SharedDatabase`).

| action | code |
|---|---|
| `LoginReads`, `Rehashes`, `Purges`, `Opens` | `login`, `delete_expired_sessions`, `create_session` |
| `Counts`, `Validates`, `Drops`, `Serves` | `require_auth`, `validate_session` |
| `Probes`, `LogsOut` | `get_auth_session`, `logout` |
| `UserAdd`, `UserPasswd`, `UserRemove` | `camoufox-pm user ...` |
| `Lapses` | `expires_at` passing |

**ProfileFiles** is the listed profiles, their directories and the steps that write one and then the
other. The content of a directory is reduced to none, empty, a part of its files, or all. Who has a
browser on it follows `ExclusiveDriver`, the specification that Fleet implements: `Driving!Take` and
`Driving!Leave` are conjuncts of the steps that begin and end a browser; a teardown that a shutdown has left
behind is not modelled here. `Apart` names the operations that the environment keeps from
overlapping with what they do not look out for: launches beside an export, creations and copies beside
a clean-up.

| action | code |
|---|---|
| `CreateMakes`, `SavesRow`, `SaveFails` | `create_profile`; the save of every new profile, and its failure |
| `CloneMakes`, `CloneCopies` | `clone_profile` |
| `ImportStarts`, `ImportExtracts`, `ImportRefused` | `import_profile`, `extract_data` |
| `DeleteReads`, `DeleteRemoves`, `DeleteRaises`, `DeletesRow` | `delete_profile` |
| `ExportChecks`, `ExportCopies`, `ExportEnds` | `export_profile` |
| `CleanupLists`, `CleanupFindsOrphans`, `CleanupFindsMissing`, `CleanupRemoves`, `CleanupCannotRemove`, `CleanupMakes`, `CleanupCannotMake`, `CleanupEnds` | `auto_cleanup` and what it calls, each directory with its `except` |
| `Launch`, `Started`, `Closes`, `BrowserGone`, `Crash`, `Restart` | launches as the lease lets them through, killed processes |

**PinnedMachine** is the fingerprint of each profile reduced to the system it describes, the machine
and the user agent. Only a launch takes two steps: it reads the pin, may fetch things, and writes the
pin back with `set_launch_pin`, which compares no version.

| action | code |
|---|---|
| `Create`, `CreateFromPreset`, `Import`, `Clone`, `CloneMachine` | how a profile comes by its pin |
| `LaunchReads`, `LaunchPins` | `resolve` or replay, `set_launch_pin` |
| `EditOs`, `Reset`, `Refresh`, `ReconcileKeeping`, `ReconcileRenewing` | `update_profile`, `rotate_profile_fingerprint`, `refresh_browser_version`, `reconcile_os` |
| `Fetch` | another browser version installed |

**ProxyPlace** is the place one profile appears to be at: what the settings state, what a check of
the proxy says, and what a launch gives the browser. Checks and launches suspend in the network and
the profile is edited in between; coordinates are kilometres along a line.

| action | code |
|---|---|
| `CheckStarts`, `CheckReturns` | `check_profile_proxy`, `check`, `compare` |
| `EditSettings`, `EditProxy`, `ClearGeography`, `Reset`, `Reimport` | the routes and the spreadsheet that change the place |
| `Launch`, `ExitFound`, `ExitNotFound`, `Placed`, `NotPlaced`, `Starts`, `Ends` | `to_camoufox_config`, `fill_what_geoip_would_have`, `start()` |

**Scheduler** is one process with its schedules. `pass` is what the loop is doing and
holds the copies it works from, `launching` the launches in flight for the loop or for
"run now" requests. Times are relative here too: `left` is `next_run_at` minus now and
`late` how long ago the pass read its own `now`.

**Calendar** is `next_run_after` for daily schedules on weekdays and for intervals, and `Nearest`, what
it promises. Scheduler leaves open which later instant comes next; that it *is* later, and the first, is
Calendar's theorem.

## 3. Runs

| run | instance | checks | result |
|---|---|---|---|
| `fleet_serial` | 2 processes, 2 profiles, a launch per process and profile at a time; shutdowns | `TypeOK`, `Exclusive`, `LeaseCoversBrowser`, `NoStrandedLease`, `HandsOver` | holds (121 206 states) |
| `fleet_free` | 2 processes, 1 profile, everything may be late, overlap, die, be unlocked | `CleanExit`, `NoLeaseStolen`, `DeadLeaseRunsDown` | holds (627 512) |
| `fleet_live` | 2 processes, 1 profile, late, dying, unlocked; with fairness | `IntruderStandsDown`, `CrashedLeaseRunsOut` | holds (49 390) |
| `fleet_double` | 1 process, overlapping launches | `OneBrowser` | **violated** |
| `row_edits` | 2 processes, a client, two settings of two values | `TypeOK`, `SameVersionSameContent`, `NoLostEdit`, `DeletedStaysDeleted`, `OnlyEditsMakeStale` | holds (1 817 089) |
| `scheduler_runs` | two schedules of one profile, one with `run_minutes`; with fairness | `TypeOK`, `NothingLeftDue`, `DueIsServed`, `TimedSessionEnds`, `OrphansAreSilenced` | holds (15 788) |
| `scheduler_stale` | one of the two refreshes the browser | `DeletedStaysDeleted` | **violated** |
| `accounts` | 2 servers and the command line, two names, passwords and tokens, three ids | `TypeOK`, `SessionsBelong`, `RevocationReaches` | holds (182 754) |
| `groups` | 2 processes, two groups and names, a profile, a form; fresh names | `TypeOK`, `VersionNamesGroup`, `NoOneLeftBehind`, `EditsKeepGroup` | holds (1 044 125) |
| `files` | 2 processes, 3 profile ids, exports and clean-ups kept apart | `TypeOK`, `ArchiveIsWhole`, `OnlyDeletionTakesFiles`, `CleanupSettles` | holds (774 321) |
| `machine` | 2 profiles, 2 systems, 3 machines, 2 browser versions | `TypeOK`, `OwnMachine`, `AgentMatchesMachine`, `HealthyMachineStays` | holds (8 076) |
| `place` | a pool with two exits and a direct connection, 4 zones, 2 coordinates | `TypeOK`, `CheckMatchesProxy`, `CheckForetells`, `ClockFollowsExit` | holds (944 820) |

### What the violations show

* `fleet_double`: the acquire lets its own holder in again and a session is registered
  only when `start()` returns, so two launches in one process open two browsers on one
  data directory; the first session is then forgotten.
* `scheduler_stale`: a pass that waits for one schedule's browser saves the next one
  from a copy it read before: deletions, edits and a profile's disappearance are undone.

### Further counterexamples

These configurations show why a run above makes the assumption it makes, or why its property is not
stronger. TLC finds each property violated (`tlc -config X.cfg M`).

| configuration | module | property | what happens |
|---|---|---|---|
| `FleetRelaunch.cfg` | MCFleet | `LiveKeepsLease` | launches that overlap a teardown: the close releases the lease which a new launch of the same process has re-acquired |
| `FleetShutDown.cfg` | MCFleet | `OneDriver` | with everything in time: the user closes a window, the process shuts down while `_handle_exit` is in `__aexit__`, `release_all_leases` gives the lease back, and another process launches the profile |
| `FleetMonitor.cfg` | MCFleet | `NoStrandedLease` | a dying driver: `terminate()`, reached from the monitor task, cancels that task, and the release behind the next suspension never happens |
| `RowLock.cfg` | MCProfileRow | `NoLockLeftBehind` | a refused save raises between its UPDATE and the commit; the connection keeps SQLite's write lock, and others wait thirty seconds and fail |
| `SchedulerClose.cfg` | MCScheduler | `ClosesItsOwn` | a timed close names a profile, and closes whichever browser is open |
| `AccountsTwo.cfg` | MCAccounts | `RevocationIsImmediate` | a server whose login failed on the foreign key reads from that transaction's snapshot, and lets a request through on a session that was logged out elsewhere |
| `GroupsRename.cfg` | MCGroups | `NoOneLeftBehind` | a group is renamed to a name in use: INSERT OR REPLACE removes the other group, whose members go on pointing at it |
| `FilesExport.cfg` | MCProfileFiles | `ArchiveIsWhole` | a browser starts between the lease check and the end of the copy: the archive is torn |
| `FilesCleanup.cfg` | MCProfileFiles | `OnlyDeletionTakesFiles` | a clean-up in another process removes the directory of a profile whose row is about to be saved |

### Constants that describe the environment

Each property is checked, and proved, in the weakest environment that it holds in.

* Fleet: `Late` (what may take longer than the lease allows), `Serial` (nobody launches a profile this
  process is still starting or closing), `DriverFails`, `Unlockable`. `Exclusive`, `LeaseCoversBrowser` and the
  refinement themselves except the teardowns that a shutdown leaves behind (`LeftBehind`).
* Groups: `FreshNames`. ProfileFiles: `Apart`.
* Accounts has no such constant; `RevocationReaches` itself excepts a server that is `behind`, one that
  reads from a transaction left open which others have written past.
* PinnedMachine: `HealthyMachineStays` excepts the launch that writes back the pin it read before another
  process changed it (`WritesBack`), and `OwnMachine` the machines somebody asked to have twice (`shared`).
* ProxyPlace: the location database has a zone for every address it can place.

### Bounds, and why they are enough

Leases are per profile and no action touches two of them except the heartbeat and the
shutdown, whose loops need a second profile (`fleet_serial`); a launch can race with
one of another process, hence two processes, or with a launch or a teardown of its own
process, hence a second launch call in one of them (`Busy`) in `fleet_free`. Where launches are `Serial`, one
call per process and profile, used again and again, is enough. A third of any adds no new pairing of actors.
`TTL = 2`, `Beat = 1` is the tightest pair the settings allow (`lease_ttl` of at least two
beats).

`MaxVersion` bounds the edits made: two are enough for an edit, a second one behind its
back and a third on the stale form that must fail. Two parts of the settings let a merge revert
a part it was not about; two groups let an edit move a profile between them and a rename hit another.
In `accounts` three ids let a removed user be added again under the same name, with a session of each.
In `files` three profile ids make room for a profile, a copy of it, and one half made when a process
died. In `machine` three machines let one profile's be replaced by a third while the other keeps its
own; two versions let a pin be outdated. In `place` one exit shares its clock with a zone of another name,
and the two coordinates lie just within and just beyond what `compare` takes for near one of the exits.

`MaxPass = 1` lets a pass take half an interval, so that it
overtakes a schedule's next run; `left` stops counting at `-MaxPass`, since nothing
distinguishes one instant long past from another. `RunNow` is bounded to one request in
flight. Before the scheduler runs, TLC evaluates `PlansNearest`, which has no state, as an assumption of MCScheduler (`CalendarAgrees`):
from every instant of two weeks of two slots a day; next runs repeat after one. Symmetry is used only in runs that check no liveness.

Deadlock is checked in every run but those of the fleet, where all processes may have exited or
crashed, after which the system stops. The theorems of section 5 hold for all values of these bounds.

### Fairness

`Fleet!Fairness` is weak fairness, per session or process, of what the event loop runs once
it is due: a launch continues, `start()` and `__aexit__` return one way or the other, the
heartbeat beats, shutdown goes on, the monitor polls, and time passes. Nobody is obliged to
launch, close, stop or unlock anything. `Scheduler!Fairness` asks strong fairness of steps that
other steps keep interrupting: time (it stands still while the loop works), the listing and the
firing of a schedule (the database or the action may fail, but not every single time), and of the
return of each caller's launches. That a launch returns or fails at all is an assumption: the code
sets no timeout on `camoufox.start()`.

## 4. Every property, and the bug that would break it

Each property of a passing run has a mutant: a plausible bug (a dropped arm of a WHERE clause,
a release before the close, a version that is not bumped, an upsert, a forgotten advance) written
beside the definition it changes and marked "Mutant", under which TLC finds the property violated.

## 5. Proofs

Eight modules are checked by TLAPS, for every value of the constants that the assumptions admit. The
assumptions are those named in the modules: typing of the constants, `2 * Beat <= TTL` (the validator of
`lease_ttl`), `MaxVersion` a natural number, `None` none of the values it stands beside (in Scheduler, no
number of ticks). What a theorem assumes of the environment is a hypothesis in its statement. Every
safety property that a passing run checks, invariant or action property, is proved, and so is the refinement;
every inductive invariant below was checked by TLC on an instance of a run before it was proved.

| module | theorem | states |
|---|---|---|
| FleetProofs | `TypeCorrect` | `Spec => []TypeOK`, whatever is late, overlaps or fails |
| | `ExclusiveDriving`, `LeaseHeldThroughout` | `[]Exclusive`, `[]LeaseCoversBrowser`, if `Late = {}`, `Serial`, `Unlockable = {}` |
| | `FleetHandsOver` | `HandsOver`, the refinement of ExclusiveDriver, under the same hypotheses |
| | `CleanExits`, `LeasesNotStolen`, `DeadLeasesRunDown` | `[]CleanExit`, `NoLeaseStolen`, `DeadLeaseRunsDown`, whatever is late, overlaps or fails |
| | `NoLeaseStranded` | `[]NoStrandedLease`, if no driver dies |
| | `LiveKeepsItsLease` | `LiveKeepsUnexpired`, if `Serial` |
| ProfileRowProofs | `RowTypeCorrect`, `VersionsNameContents`, `DeletedForGood` | `[]TypeOK`, `[]SameVersionSameContent`, `DeletedStaysDeleted` |
| | `EditsAreKept`, `OnlyEditsCount` | `NoLostEdit`, `OnlyEditsMakeStale` |
| GroupsProofs | `GroupsTypeCorrect`, `VersionsNameGroup`, `EditsKeepGroups` | `[]TypeOK`, `[]VersionNamesGroup`, `EditsKeepGroup` |
| | `NobodyLeftBehind` | `NoOneLeftBehind`, if `FreshNames` |
| AccountsProofs | `AccountsTypeCorrect`, `SessionsAlwaysBelong`, `RevocationReachesAll` | `[]TypeOK`, `[]SessionsBelong`, `RevocationReaches` |
| ProfileFilesProofs | `FilesTypeCorrect` | `[]TypeOK` |
| | `ArchivesAreWhole` | `[]ArchiveIsWhole`, if nobody launches what is being exported or exports what it is itself starting or closing |
| | `CleanupsSettle`, `OnlyDeletionsTakeFiles` | `CleanupSettles`, `OnlyDeletionTakesFiles`, if clean-ups are kept apart |
| PinnedMachineProofs | `MachineTypeCorrect`, `AgentsMatch`, `OwnMachines`, `HealthyMachinesStay` | `[]TypeOK`, `[]AgentMatchesMachine`, `[]OwnMachine`, `HealthyMachineStays` |
| ProxyPlaceProofs | `PlaceTypeCorrect`, `ChecksMatch`, `ClocksFollow`, `ChecksForetell` | `[]TypeOK`, `[]CheckMatchesProxy`, `[]ClockFollowsExit`, `[]CheckForetells` |
| SchedulerProofs | `SchedulerTypeCorrect`, `NothingIsLeftDue`, `TimedSessionsNoted` | `[]TypeOK`, `NothingLeftDue`, `[]TimedAreNoted` |
| | `RunsAreNearest` | `PlansNearest`, for any instants, times, weekdays, intervals and length of a day |

**Fleet.** The invariant is `FleetInv` (in `FleetProperties`). `Exclusive` is not inductive by itself:
that a second process cannot acquire a profile follows from the first one holding an
unexpired lease on it (`LeaseCoversBrowser`), and that the lease does not expire follows from how
much of it is left compared with the next heartbeat (`LeaseOutlastsBeat`), which a beat under way
holds back (`BeatHoldsClock`). The remaining conjuncts tie `active` to the stages
(`ActiveMatches`), stages to the life of the process (`StagesFitStatus`) and say that a
heartbeat which gives up on a profile does so only because it was deleted (`DropsOnlyDeleted`,
`DropsOneByOne`). Each of the three hypotheses has a behaviour that breaks the property without it. None of them
is about shutdowns: what a shutdown leaves behind is excepted in the properties (`Drives`), and a teardown once
left behind stays so until it ends (`LeftBehindStays`).

The refinement needs nothing more than `FleetInv`. `Driver` chooses a session; by `Exclusive` there is one to choose
at most, and `DriverFits` says what the mapping is without the CHOOSE. Only a launch engages a session
(`OnlyLaunchEngages`), and one that gets the lease finds nobody engaged, so it is a `Take`; every
other step is a `Leave` of the profiles whose last session ends with it, or of none (`StepHandsOver`).

What is true of leases without any hypothesis rests on other invariants. `CleanInv` says what names a process at each
point of its life: nothing before it starts or after it has left, and only what is on the list
while it releases (`LeasesListed`); that takes `RegisteredAreUp`, as a profile that is live would be passed over, and
`NoLeaseWithoutRow`, as the list is made from rows. `StrandInv` adds who will see to each lease of a process that is up
(`LeaseAnswered`): the registered session, a launch, or a teardown that ends in a release. The weaker statement that *some*
session is engaged is not inductive: a browser that another one has replaced in `active_sessions` is engaged and answers for nothing.
The run checks `NoStrandedLease` only where everything is in time and launches of a process do not overlap, so that
`is_live` is never true of a launch that fails; the theorem covers that too and needs no more than that no driver
dies, and `FleetMonitor.cfg` shows that it needs that. `LeaseStep` sorts the steps by what
they do to the lease of a profile (`AcquirePasses`, `ReleasePasses`, `RenewPasses`, `StillPasses`), for both action properties.
In `FleetRelaunch.cfg` a close hands away the lease that a new launch stands on; `LiveKeepsItsLease` says that
overlapping launches are the only cause of that, as late as beats, starts and teardowns may be: with `SerialInv` a process has one thing
going per profile (`OneOfEach`), so that whatever gives a lease back was the last to stand on it.

**Profile row.** The invariant is `RowInv`: a form is compared with the committed row, but it may have been read from
the snapshot of a transaction left open long ago, so *every* copy of the row - in a form or a
snapshot - must be no newer than the row and equal to it if it has its version (`CopiesAgree`).
The lemma `RowEvolves` says how a step can change the committed row at all, `AgreementLasts` that a
copy which agreed still agrees after such a change, and `ReadsAgree` that a read takes a copy
that agrees.

For `NoLostEdit`, `EditInv`: an edit meets the row up to three times, when its author sees it, when the route merges
the settings into it and when the manager reads it to save, each perhaps in another snapshot. `RowInv` compares each with the
committed row; here they are compared with each other. `Known` are all of them, and any two with the same version are the same
(`KnownAgree`); none is newer than the row (`KnownAreOld`), so a version that a save draws is nobody's yet.
Hence what was merged fits what the author saw if the manager then finds the author's version (`MergedAsSeen`), and what
is about to be saved is what was meant (`SavesAsIntended`). The save itself goes through only against
that same version. `OnlyEditsMakeStale` needs no more than the types.

**Groups.** `GroupsInv` is the same idea with one difference: the deletion of a group changes the row
without its version. A copy is `Copied` from a table if its version is not ahead of the row's and, where the
two are equal, the row's group is the copy's or none. Snapshots (`ViewsTrue`), forms (`FormsTrue`) and saves
under way (`SavesTrue`) are all such copies, and profiles whose id was never drawn have no row (`RowsMinted`).
`Moves` says which changes of the tables keep copies true. For `NobodyLeftBehind` it is enough that, with fresh
names, only `delete_profile_group` ends a group (`WhoEndsGroups`), and takes its members out in the same commit.

**Accounts.** `AccountsInv` says that every table a connection reads is `Whole` (unique ids and names, a user for
each session) and that a snapshot nobody has written past equals the committed tables
(`ViewsCurrent`). From the second follows that what a server not `behind` has just read is what is there.

**ProfileFiles.** `Typed` ties what a process is in the middle of to the ids that were drawn (`KnownTo`).
`Exports` says that what is copied is quiet. For clean-ups, `CleanInv`: a directory being filled is of a
profile not yet listed (`NewOnes`), by one process (`OneMaker`); while one cleans nobody makes or deletes
(`CleanAlone`), so that what it listed is still true: what is left to do is what differs and has not failed yet
(`CleanTrue`).

**PinnedMachine.** `MachineInv` is about every pin there is, in a row or in the hands of a launch that will
write it back (`PinsOf`): its agent matches it (`PinsMatch`), its machine was drawn (`PinsMinted`), and two
profiles' pins differ unless shared (`PinsApart`). A launch has a row to write to (`LaunchesHaveRows`).
Most steps only hand pins on, or make one from a fresh machine (`Inherits`).

**ProxyPlace.** `PlaceInv` follows a launch: what the browser is given agrees with the settings it read
(`FromSettings`), an exit is asked for whenever the clock is left to it (`AskingForClock`), and once
asked, the clock is that exit's or the lookup was in vain (`ClockAnswered`).

**Scheduler.** `SchedulerInv`. That nothing is left due when a pass ends is not inductive: while
a pass waits, other schedules come due, and are edited and created. What is kept all along is that whatever was due *at the
instant the pass read the clock* is still among the copies it has to deal with (`NothingOverlooked`). A tick does not
disturb that, as `left` goes down by what `late` goes up, down to the floor, where it was due already
(`OverlooksNothingMeanwhile`); and a planned row is not due, however long the pass has taken (`PlannedNotDue`).
At the end there are no copies left. `TimedAreNoted` is the safety part of
`TimedSessionEnds`: the launch that opens a timed browser notes its close down in the same step, and only a
close that is carried out takes the note away.

**Calendar.** An instant is its day and its slot (`DaysAndSlots`, `SlotOfDay`), whole days are further apart
than slots (`DaysInOrder`), and seven days hold every weekday (`SomeDayAllowed`), so that the loop of
`next_run_after` ends at the first allowed one (`FirstDayAllowed`). `NextRunIsNearest` rules out every day before:
it is today, whose occurrence has passed, or a day that is not allowed.

**Only model-checked:** what is about liveness, as fairness and ENABLED are out of the prover's reach:
`IntruderStandsDown` and `CrashedLeaseRunsOut` of the fleet, `DueIsServed`, `TimedSessionEnds` and `OrphansAreSilenced` of the
scheduler. Of these, `DeadLeasesRunDown` and `TimedSessionsNoted` prove the part that is about safety. The properties that runs
find violated are of course not theorems.

## 6. Abstractions, and what is not modelled

* Lease operations in Fleet always succeed; a database that fails under a release or a renewal
  would be a composition with SharedDatabase.
* In Fleet a launch that fails or is cancelled leaves no browser behind: `camoufox.start()` is
  taken to clean up after itself.
* A close that is cancelled in a process that stays up is not modelled. The launch path expects it of a client
  that disconnects (`core/profile_manager.py:934`); `close_and_release` has no handler for it, and the lease
  would stay until it runs out. Cancellations of a teardown by a shutdown are modelled (`"cut"`).
* `terminate()` awaits the cancelled monitor and swallows a CancelledError there; a shutdown's cancellation that arrives
  exactly in that await is taken for the monitor's. The model cuts such a teardown off like any other.
* `terminate()` waits for the driver with a blocking `process.wait`; the model does not count
  the time it takes.
* ProfileRow has one row. Name, notes and status take part in no rule about versions
  beyond being columns, and are left out; the group column has rules of its own (Groups).
* In ProfileRow a check, like every other operation, runs at most once at a time in a process.
* With several processes a check's answer can be stored beside a proxy that another process
  set between two of its statements; nothing promises otherwise and ProxyPlace has one process. The
  findings kept with a profile also survive an edit of the timezone or the coordinates they compare.
* `compare` is silent about `webrtc_public_ip`, though its docstring (`core/proxy_check.py:202`) says
  "Everything a page could notice"; `CheckForetells` is about the clock and the coordinates.
* In ProxyPlace settings state both coordinates or none: `geolocation` without `lat` or `lon` raises at
  `core/models.py:168` and nothing is launched. An empty timezone cell of the spreadsheet becomes UTC there
  (`FromSheet`), as in the code; docs/excel.md does not say what an empty cell means.
* PinnedMachine leaves out `navigator.appVersion`, which a refresh does not touch
  (`core/fingerprint_store.py:323`), and everything Camoufox generates itself.
* The transparent rehash may put back a password changed by the command line in between (`Rehashes`); no
  document says which of the two should win, and no property does.
* A refused import removes what it has extracted with `ignore_errors`, so that any part of it may stay
  (`ImportRefused`) until a clean-up; no property says otherwise.
* The clean-up of the command line with `--action cleanup` makes no missing directories, and a dry run does neither; ProfileFiles has
  `auto_cleanup`, which the API route and `--action auto` run.
* A clone copies the source's directory whether or not a browser writes there (`torn`); unlike an export it
  promises nothing.
* `set_launch_pin` writes the pin a launch has read, so it can undo another process's refresh;
  `HealthyMachineStays` makes an exception of it.
* In Scheduler every run plans an interval ahead (Calendar has the days), `run_minutes` and `action` of a schedule do not
  change, and the run history (`log_schedule_run`) is left out: it is written after the fact and read only to be shown.
* Not modelled: per-row errors of a spreadsheet import, the preflight of SOCKS credentials, schema
  creation and migration, encryption, request parsing and error mapping, the desktop window, the VNC bridge, the
  web UI, Chrome migration, packaging and scripts. They keep no state of their own, or run once and outside the
  program; the notes in `PROJECT.json` say which is which.

### Plan

1. **Composition** - Fleet over SharedDatabase: releases and renewals that fail, and a heartbeat whose process can no longer
   write. Scheduler over Fleet: launches that the lease refuses.
2. **Excel** - what an import leaves when a row in the middle is refused.
3. **Proofs** - of the parts of liveness that are safety: that a lost lease is found by the next beat, that what falls due
   is among the copies of the next pass; and of those compositions.
