--------------------------- MODULE PinnedMachine ---------------------------
(***************************************************************************)
(* The machine each profile pretends to be: pinned by a device preset or   *)
(* by the first launch, replayed by every later one, and changed only by   *)
(* the operations that say so.                                             *)
(*                                                                         *)
(* No operation suspends between reading a profile and saving it, so here  *)
(* each is a single step (ProfileRow takes them apart).  A launch is two:  *)
(* resolving a machine can take as long as fetching an addon, and what     *)
(* another process does meanwhile comes before its pin is written.  What   *)
(* is kept of a fingerprint is the operating system it describes           *)
(* (navigator.platform), the machine (GPU, screen, cores, fonts, noise     *)
(* seeds) and the user agent's operating system and version.               *)
(***************************************************************************)
EXTENDS Integers

CONSTANTS
    Profile,      \* profile ids, never drawn twice
    None,
    Os,           \* operating systems of settings, presets and machines
    Machine,      \* what a resolution draws: its noise seeds never come twice
    MaxVersion    \* bound: versions the browser goes through

ASSUME MaxVersionAssumption == MaxVersion \in Nat \ {0}

VARIABLES
    installed,    \* the browser on disk; 0 until `camoufox fetch`
    minted,       \* machines drawn so far
    rows,
    launching,    \* the pin a launch has read and not yet written back
    shared        \* machines somebody asked to have twice

vars == <<installed, minted, rows, launching, shared>>

Version == 1 .. MaxVersion

Pin == [os : Os, machine : Machine, agent : Os, version : Version]

Row == [os : Os, pin : Pin \cup {None}]

Idle == [at |-> "idle"]

Launching == {Idle} \cup [at : {"pinning"}, pin : Pin \cup {None}]

TypeOK ==
    /\ installed \in 0 .. MaxVersion
    /\ minted \subseteq Machine
    /\ rows \in [Profile -> Row \cup {None}]
    /\ launching \in [Profile -> Launching]
    /\ shared \subseteq minted

Init ==
    /\ installed = 0
    /\ minted = {}
    /\ rows = [p \in Profile |-> None]
    /\ launching = [p \in Profile |-> Idle]
    /\ shared = {}

-----------------------------------------------------------------------------
Saved(p) == rows[p] # None

Pinned(p) == Saved(p) /\ rows[p].pin # None

\* fingerprint_store.resolve: Camoufox builds a fingerprint for this operating
\* system and the browser on disk.  Without a browser, or when its internals fail,
\* the result is empty.
Resolved(os) ==
    IF installed = 0 THEN {}
    ELSE {[os |-> os, machine |-> m, agent |-> os, version |-> installed] : m \in Machine \ minted}

Mints(pin) == minted' = minted \cup {pin.machine}

Writes(p, row) == rows' = [rows EXCEPT ![p] = row]

-----------------------------------------------------------------------------
\* create_profile without a preset, and an imported spreadsheet row: no machine yet.
Create(p, os) ==
    /\ ~Saved(p)
    /\ Writes(p, [os |-> os, pin |-> None])
    /\ UNCHANGED <<installed, minted, launching, shared>>

\* create_profile with a preset, whose system the setting is put in step with.  A
\* device that cannot be pinned is an error, and no profile.
CreateFromPreset(p, os) ==
    /\ ~Saved(p)
    /\ \E pin \in Resolved(os) : Writes(p, [os |-> os, pin |-> pin]) /\ Mints(pin)
    /\ UNCHANGED <<installed, launching, shared>>

\* Mutant: the clone's settings are regenerated and its pin comes along.
CloneKeepsPin(p, q) ==
    /\ Saved(p) /\ ~Saved(q)
    /\ \E os \in Os : Writes(q, [os |-> os, pin |-> rows[p].pin])
    /\ UNCHANGED <<installed, minted, launching, shared>>

\* A clone with regenerate_fingerprint, the default: settings anew, and no pin.
Clone(p, q) ==
    /\ Saved(p) /\ ~Saved(q)
    /\ \E os \in Os : Writes(q, [os |-> os, pin |-> None])
    /\ UNCHANGED <<installed, minted, launching, shared>>

\* A clone without, or an archive of p imported: the same computer, on request.
CloneMachine(p, q) ==
    /\ Saved(p) /\ ~Saved(q)
    /\ Writes(q, rows[p])
    /\ shared' = shared \cup (IF Pinned(p) THEN {rows[p].pin.machine} ELSE {})
    /\ UNCHANGED <<installed, minted, launching>>

\* An archive from another instance, which may have had a newer browser, or imports
\* into an instance that has none yet.
Import(p) ==
    /\ ~Saved(p)
    /\ \E os \in Os, m \in Machine \ minted, v \in Version :
         LET pin == [os |-> os, machine |-> m, agent |-> os, version |-> v]
         IN  Writes(p, [os |-> os, pin |-> pin]) /\ Mints(pin)
    /\ UNCHANGED <<installed, launching, shared>>

\* PUT browser_settings.os: the pin, which is what a page sees, is left alone.
EditOs(p, os) ==
    /\ Saved(p)
    /\ Writes(p, [rows[p] EXCEPT !.os = os])
    /\ UNCHANGED <<installed, minted, launching, shared>>

\* reset-fingerprint (rotate): settings of some random system, and no pin.
Reset(p) ==
    /\ Saved(p)
    /\ \E os \in Os : Writes(p, [os |-> os, pin |-> None])
    /\ UNCHANGED <<installed, minted, launching, shared>>

\* The fingerprint a refresh is made from, thrown away but for its user agent.
Refreshed(pin, os) == [pin EXCEPT !.agent = os, !.version = installed]

\* Mutant: the user agent is resolved for the operating system of the settings.
RefreshForSettings(p) ==
    /\ Pinned(p)
    /\ installed # 0
    /\ Writes(p, [rows[p] EXCEPT !.pin = Refreshed(@, rows[p].os)])
    /\ UNCHANGED <<installed, minted, launching, shared>>

\* Mutant: that there is a browser to refresh from is not checked.
RefreshUnfetched(p) ==
    /\ Pinned(p)
    /\ Writes(p, [rows[p] EXCEPT !.pin = Refreshed(@, @.os)])
    /\ UNCHANGED <<installed, minted, launching, shared>>

\* refresh_browser_version, asked for or scheduled: resolved for the operating
\* system of the pin; only the browser-version keys are taken from the result.
Refresh(p) ==
    /\ Pinned(p)
    /\ installed # 0
    /\ Writes(p, [rows[p] EXCEPT !.pin = Refreshed(@, @.os)])
    /\ UNCHANGED <<installed, minted, launching, shared>>

\* Pin and setting name different systems; otherwise reconcile_os refuses.
Disagrees(p) == Pinned(p) /\ rows[p].pin.os # rows[p].os

\* reconcile_os with keep_machine
ReconcileKeeping(p) ==
    /\ Disagrees(p)
    /\ Writes(p, [rows[p] EXCEPT !.os = rows[p].pin.os])
    /\ UNCHANGED <<installed, minted, launching, shared>>

\* Mutant: a stale screen may regenerate the machine of a profile that agrees.
ReconcileAnyway(p) ==
    /\ Pinned(p)
    /\ \E pin \in Resolved(rows[p].os) : Writes(p, [rows[p] EXCEPT !.pin = pin]) /\ Mints(pin)
    /\ UNCHANGED <<installed, launching, shared>>

\* reconcile_os without: the setting wins, and a machine is pinned for it.
ReconcileRenewing(p) ==
    /\ Disagrees(p)
    /\ \E pin \in Resolved(rows[p].os) : Writes(p, [rows[p] EXCEPT !.pin = pin]) /\ Mints(pin)
    /\ UNCHANGED <<installed, launching, shared>>

\* launch_browser reads the profile and, if nothing is pinned, resolves a machine;
\* one that cannot be resolved does not stop the launch.
LaunchReads(p) ==
    /\ Saved(p) /\ launching[p] = Idle
    /\ \E pin \in IF Pinned(p) THEN {rows[p].pin} ELSE {None} \cup Resolved(rows[p].os) :
         /\ launching' = [launching EXCEPT ![p] = [at |-> "pinning", pin |-> pin]]
         /\ IF pin = None THEN UNCHANGED minted ELSE Mints(pin)
    /\ UNCHANGED <<installed, rows, shared>>

\* set_launch_pin: what was read or resolved is written, whatever is there now.
LaunchPins(p) ==
    /\ launching[p].at = "pinning"
    /\ Writes(p, [rows[p] EXCEPT !.pin = launching[p].pin])
    /\ launching' = [launching EXCEPT ![p] = Idle]
    /\ UNCHANGED <<installed, minted, shared>>

\* camoufox fetch: a browser, or a newer one
Fetch ==
    /\ installed < MaxVersion
    /\ installed' = installed + 1
    /\ UNCHANGED <<minted, rows, launching, shared>>

Next ==
    \/ \E p \in Profile :
         \/ \E os \in Os : Create(p, os) \/ CreateFromPreset(p, os) \/ EditOs(p, os)
         \/ \E q \in Profile : Clone(p, q) \/ CloneMachine(p, q)
         \/ Import(p) \/ Reset(p) \/ Refresh(p) \/ ReconcileKeeping(p) \/ ReconcileRenewing(p)
         \/ LaunchReads(p) \/ LaunchPins(p)
    \/ Fetch

Spec == Init /\ [][Next]_vars
=============================================================================
