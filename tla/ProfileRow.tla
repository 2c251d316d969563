----------------------------- MODULE ProfileRow -----------------------------
(***************************************************************************)
(* One row of the profiles table, edited from forms, rewritten by rotate,  *)
(* refresh, reconcile and clear_geography, pinned by launches, annotated   *)
(* by proxy checks and deleted, through several processes at once.         *)
(*                                                                         *)
(* Within a process a storage call never yields, so an operation is        *)
(* interrupted only by other processes, between two of its statements;     *)
(* the one exception is a proxy check, which awaits the network.  `call`   *)
(* is the operation a process is in the middle of.                         *)
(***************************************************************************)
EXTENDS Integers, SharedDatabase

CONSTANTS
    Client,       \* edit forms and scripts holding a profile they have read
    Part,         \* the fields of browser_settings
    Value,        \* what a field can hold
    Proxy,        \* proxy configurations, "no proxy" among them
    Machine,      \* pinned fingerprints
    MaxVersion    \* bound: edits the model makes

ASSUME MaxVersionAssumption == MaxVersion \in Nat

VARIABLES
    form,         \* what each client was last shown of the row
    call,         \* the operation between two statements of each process
    asked         \* the proxy a suspended check of each process is asking

vars == <<dbVars, form, call, asked>>

Settings == [Part -> Value]

Row == [version : 0 .. MaxVersion, settings : Settings, proxy : Proxy,
        check : Proxy \cup {None}, pin : Machine \cup {None}]

\* What of a row an edit form is about.
Shown(row) == [version |-> row.version, settings |-> row.settings, proxy |-> row.proxy]

Form == [version : 0 .. MaxVersion, settings : Settings, proxy : Proxy]

\* What one PUT sends; the rest of the profile is left to the server.
Edit == [kind : {"settings"}, part : Part, value : Value]
        \cup [kind : {"proxy"}, proxy : Proxy]

Idle == [at |-> "idle"]

Call ==
    {Idle}
    \cup [at : {"merged"}, seen : Form \cup {None}, edit : Edit, settings : Settings]
    \cup [at : {"saving"}, seen : Form \cup {None}, edit : Edit \cup {None}, profile : Row]
    \cup [at : {"pinning"}, pin : Machine \cup {None}]
    \cup [at : {"answering"}, check : Proxy]
    \cup [at : {"deleting"}]

TypeOK ==
    /\ DbTypeOK(Row)
    /\ form \in [Client -> Form \cup {None}]
    /\ call \in [Process -> Call]
    /\ asked \in [Process -> Proxy \cup {None}]

Init ==
    /\ \E s \in Settings, x \in Proxy :
         DbInit([version |-> 0, settings |-> s, proxy |-> x, check |-> None, pin |-> None])
    /\ form = [c \in Client |-> None]
    /\ call = [h \in Process |-> Idle]
    /\ asked = [h \in Process |-> None]

-----------------------------------------------------------------------------
Goto(h, state) == call' = [call EXCEPT ![h] = state]

\* The event loop of h is free, and the profile is there to be read.
Reads(h) ==
    /\ call[h] = Idle
    /\ Visible(h) # None
    /\ Select(h)

\* GET /profiles/{id}, into a form
LoadForm(h, c) ==
    /\ Reads(h)
    /\ form' = [form EXCEPT ![c] = Shown(Visible(h))]
    /\ UNCHANGED <<call, asked>>

\* browser_settings are merged over the stored ones
Merge(settings, edit) ==
    IF edit.kind = "settings" THEN [settings EXCEPT ![edit.part] = edit.value] ELSE settings

\* PUT /profiles/{id}, with or without the row_version of the form it was made on
\* (seen): to change settings, the route reads the row to merge them into it.
PutMerges(h, seen, edit) ==
    /\ call[h] = Idle
    /\ Visible(h) # None
    /\ IF edit.kind = "settings" THEN Select(h) ELSE UNCHANGED dbVars
    /\ Goto(h, [at |-> "merged", seen |-> seen, edit |-> edit,
                settings |-> Merge(Visible(h).settings, edit)])
    /\ UNCHANGED <<form, asked>>

\* The profile update_profile goes on to save; a check of another proxy is dropped.
Updated(row, edit, settings) ==
    IF edit.kind = "settings" THEN [row EXCEPT !.settings = settings]
    ELSE [row EXCEPT !.proxy = edit.proxy,
                     !.check = IF edit.proxy = row.proxy THEN @ ELSE None]

\* The edit is kept in the state only to say what a guarded one was meant to do.
Kept(put) == IF put.seen = None THEN None ELSE put.edit

\* Mutant: the version the client sent is ignored.
ManagerReadsUnguarded(h) ==
    /\ call[h].at = "merged"
    /\ Visible(h) # None => Visible(h).version < MaxVersion
    /\ Select(h)
    /\ LET put == call[h]
           row == Visible(h)
       IN  Goto(h, IF row = None THEN Idle
                   ELSE [at |-> "saving", seen |-> put.seen, edit |-> Kept(put),
                         profile |-> Updated(row, put.edit, put.settings)])
    /\ UNCHANGED <<form, asked>>

\* The manager reads the row again.  A row that is gone is a 404; one whose
\* version is not the client's is refused before anything is written.
ManagerReads(h) ==
    /\ call[h].at = "merged"
    /\ Visible(h) # None => Visible(h).version < MaxVersion
    /\ Select(h)
    /\ LET put == call[h]
           row == Visible(h)
           stale == put.seen # None /\ put.seen.version # row.version
       IN  Goto(h, IF row = None \/ stale THEN Idle
                   ELSE [at |-> "saving", seen |-> put.seen, edit |-> Kept(put),
                         profile |-> Updated(row, put.edit, put.settings)])
    /\ UNCHANGED <<form, asked>>

\* rotate drops the pin with the settings; clear_geography and a reconcile that
\* keeps the machine change settings only; refresh and the other reconcile replace
\* the pin.  All save under the version they read.
Rewrites(row) ==
    [settings : Settings, pin : {None, row.pin}]
    \cup [settings : Settings, pin : IF row.pin = None THEN {} ELSE Machine]

RewriteReads(h) ==
    /\ Reads(h)
    /\ LET row == Visible(h)
       IN  /\ row.version < MaxVersion
           /\ \E new \in Rewrites(row) :
                Goto(h, [at |-> "saving", seen |-> None, edit |-> None,
                         profile |-> [row EXCEPT !.settings = new.settings, !.pin = new.pin]])
    /\ UNCHANGED <<form, asked>>

\* Mutant: the upsert, which brings a deleted row back.
SavesUpsert(h) ==
    /\ call[h].at = "saving"
    /\ Commit(h, [call[h].profile EXCEPT !.version = @ + 1])
    /\ Goto(h, Idle)
    /\ UNCHANGED <<form, asked>>

\* Mutant: the version is compared but not bumped.
SavesUnbumped(h) ==
    /\ call[h].at = "saving"
    /\ IF stored # None /\ stored.version = call[h].profile.version
         THEN Commit(h, call[h].profile) ELSE LeaveOpen(h)
    /\ Goto(h, Idle)
    /\ UNCHANGED <<form, asked>>

\* The guarded UPDATE of every column.  On no match StaleWriteError is raised
\* before the commit.
Saves(h) ==
    /\ call[h].at = "saving"
    /\ IF stored # None /\ stored.version = call[h].profile.version
         THEN Commit(h, [call[h].profile EXCEPT !.version = @ + 1]) ELSE LeaveOpen(h)
    /\ Goto(h, Idle)
    /\ UNCHANGED <<form, asked>>

\* launch_browser reads the row and resolves a machine if none is pinned; without
\* an installed browser there is none to resolve ...
LaunchReads(h) ==
    /\ Reads(h)
    /\ \E m \in IF Visible(h).pin = None THEN Machine \cup {None} ELSE {Visible(h).pin} :
         Goto(h, [at |-> "pinning", pin |-> m])
    /\ UNCHANGED <<form, asked>>

\* Mutant: starting a browser counts as an edit.
LaunchPinsBumping(h) ==
    /\ call[h].at = "pinning"
    /\ IF stored = None THEN CommitNothing(h)
       ELSE stored.version < MaxVersion
            /\ Commit(h, [stored EXCEPT !.pin = call[h].pin, !.version = @ + 1])
    /\ Goto(h, Idle)
    /\ UNCHANGED <<form, asked>>

\* ... and set_launch_pin writes the columns it owns, leaving the version alone.
LaunchPins(h) ==
    /\ call[h].at = "pinning"
    /\ IF stored = None THEN CommitNothing(h)
       ELSE Commit(h, [stored EXCEPT !.pin = call[h].pin])
    /\ Goto(h, Idle)
    /\ UNCHANGED <<form, asked>>

\* POST /check-proxy: the route suspends while the proxy is asked ...
CheckStarts(h) ==
    /\ Reads(h)
    /\ asked[h] = None
    /\ asked' = [asked EXCEPT ![h] = Visible(h).proxy]
    /\ UNCHANGED <<form, call>>

\* ... reads the row back, and drops the answer if the proxy has moved ...
CheckReturns(h) ==
    /\ call[h] = Idle
    /\ asked[h] # None
    /\ Select(h)
    /\ LET row == Visible(h)
       IN  Goto(h, IF row # None /\ row.proxy = asked[h]
                     THEN [at |-> "answering", check |-> asked[h]] ELSE Idle)
    /\ asked' = [asked EXCEPT ![h] = None]
    /\ UNCHANGED form

\* ... and set_proxy_check writes that column alone.
CheckWrites(h) ==
    /\ call[h].at = "answering"
    /\ IF stored = None THEN CommitNothing(h)
       ELSE Commit(h, [stored EXCEPT !.check = call[h].check])
    /\ Goto(h, Idle)
    /\ UNCHANGED <<form, asked>>

\* delete_profile: the row is read, its directory removed, the row deleted.
DeleteReads(h) ==
    /\ Reads(h)
    /\ Goto(h, [at |-> "deleting"])
    /\ UNCHANGED <<form, asked>>

Deletes(h) ==
    /\ call[h].at = "deleting"
    /\ IF stored = None THEN CommitNothing(h) ELSE Commit(h, None)
    /\ Goto(h, Idle)
    /\ UNCHANGED <<form, asked>>

\* The operation's write raises "database is locked".
WriteTimesOut(h) ==
    /\ call[h].at \in {"saving", "pinning", "answering", "deleting"}
    /\ TimeOut(h)
    /\ Goto(h, Idle)
    /\ UNCHANGED <<form, asked>>

\* Everything else the process does with its connection: usage log, leases,
\* other rows and tables.
OtherAccess(h) ==
    /\ call[h] = Idle
    /\ Select(h) \/ Commit(h, stored) \/ CommitNothing(h) \/ TimeOut(h)
    /\ UNCHANGED <<form, call, asked>>

Restart(h) ==
    /\ Reconnect(h)
    /\ Goto(h, Idle)
    /\ asked' = [asked EXCEPT ![h] = None]
    /\ UNCHANGED form

Next == \E h \in Process :
    \/ \E c \in Client : LoadForm(h, c)
    \/ \E edit \in Edit : \E seen \in {None} \cup {form[c] : c \in Client} : PutMerges(h, seen, edit)
    \/ ManagerReads(h) \/ RewriteReads(h) \/ Saves(h)
    \/ LaunchReads(h) \/ LaunchPins(h)
    \/ CheckStarts(h) \/ CheckReturns(h) \/ CheckWrites(h)
    \/ DeleteReads(h) \/ Deletes(h)
    \/ WriteTimesOut(h) \/ OtherAccess(h) \/ Restart(h)

Spec == Init /\ [][Next]_vars
=============================================================================
