------------------------ MODULE ProfileRowProperties ------------------------
(***************************************************************************)
(* What editing one profile from several places must never do.             *)
(***************************************************************************)
EXTENDS ProfileRow

Content(row) == <<row.settings, row.proxy>>

\* Two reads of the profile that carry the same version carry the same settings
\* and proxy, whichever processes they went through: it is what makes comparing
\* versions a comparison of contents (save_profile: "safe ... from two places").
SameVersionSameContent ==
    \A c \in Client :
        stored # None /\ form[c] # None /\ form[c].version = stored.version
          => Content(form[c]) = Content(stored)

\* The profile an edit was meant to produce, by somebody who saw `row`.
Intended(row, edit) ==
    IF edit.kind = "settings" THEN <<[row.settings EXCEPT ![edit.part] = edit.value], row.proxy>>
    ELSE <<row.settings, edit.proxy>>

\* An accepted edit that sent its version changes exactly what it sent in exactly
\* what its author was looking at, and reverts nobody (api.md: "a save that landed
\* in between is refused ... instead of silently reverting it").
NoLostEdit ==
    [][\A h \in Process :
         /\ call[h].at = "saving" /\ call[h].seen # None
         /\ call'[h] = Idle /\ stored' # None /\ stored'.version # stored.version
         => Content(stored') = Intended(call[h].seen, call[h].edit)]_vars

\* A profile that was deleted while somebody was editing, checking or launching it
\* does not come back (_save_profile_if_unchanged: "a resurrection").
DeletedStaysDeleted == [][stored = None => stored' = None]_vars

\* Only an edit makes another edit stale: the version moves when a save lands and
\* not when a browser starts or a proxy is checked (set_launch_pin: "it must not
\* make a concurrent editor's save go stale").
OnlyEditsMakeStale ==
    [][stored # None /\ stored' # None /\ stored'.version # stored.version
         => \E h \in Process : call[h].at = "saving" /\ call'[h] = Idle]_vars

\* A process that is between operations holds no lock on the database that all the
\* others must wait for (acquire_lease: "Never blocks"; api.md: "The refusal writes
\* nothing").
NoLockLeftBehind == \A h \in Process : call[h] = Idle => txn[h] # "writer"
-----------------------------------------------------------------------------
(***************************************************************************)
(* Why SameVersionSameContent holds: whatever was read of the row, in a    *)
(* form or in the snapshot of a transaction, is not newer than the row and *)
(* is the row if it carries its version.                                   *)
(***************************************************************************)
Agrees(copy) ==
    copy # None /\ stored # None =>
        /\ copy.version <= stored.version
        /\ copy.version = stored.version => Content(copy) = Content(stored)

CopiesAgree ==
    /\ \A c \in Client : Agrees(form[c])
    /\ \A h \in Process : txn[h] = "reader" => Agrees(view[h])

\* A save under way has read a version it can still count up from.
RoomToSave == \A h \in Process : call[h].at = "saving" => call[h].profile.version < MaxVersion

RowInv == TypeOK /\ RoomToSave /\ CopiesAgree
-----------------------------------------------------------------------------
(***************************************************************************)
(* Why NoLostEdit holds.  An edit meets the row three times: its author    *)
(* saw it in a form, the route merged the settings into it, the manager    *)
(* compared its version.  Two of these may be stale, so what is seen       *)
(* anywhere is compared with each other and not only with the row.         *)
(***************************************************************************)

\* What is known of the row: it, the snapshots, the forms, and what the edits in
\* flight were made on.
Known ==
    {Shown(row) : row \in
        ({stored} \cup {view[h] : h \in {g \in Process : txn[g] = "reader"}}) \ {None}}
    \cup {x \in {form[c] : c \in Client}
              \cup {call[h].seen : h \in {g \in Process : call[g].at = "merged"}} : x # None}

KnownAgree == \A x, y \in Known : x.version = y.version => x = y

KnownAreOld == \A x \in Known : stored # None => x.version <= stored.version

\* If the version that the manager is about to read is still the author's, then so
\* was the one that the settings were merged into.
MergedAsSeen ==
    \A h \in Process :
        /\ call[h].at = "merged" /\ call[h].seen # None /\ call[h].edit.kind = "settings"
        /\ Visible(h) # None /\ Visible(h).version = call[h].seen.version
        => call[h].settings = Merge(call[h].seen.settings, call[h].edit)

SavesAsIntended ==
    \A h \in Process :
        call[h].at = "saving" /\ call[h].seen # None
          => Content(call[h].profile) = Intended(call[h].seen, call[h].edit)

EditInv ==
    TypeOK /\ RoomToSave /\ KnownAgree /\ KnownAreOld /\ MergedAsSeen /\ SavesAsIntended
=============================================================================
