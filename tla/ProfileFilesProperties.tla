----------------------- MODULE ProfileFilesProperties -----------------------
(***************************************************************************)
(* What keeps a profile's row and its directory together.                  *)
(***************************************************************************)
EXTENDS ProfileFiles

Lost(content) == content \in {"none", "part"}

\* Only its deletion takes files from a listed profile, and a profile is listed once
\* its directory is there: whatever is created, cloned, imported, cleaned up or dies
\* around it (cleanup_orphaned_profiles: "Remove profile directories that are not
\* present in the database").
OnlyDeletionTakesFiles ==
    [][\A p \in Profile :
         /\ p \in rows /\ ~Lost(dir[p]) /\ Lost(dir'[p]) =>
              \E h \in Process : call[h].at = "deleting" /\ call[h].profile = p
         /\ p \in rows' \ rows => dir'[p] # "none"]_vars

\* What an export sends was not written to while it was read, by a browser of any
\* process (export_profile: "Refuses while the browser is open - here or on any
\* other instance").
ArchiveIsWhole == \A h \in Process : call[h].at = "sending" => ~call[h].torn

\* A clean-up that nothing overlaps goes through with all it has found: what it could
\* not remove or make is all that still differs between the disk and the database,
\* whatever failures and crashes had left behind (auto_cleanup: "Remove orphaned
\* directories and create missing ones"; tests/unit/test_cleanup.py: "A locked or
\* permission-denied directory must not abort the run").
CleanupSettles ==
    [][\A h \in Process :
         Cleaning(h) /\ call'[h] = Idle =>
           /\ call[h].at = "cleaning"
           /\ OnDisk \ call[h].failed = rows \ call[h].failed]_vars
=============================================================================
