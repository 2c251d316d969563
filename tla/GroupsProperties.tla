-------------------------- MODULE GroupsProperties --------------------------
(***************************************************************************)
(* What working on groups and their profiles at once must never do.        *)
(***************************************************************************)
EXTENDS Groups

\* A group does not disappear while a profile is in it: its deletion takes out
\* everybody, those who joined after it listed them too, in the transaction that
\* removes it; and one that stops half way leaves the group to those still in it
\* (api.md: "Deleting a group keeps its profiles; they become ungrouped").
NoOneLeftBehind ==
    [][\A id \in Ids(stored.groups) \ Ids(stored'.groups) : Members(stored', id) = {}]_vars

\* What a copy of a profile says of its group is what the row says, if it carries
\* the row's version; the only change a version does not count is that the deletion
\* of the group took the profile out of it (delete_profile_group).
Current(p, copy) ==
    stored.rows[p] # None /\ copy.version = stored.rows[p].version
        => stored.rows[p].group \in {copy.group, None}

VersionNamesGroup ==
    /\ \A c \in Client : form[c] # None => Current(form[c].profile, form[c].row)
    /\ \A h \in Process : call[h].at = "saving" => Current(call[h].profile, call[h].read)

\* An edit that is not about the group never moves a profile from one group to
\* another; at worst it puts back the group that a deletion took the profile out of
\* between its read and its save.
EditsKeepGroup ==
    [][\A h \in Process :
         call[h].at = "saving" /\ call[h].job.value = Keep /\ call'[h] # call[h] =>
           LET was == stored.rows[call[h].profile]
               is == stored'.rows[call[h].profile]
           IN  was # None /\ is # None => was.group \in {is.group, None}]_vars
=============================================================================
