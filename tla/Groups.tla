------------------------------- MODULE Groups -------------------------------
(***************************************************************************)
(* Profile groups: the profile_groups table, the group_id column of the    *)
(* profiles and the versions of their rows, worked on by several servers.  *)
(* No foreign key ties the column to the table; what keeps them together   *)
(* is the order of the statements here.                                    *)
(*                                                                         *)
(* Nothing in these operations suspends, so within a server they exclude   *)
(* each other; `call` is the operation a server is in the middle of when   *)
(* another one gets its turn between two statements.                       *)
(***************************************************************************)
EXTENDS Integers, SharedDatabase

CONSTANTS
    Group,        \* group ids, drawn at random and never twice
    Name,         \* group names; the column is UNIQUE
    Profile,
    Client,       \* edit forms and scripts holding a profile they have read
    Keep,         \* the value of an edit that is not about the group
    FreshNames,   \* whether nobody gives a group the name of another one
    MaxVersion    \* bound: edits the model makes of a profile

ASSUME KeepAssumption == Keep \notin Group /\ Keep # None /\ None \notin Group
ASSUME FreshNamesAssumption == FreshNames \in BOOLEAN
ASSUME MaxVersionAssumption == MaxVersion \in Nat

VARIABLES
    minted,       \* the group and profile ids drawn so far
    form,         \* what each client was last shown of a profile
    call

vars == <<dbVars, minted, form, call>>

GroupRow == [id : Group, name : Name]

Row == [version : 0 .. MaxVersion, group : Group \cup {None}]

Tables == [groups : SUBSET GroupRow, rows : [Profile -> Row \cup {None}]]

Form == [profile : Profile, row : Row]

\* One edit of each profile in todo: a PUT of one, a bulk update of several, or the
\* part of a group's deletion that takes its members out of it.
Job == [kind : {"put", "bulk", "delete"}, todo : SUBSET Profile,
        value : Group \cup {None, Keep}, seen : (0 .. MaxVersion) \cup {None},
        doomed : Group \cup {None}]

Idle == [at |-> "idle"]

Call ==
    {Idle}
    \cup [at : {"renaming"}, group : GroupRow]
    \cup [at : {"listing"}, doomed : Group]
    \cup [at : {"working"}, job : Job]
    \cup [at : {"saving"}, job : Job, profile : Profile, read : Row, row : Row]

TypeOK ==
    /\ DbTypeOK(Tables)
    /\ stored \in Tables
    /\ \A h \in Process : txn[h] = "reader" => view[h] \in Tables
    /\ minted \subseteq Group \cup Profile
    /\ form \in [Client -> Form \cup {None}]
    /\ call \in [Process -> Call]

Init ==
    /\ DbInit([groups |-> {}, rows |-> [p \in Profile |-> None]])
    /\ minted = {}
    /\ form = [c \in Client |-> None]
    /\ call = [h \in Process |-> Idle]

-----------------------------------------------------------------------------
Goto(h, state) == call' = [call EXCEPT ![h] = state]

Ids(groups) == {g.id : g \in groups}

Members(tables, g) == {p \in Profile : tables.rows[p] # None /\ tables.rows[p].group = g}

\* A client can name any group that it has ever been told of.
Nameable == {None} \cup (Group \cap minted)

\* INSERT OR REPLACE: the row of that id goes, and so does another of that name.
Replace(group) ==
    [stored EXCEPT !.groups = {g \in @ : g.id # group.id /\ g.name # group.name} \cup {group}]

Taken(group) == \E g \in stored.groups : g.name = group.name /\ g.id # group.id

\* POST /groups
CreateGroup(h, name) ==
    /\ call[h] = Idle
    /\ \E id \in Group \ minted :
         LET group == [id |-> id, name |-> name]
         IN  /\ FreshNames => ~Taken(group)
             /\ Commit(h, Replace(group))
             /\ minted' = minted \cup {id}
    /\ UNCHANGED <<form, call>>

\* PUT /groups/{id}: the group is read ...
UpdateGroupReads(h, name) ==
    /\ call[h] = Idle
    /\ Select(h)
    /\ \E g \in Visible(h).groups : Goto(h, [at |-> "renaming", group |-> [g EXCEPT !.name = name]])
    /\ UNCHANGED <<minted, form>>

\* ... and saved, whether or not it is still there.
UpdateGroupSaves(h) ==
    /\ call[h].at = "renaming"
    /\ FreshNames => ~Taken(call[h].group)
    /\ Commit(h, Replace(call[h].group))
    /\ Goto(h, Idle)
    /\ UNCHANGED <<minted, form>>

\* DELETE /groups/{id}: the group is looked for, its profiles are listed ...
DeleteGroupFinds(h, id) ==
    /\ call[h] = Idle
    /\ id \in Ids(Visible(h).groups)
    /\ Select(h)
    /\ Goto(h, [at |-> "listing", doomed |-> id])
    /\ UNCHANGED <<minted, form>>

DeleteGroupLists(h) ==
    /\ call[h].at = "listing"
    /\ Select(h)
    /\ LET id == call[h].doomed
       IN  Goto(h, [at |-> "working",
                    job |-> [kind |-> "delete", todo |-> Members(Visible(h), id),
                             value |-> None, seen |-> None, doomed |-> id]])
    /\ UNCHANGED <<minted, form>>

\* ... each is edited under its version (EditReads, EditSaves) ...

\* Mutant: the profiles have just been taken out one by one, so only the group goes.
DeleteGroupEndsBare(h) ==
    /\ call[h].at = "working"
    /\ call[h].job.kind = "delete" /\ call[h].job.todo = {}
    /\ LET id == call[h].job.doomed
       IN  IF id \in Ids(stored.groups)
             THEN Commit(h, [stored EXCEPT !.groups = {g \in @ : g.id # id}])
             ELSE CommitNothing(h)
    /\ Goto(h, Idle)
    /\ UNCHANGED <<minted, form>>

\* ... then, in one transaction, whoever is still in the group leaves it, without a
\* new version, and the group goes.
DeleteGroupEnds(h) ==
    /\ call[h].at = "working"
    /\ call[h].job.kind = "delete" /\ call[h].job.todo = {}
    /\ LET id == call[h].job.doomed
           left == Members(stored, id)
       IN  IF id \notin Ids(stored.groups) /\ left = {} THEN CommitNothing(h)
           ELSE Commit(h, [groups |-> {g \in stored.groups : g.id # id},
                           rows |-> [p \in Profile |->
                                       IF p \in left THEN [stored.rows[p] EXCEPT !.group = None]
                                       ELSE stored.rows[p]]])
    /\ Goto(h, Idle)
    /\ UNCHANGED <<minted, form>>

-----------------------------------------------------------------------------
\* POST /profiles, a clone, an import or a spreadsheet row; the group is not looked up.
CreateProfile(h, p, group) ==
    /\ call[h] = Idle
    /\ p \notin minted
    /\ Commit(h, [stored EXCEPT !.rows[p] = [version |-> 0, group |-> group]])
    /\ minted' = minted \cup {p}
    /\ UNCHANGED <<form, call>>

\* Mutant: no 404 for a profile that is not there.
LoadFormOfMissing(h, c, p) ==
    /\ call[h] = Idle
    /\ Select(h)
    /\ form' = [form EXCEPT ![c] = [profile |-> p, row |-> Visible(h).rows[p]]]
    /\ UNCHANGED <<minted, call>>

\* GET /profiles/{id}, into a form
LoadForm(h, c, p) ==
    /\ call[h] = Idle
    /\ Visible(h).rows[p] # None
    /\ Select(h)
    /\ form' = [form EXCEPT ![c] = [profile |-> p, row |-> Visible(h).rows[p]]]
    /\ UNCHANGED <<minted, call>>

\* PUT /profiles/{id} from a form, with its version or without; or bulk_update_profiles.
Starts(h, job) ==
    /\ call[h] = Idle
    /\ Goto(h, [at |-> "working", job |-> job])
    /\ UNCHANGED <<dbVars, minted, form>>

Puts(h, c, value) ==
    /\ form[c] # None
    /\ \E seen \in {None, form[c].row.version} :
         Starts(h, [kind |-> "put", todo |-> {form[c].profile}, value |-> value,
                    seen |-> seen, doomed |-> None])

BulkUpdates(h, value) ==
    \E todo \in SUBSET (Profile \cap minted) :
        /\ todo # {}
        /\ Starts(h, [kind |-> "bulk", todo |-> todo, value |-> value,
                      seen |-> None, doomed |-> None])

\* What is left of a job once it is done with p; a deletion goes on to its end.
Rest(job, p) ==
    LET rest == [job EXCEPT !.todo = @ \ {p}]
    IN  IF rest.todo = {} /\ job.kind # "delete" THEN Idle ELSE [at |-> "working", job |-> rest]

\* update_profile reads the row: one that is gone is passed over, one whose version
\* is not the client's refused.
EditReads(h) ==
    /\ call[h].at = "working"
    /\ LET job == call[h].job
       IN  \E p \in job.todo :
             LET row == Visible(h).rows[p]
             IN  /\ row # None => row.version < MaxVersion
                 /\ Goto(h, IF row = None \/ (job.seen # None /\ job.seen # row.version)
                              THEN Rest(job, p)
                              ELSE [at |-> "saving", job |-> job, profile |-> p, read |-> row,
                                    row |-> IF job.value = Keep THEN row
                                            ELSE [row EXCEPT !.group = job.value]])
    /\ Select(h)
    /\ UNCHANGED <<minted, form>>

Bumped(row) == [row EXCEPT !.version = @ + 1]

\* Mutant: the upsert of save_profile without a version.
EditSavesUpsert(h) ==
    /\ call[h].at = "saving"
    /\ Commit(h, [stored EXCEPT !.rows[call[h].profile] = Bumped(call[h].row)])
    /\ Goto(h, Rest(call[h].job, call[h].profile))
    /\ UNCHANGED <<minted, form>>

\* Mutant: the version is compared but not counted up.
EditSavesUnbumped(h) ==
    /\ call[h].at = "saving"
    /\ LET p == call[h].profile
           new == call[h].row
       IN  IF stored.rows[p] # None /\ stored.rows[p].version = new.version
             THEN Commit(h, [stored EXCEPT !.rows[p] = new])
             ELSE LeaveOpen(h)
    /\ Goto(h, Rest(call[h].job, call[h].profile))
    /\ UNCHANGED <<minted, form>>

\* What a job does when one of its edits raises: a bulk update goes on to the next
\* profile, a request or a deletion ends there.
Raised(job, p) == IF job.kind = "bulk" THEN Rest(job, p) ELSE Idle

\* The guarded UPDATE of the whole row; on no match StaleWriteError before the commit.
EditSaves(h) ==
    /\ call[h].at = "saving"
    /\ LET p == call[h].profile
           new == call[h].row
           job == call[h].job
       IN  IF stored.rows[p] # None /\ stored.rows[p].version = new.version
             THEN /\ Commit(h, [stored EXCEPT !.rows[p] = Bumped(new)])
                  /\ Goto(h, Rest(job, p))
             ELSE LeaveOpen(h) /\ Goto(h, Raised(job, p))
    /\ UNCHANGED <<minted, form>>

\* A write raises "database is locked".
WriteTimesOut(h) ==
    /\ TimeOut(h)
    /\ \/ call[h].at = "saving" /\ Goto(h, Raised(call[h].job, call[h].profile))
       \/ /\ \/ call[h].at = "renaming"
             \/ call[h].at = "working" /\ call[h].job.kind = "delete" /\ call[h].job.todo = {}
          /\ Goto(h, Idle)
    /\ UNCHANGED <<minted, form>>

DeleteProfile(h, p) ==
    /\ call[h] = Idle
    /\ stored.rows[p] # None
    /\ Commit(h, [stored EXCEPT !.rows[p] = None])
    /\ UNCHANGED <<minted, form, call>>

\* Everything else a server does with its connection.
OtherAccess(h) ==
    /\ call[h] = Idle
    /\ Select(h) \/ Commit(h, stored) \/ CommitNothing(h) \/ TimeOut(h)
    /\ UNCHANGED <<minted, form, call>>

Restart(h) ==
    /\ Reconnect(h)
    /\ Goto(h, Idle)
    /\ UNCHANGED <<minted, form>>

Next == \E h \in Process :
    \/ \E name \in Name : CreateGroup(h, name) \/ UpdateGroupReads(h, name)
    \/ UpdateGroupSaves(h)
    \/ \E id \in Group : DeleteGroupFinds(h, id)
    \/ DeleteGroupLists(h) \/ DeleteGroupEnds(h)
    \/ \E p \in Profile :
         \/ \E group \in Nameable : CreateProfile(h, p, group)
         \/ \E c \in Client : LoadForm(h, c, p)
         \/ DeleteProfile(h, p)
    \/ \E value \in Nameable \cup {Keep} :
         \/ \E c \in Client : Puts(h, c, value)
         \/ BulkUpdates(h, value)
    \/ EditReads(h) \/ EditSaves(h) \/ WriteTimesOut(h)
    \/ OtherAccess(h) \/ Restart(h)

Spec == Init /\ [][Next]_vars
=============================================================================
