---------------------------- MODULE GroupsProofs ----------------------------
(***************************************************************************)
(* Theorems about Groups for every number of servers, clients, groups and  *)
(* profiles, and every bound on versions.                                  *)
(***************************************************************************)
EXTENDS GroupsProperties, TLAPS

\* A copy of profile p that somebody took while ids were the ids drawn: the row has
\* not gone back behind it, and says the same of the group while it is at the same
\* version, unless the group's deletion took the profile out.
Copied(tables, ids, p, copy) ==
    /\ p \in Profile \cap ids
    /\ copy \in Row
    /\ tables.rows[p] # None =>
         /\ copy.version <= tables.rows[p].version
         /\ copy.version = tables.rows[p].version => tables.rows[p].group \in {copy.group, None}

\* What is about to be saved is a copy with, at most, another group.
SaveTrue(tables, ids, state) ==
    state.at = "saving" =>
        /\ Copied(tables, ids, state.profile, state.read)
        /\ state.read.version < MaxVersion
        /\ state.row = IF state.job.value = Keep THEN state.read
                       ELSE [state.read EXCEPT !.group = state.job.value]

DbTyped ==
    /\ stored \in Tables
    /\ txn \in [Process -> Txn]
    /\ view \in [Process -> Tables \cup {None}]
    /\ behind \subseteq {h \in Process : txn[h] = "reader"}
    /\ \A h \in Process : txn[h] = "reader" => view[h] \in Tables

RowsMinted == \A p \in Profile : stored.rows[p] # None => p \in minted

ViewsTrue ==
    \A h \in Process : txn[h] = "reader" =>
        \A p \in Profile : view[h].rows[p] # None => Copied(stored, minted, p, view[h].rows[p])

FormsTrue == \A c \in Client : form[c] # None => Copied(stored, minted, form[c].profile, form[c].row)

SavesTrue == \A h \in Process : SaveTrue(stored, minted, call[h])

GroupsInv ==
    /\ DbTyped
    /\ minted \subseteq Group \cup Profile
    /\ form \in [Client -> Form \cup {None}]
    /\ call \in [Process -> Call]
    /\ RowsMinted
    /\ ViewsTrue
    /\ FormsTrue
    /\ SavesTrue

-----------------------------------------------------------------------------
\* What a step may do to what the connections read: nothing, end it, or fix it to
\* what was stored.
ViewStep ==
    \A g \in Process : txn'[g] = "reader" =>
        view'[g] = stored \/ (txn[g] = "reader" /\ view'[g] = view[g])

\* What a step may do to the row of a profile: nothing, take it away, take the profile
\* out of its group, count its version up, or make it anew under an id never used.
Moves(p) ==
    LET was == stored.rows[p]
        is == stored'.rows[p]
    IN  \/ is = was
        \/ is = None
        \/ was # None /\ is.version = was.version /\ is.group = None
        \/ was # None /\ is.version = was.version + 1
        \/ was = None /\ p \notin minted /\ p \in minted'

LEMMA StatementsKeep ==
    ASSUME DbTyped, NEW h \in Process
    PROVE  /\ Select(h) => DbTyped' /\ ViewStep /\ stored' = stored
           /\ \A new \in Tables : Commit(h, new) => DbTyped' /\ ViewStep /\ stored' = new
           /\ CommitNothing(h) => DbTyped' /\ ViewStep /\ stored' = stored
           /\ LeaveOpen(h) => DbTyped' /\ ViewStep /\ stored' = stored
           /\ TimeOut(h) => DbTyped' /\ ViewStep /\ stored' = stored
           /\ Reconnect(h) => DbTyped' /\ ViewStep /\ stored' = stored
           /\ UNCHANGED dbVars => DbTyped' /\ ViewStep /\ stored' = stored
<1> USE DEF DbTyped, ViewStep, Txn
<1>1. Select(h) => DbTyped' /\ ViewStep /\ stored' = stored
  BY DEF Select
<1>2. ASSUME NEW new \in Tables, Commit(h, new) PROVE DbTyped' /\ ViewStep /\ stored' = new
  BY <1>2 DEF Commit, EndTransaction
<1>3. CommitNothing(h) => DbTyped' /\ ViewStep /\ stored' = stored
  BY DEF CommitNothing, EndTransaction, MayWrite
<1>4. LeaveOpen(h) => DbTyped' /\ ViewStep /\ stored' = stored
  BY DEF LeaveOpen, MayWrite
<1>5. TimeOut(h) => DbTyped' /\ ViewStep /\ stored' = stored
  BY DEF TimeOut
<1>6. Reconnect(h) => DbTyped' /\ ViewStep /\ stored' = stored
  BY DEF Reconnect, EndTransaction
<1>7. UNCHANGED dbVars => DbTyped' /\ ViewStep /\ stored' = stored
  BY DEF dbVars
<1>8. QED
  BY <1>1, <1>2, <1>3, <1>4, <1>5, <1>6, <1>7

LEMMA RowsTyped ==
    ASSUME NEW tables \in Tables, NEW p \in Profile
    PROVE  /\ tables.rows[p] \in Row \cup {None}
           /\ tables.rows[p] # None =>
                /\ tables.rows[p].version \in 0 .. MaxVersion
                /\ tables.rows[p].group \in Group \cup {None}
BY DEF Tables, Row

LEMMA CopyMoves ==
    ASSUME DbTyped, DbTyped', minted \subseteq minted', NEW p, NEW copy,
           p \in Profile => Moves(p), Copied(stored, minted, p, copy)
    PROVE  Copied(stored', minted', p, copy)
<1>1. p \in Profile /\ p \in minted /\ p \in minted' /\ copy \in Row
  BY DEF Copied
<1>2. copy.version \in Int
  BY <1>1, MaxVersionAssumption DEF Row
<1>3. stored.rows[p] # None => stored.rows[p].version \in Int
  BY <1>1, RowsTyped, MaxVersionAssumption DEF DbTyped
<1>4. QED
  BY <1>1, <1>2, <1>3 DEF Copied, Moves

\* A step that does no more than that to rows and connections, and takes no other
\* copies than true ones, keeps the invariant.
LEMMA CopiesKept ==
    ASSUME GroupsInv, DbTyped', ViewStep, \A p \in Profile : Moves(p),
           minted \subseteq minted', minted' \subseteq Group \cup Profile,
           form' \in [Client -> Form \cup {None}],
           \A c \in Client : form'[c] # None =>
               form'[c] = form[c] \/ Copied(stored, minted, form'[c].profile, form'[c].row),
           call' \in [Process -> Call],
           \A h \in Process : call'[h] = call[h] \/ SaveTrue(stored, minted, call'[h])
    PROVE  GroupsInv'
<1>0. DbTyped /\ RowsMinted /\ ViewsTrue /\ FormsTrue /\ SavesTrue
  BY DEF GroupsInv
<1>1. RowsMinted'
  BY <1>0 DEF RowsMinted, Moves
<1>2. ASSUME NEW p, NEW copy, Copied(stored, minted, p, copy)
      PROVE  Copied(stored', minted', p, copy)
  BY <1>0, <1>2, CopyMoves
<1>3. ViewsTrue'
  <2> SUFFICES ASSUME NEW h \in Process, txn'[h] = "reader", NEW p \in Profile,
                      view'[h].rows[p] # None
               PROVE  Copied(stored', minted', p, view'[h].rows[p])
    BY DEF ViewsTrue
  <2>1. Copied(stored, minted, p, view'[h].rows[p])
    <3>1. CASE view'[h] = stored
      <4>1. stored.rows[p] \in Row /\ p \in minted
        BY <3>1, <1>0, RowsTyped DEF DbTyped, RowsMinted
      <4>2. stored.rows[p].version \in Int
        BY <4>1, MaxVersionAssumption DEF Row
      <4>3. QED
        BY <3>1, <4>1, <4>2 DEF Copied
    <3>2. CASE txn[h] = "reader" /\ view'[h] = view[h]
      BY <3>2, <1>0 DEF ViewsTrue
    <3>3. QED
      BY <3>1, <3>2 DEF ViewStep
  <2>2. QED
    BY <2>1, <1>2
<1>4. FormsTrue'
  <2> SUFFICES ASSUME NEW c \in Client, form'[c] # None
               PROVE  Copied(stored', minted', form'[c].profile, form'[c].row)
    BY DEF FormsTrue
  <2>1. Copied(stored, minted, form'[c].profile, form'[c].row)
    BY <1>0 DEF FormsTrue
  <2>2. QED
    BY <2>1, <1>2
<1>5. SavesTrue'
  <2> SUFFICES ASSUME NEW h \in Process PROVE SaveTrue(stored', minted', call'[h])
    BY DEF SavesTrue
  <2>1. SaveTrue(stored, minted, call'[h])
    BY <1>0 DEF SavesTrue
  <2>2. call'[h].at = "saving" => Copied(stored', minted', call'[h].profile, call'[h].read)
    BY <2>1, <1>2 DEF SaveTrue
  <2>3. QED
    BY <2>1, <2>2 DEF SaveTrue
<1>6. QED
  BY <1>1, <1>3, <1>4, <1>5 DEF GroupsInv

-----------------------------------------------------------------------------
LEMMA GroupsInit == Init => GroupsInv
<1> SUFFICES ASSUME Init PROVE GroupsInv
  OBVIOUS
<1>1. stored = [groups |-> {}, rows |-> [p \in Profile |-> None]]
  BY DEF Init, DbInit
<1>2. DbTyped /\ \A h \in Process : txn[h] # "reader"
  BY <1>1 DEF Init, DbInit, DbTyped, Txn, Tables
<1>3. call \in [Process -> Call] /\ \A h \in Process : call[h].at # "saving"
  BY DEF Init, Call, Idle
<1>4. RowsMinted
  BY <1>1 DEF RowsMinted
<1>5. QED
  BY <1>2, <1>3, <1>4 DEF Init, GroupsInv, ViewsTrue, FormsTrue, SavesTrue, SaveTrue

\* A step that at most reads, or writes nothing, and goes on to a state that is not
\* about to save.
LEMMA CallMoves ==
    ASSUME GroupsInv, DbTyped', ViewStep, \A p \in Profile : Moves(p),
           minted \subseteq minted', minted' \subseteq Group \cup Profile, UNCHANGED form,
           NEW h \in Process, NEW state \in Call, Goto(h, state), state.at # "saving"
    PROVE  GroupsInv'
<1>1. call' \in [Process -> Call] /\ \A g \in Process : call'[g] = call[g] \/ call'[g] = state
  BY DEF GroupsInv, Goto
<1>2. form' \in [Client -> Form \cup {None}] /\ \A c \in Client : form'[c] = form[c]
  BY DEF GroupsInv
<1>3. SaveTrue(stored, minted, state)
  BY DEF SaveTrue
<1>4. QED
  BY <1>1, <1>2, <1>3, CopiesKept

LEMMA CallStays ==
    ASSUME GroupsInv, DbTyped', ViewStep, \A p \in Profile : Moves(p),
           minted \subseteq minted', minted' \subseteq Group \cup Profile, UNCHANGED <<form, call>>
    PROVE  GroupsInv'
<1>1. call' \in [Process -> Call] /\ \A g \in Process : call'[g] = call[g]
  BY DEF GroupsInv
<1>2. form' \in [Client -> Form \cup {None}] /\ \A c \in Client : form'[c] = form[c]
  BY DEF GroupsInv
<1>3. QED
  BY <1>1, <1>2, CopiesKept

\* The tables each commit makes.
LEMMA ReplaceTables ==
    ASSUME stored \in Tables, NEW group \in GroupRow
    PROVE  Replace(group) \in Tables /\ Replace(group).rows = stored.rows
BY DEF Tables, Replace

LEMMA RowTables ==
    ASSUME stored \in Tables, NEW p \in Profile, NEW row \in Row \cup {None}
    PROVE  /\ [stored EXCEPT !.rows[p] = row] \in Tables
           /\ [stored EXCEPT !.rows[p] = row].groups = stored.groups
           /\ \A q \in Profile : [stored EXCEPT !.rows[p] = row].rows[q] =
                                   IF q = p THEN row ELSE stored.rows[q]
BY DEF Tables

Ended(id) ==
    [groups |-> {g \in stored.groups : g.id # id},
     rows |-> [p \in Profile |->
                 IF p \in Members(stored, id) THEN [stored.rows[p] EXCEPT !.group = None]
                 ELSE stored.rows[p]]]

LEMMA EndedTables ==
    ASSUME stored \in Tables, NEW id
    PROVE  /\ Ended(id) \in Tables
           /\ \A p \in Profile :
                \/ Ended(id).rows[p] = stored.rows[p]
                \/ /\ stored.rows[p] # None
                   /\ Ended(id).rows[p].version = stored.rows[p].version
                   /\ Ended(id).rows[p].group = None
<1>1. ASSUME NEW p \in Members(stored, id)
      PROVE  /\ p \in Profile /\ stored.rows[p] # None
             /\ stored.rows[p] \in Row
             /\ [stored.rows[p] EXCEPT !.group = None] \in Row
             /\ [stored.rows[p] EXCEPT !.group = None].version = stored.rows[p].version
             /\ [stored.rows[p] EXCEPT !.group = None].group = None
  <2>1. p \in Profile /\ stored.rows[p] # None
    BY <1>1 DEF Members
  <2>2. stored.rows[p] \in Row
    BY <2>1, RowsTyped
  <2>3. QED
    BY <2>1, <2>2 DEF Row
<1>2. ASSUME NEW p \in Profile PROVE stored.rows[p] \in Row \cup {None}
  BY <1>2, RowsTyped
<1>3. Ended(id) \in Tables
  BY <1>1, <1>2 DEF Ended, Tables
<1>4. QED
  BY <1>1, <1>3 DEF Ended

-----------------------------------------------------------------------------
LEMMA BumpedTables ==
    ASSUME GroupsInv, NEW h \in Process, call[h].at = "saving",
           stored.rows[call[h].profile] # None,
           stored.rows[call[h].profile].version = call[h].row.version
    PROVE  LET p == call[h].profile
               was == stored.rows[p]
               is == Bumped(call[h].row)
           IN  /\ p \in Profile /\ p \in minted
               /\ is \in Row
               /\ is.version = was.version + 1
               /\ is.group = call[h].row.group
               /\ call[h].job.value = Keep => was.group \in {is.group, None}
<1> DEFINE p == call[h].profile
           row == call[h].row
           read == call[h].read
<1>1. call[h] \in Call
  BY DEF GroupsInv
<1>2. row \in Row /\ call[h].job \in Job
  BY <1>1 DEF Call, Idle
<1>3. /\ Copied(stored, minted, p, read)
      /\ read.version < MaxVersion
      /\ row = IF call[h].job.value = Keep THEN read
               ELSE [read EXCEPT !.group = call[h].job.value]
  BY DEF GroupsInv, SavesTrue, SaveTrue
<1>4. p \in Profile /\ p \in minted /\ read \in Row
  BY <1>3 DEF Copied
<1>5. row.version = read.version
  BY <1>3, <1>4 DEF Row
<1>6. /\ Bumped(row) \in Row /\ Bumped(row).version = row.version + 1
      /\ Bumped(row).group = row.group
  <2>1. row.version \in 0 .. MaxVersion /\ row.version + 1 \in 0 .. MaxVersion
    BY <1>2, <1>3, <1>5, MaxVersionAssumption DEF Row
  <2>2. QED
    BY <1>2, <2>1 DEF Bumped, Row
<1>7. call[h].job.value = Keep => stored.rows[p].group \in {row.group, None}
  BY <1>3, <1>5 DEF Copied
<1>8. QED
  BY <1>4, <1>6, <1>7

LEMMA RestTyped ==
    ASSUME NEW job \in Job, NEW p
    PROVE  /\ Rest(job, p) \in Call /\ Rest(job, p).at # "saving"
           /\ Raised(job, p) \in Call /\ Raised(job, p).at # "saving"
<1>1. [job EXCEPT !.todo = @ \ {p}] \in Job
  BY DEF Job
<1>2. [at |-> "working", job |-> [job EXCEPT !.todo = @ \ {p}]] \in Call
  BY <1>1 DEF Call
<1>3. Idle \in Call /\ Idle.at # "saving"
  BY DEF Call, Idle
<1>4. QED
  BY <1>2, <1>3 DEF Rest, Raised

LEMMA ReadsTables ==
    ASSUME GroupsInv, NEW h \in Process
    PROVE  /\ Visible(h) \in Tables
           /\ \A p \in Profile : Visible(h).rows[p] # None =>
                Copied(stored, minted, p, Visible(h).rows[p])
<1>1. Visible(h) \in Tables
  BY DEF GroupsInv, DbTyped, Visible
<1>2. ASSUME NEW p \in Profile, Visible(h).rows[p] # None
      PROVE  Copied(stored, minted, p, Visible(h).rows[p])
  <2>1. CASE txn[h] = "reader"
    BY <1>2, <2>1 DEF GroupsInv, ViewsTrue, Visible
  <2>2. CASE txn[h] # "reader"
    <3>1. Visible(h).rows[p] = stored.rows[p] /\ stored.rows[p] \in Row /\ p \in minted
      BY <1>1, <1>2, <2>2, RowsTyped DEF Visible, GroupsInv, RowsMinted
    <3>2. stored.rows[p].version \in Int
      BY <3>1, MaxVersionAssumption DEF Row
    <3>3. QED
      BY <3>1, <3>2 DEF Copied
  <2>3. QED
    BY <2>1, <2>2
<1>3. QED
  BY <1>1, <1>2

LEMMA GroupsStep == GroupsInv /\ [Next]_vars => GroupsInv'
<1> SUFFICES ASSUME GroupsInv, [Next]_vars PROVE GroupsInv'
  OBVIOUS
<1>a. /\ DbTyped /\ stored \in Tables
      /\ minted \subseteq Group \cup Profile
      /\ form \in [Client -> Form \cup {None}]
      /\ call \in [Process -> Call]
  BY DEF GroupsInv, DbTyped
<1>b. stored' = stored => \A p \in Profile : Moves(p)
  BY DEF Moves
<1>c. stored'.rows = stored.rows => \A p \in Profile : Moves(p)
  BY DEF Moves
<1>d. Idle \in Call /\ Idle.at # "saving"
  BY DEF Call, Idle
<1>e. Nameable \subseteq Group \cup {None}
  BY DEF Nameable
<1>1. ASSUME NEW h \in Process, NEW name \in Name, CreateGroup(h, name) PROVE GroupsInv'
  <2>1. PICK id \in Group \ minted :
          /\ Commit(h, Replace([id |-> id, name |-> name]))
          /\ minted' = minted \cup {id}
    BY <1>1 DEF CreateGroup
  <2>2. [id |-> id, name |-> name] \in GroupRow
    BY DEF GroupRow
  <2>3. DbTyped' /\ ViewStep /\ stored'.rows = stored.rows
    BY <2>1, <2>2, <1>a, StatementsKeep, ReplaceTables
  <2>4. minted \subseteq minted' /\ minted' \subseteq Group \cup Profile
    BY <2>1, <1>a
  <2>5. QED
    BY <2>3, <2>4, <1>1, <1>c, CallStays DEF CreateGroup
<1>2. ASSUME NEW h \in Process, NEW name \in Name, UpdateGroupReads(h, name) PROVE GroupsInv'
  <2>1. PICK g \in Visible(h).groups :
          Goto(h, [at |-> "renaming", group |-> [g EXCEPT !.name = name]])
    BY <1>2 DEF UpdateGroupReads
  <2>2. g \in GroupRow
    BY <2>1, ReadsTables DEF Tables
  <2>3. [at |-> "renaming", group |-> [g EXCEPT !.name = name]] \in Call
    BY <2>2 DEF Call, GroupRow
  <2>4. DbTyped' /\ ViewStep /\ stored' = stored /\ UNCHANGED <<minted, form>>
    BY <1>2, <1>a, StatementsKeep DEF UpdateGroupReads
  <2>5. QED
    BY <2>1, <2>3, <2>4, <1>a, <1>b, CallMoves
<1>3. ASSUME NEW h \in Process, UpdateGroupSaves(h) PROVE GroupsInv'
  <2>1. call[h].group \in GroupRow
    BY <1>3, <1>a DEF UpdateGroupSaves, Call, Idle
  <2>2. DbTyped' /\ ViewStep /\ stored'.rows = stored.rows
    BY <2>1, <1>3, <1>a, StatementsKeep, ReplaceTables DEF UpdateGroupSaves
  <2>3. QED
    BY <2>2, <1>3, <1>a, <1>c, <1>d, CallMoves DEF UpdateGroupSaves
<1>4. ASSUME NEW h \in Process, NEW id \in Group, DeleteGroupFinds(h, id) PROVE GroupsInv'
  <2>1. [at |-> "listing", doomed |-> id] \in Call
    BY DEF Call
  <2>2. DbTyped' /\ ViewStep /\ stored' = stored /\ UNCHANGED <<minted, form>>
    BY <1>4, <1>a, StatementsKeep DEF DeleteGroupFinds
  <2>3. QED
    BY <2>1, <2>2, <1>4, <1>a, <1>b, CallMoves DEF DeleteGroupFinds
<1>5. ASSUME NEW h \in Process, DeleteGroupLists(h) PROVE GroupsInv'
  <2> DEFINE id == call[h].doomed
             job == [kind |-> "delete", todo |-> Members(Visible(h), id),
                     value |-> None, seen |-> None, doomed |-> id]
  <2>1. id \in Group
    BY <1>5, <1>a DEF DeleteGroupLists, Call, Idle
  <2>2. job \in Job
    BY <2>1 DEF Job, Members
  <2>3. [at |-> "working", job |-> job] \in Call
    BY <2>2 DEF Call
  <2>4. DbTyped' /\ ViewStep /\ stored' = stored /\ UNCHANGED <<minted, form>>
    BY <1>5, <1>a, StatementsKeep DEF DeleteGroupLists
  <2>5. QED
    BY <2>3, <2>4, <1>5, <1>a, <1>b, CallMoves DEF DeleteGroupLists
<1>6. ASSUME NEW h \in Process, DeleteGroupEnds(h) PROVE GroupsInv'
  <2> DEFINE id == call[h].job.doomed
  <2>1. CommitNothing(h) \/ Commit(h, Ended(id))
    BY <1>6 DEF DeleteGroupEnds, Ended
  <2>2. DbTyped' /\ ViewStep /\ \A p \in Profile : Moves(p)
    <3>1. CASE CommitNothing(h)
      BY <3>1, <1>a, <1>b, StatementsKeep
    <3>2. CASE Commit(h, Ended(id))
      <4>1. DbTyped' /\ ViewStep /\ stored' = Ended(id)
        BY <3>2, <1>a, StatementsKeep, EndedTables
      <4>2. \A p \in Profile : Moves(p)
        BY <4>1, <1>a, EndedTables DEF Moves
      <4>3. QED
        BY <4>1, <4>2
    <3>3. QED
      BY <2>1, <3>1, <3>2
  <2>3. QED
    BY <2>2, <1>6, <1>a, <1>d, CallMoves DEF DeleteGroupEnds
<1>7. ASSUME NEW h \in Process, NEW p \in Profile, NEW group \in Nameable, CreateProfile(h, p, group)
      PROVE  GroupsInv'
  <2> DEFINE row == [version |-> 0, group |-> group]
             new == [stored EXCEPT !.rows[p] = row]
  <2>1. row \in Row
    BY <1>e, MaxVersionAssumption DEF Row
  <2>2. /\ new \in Tables
        /\ \A q \in Profile : new.rows[q] = IF q = p THEN row ELSE stored.rows[q]
    BY <2>1, <1>a, RowTables
  <2>3. Commit(h, new) /\ p \notin minted /\ minted' = minted \cup {p}
    BY <1>7 DEF CreateProfile
  <2> HIDE DEF new
  <2>4. DbTyped' /\ ViewStep /\ stored' = new
    BY <2>2, <2>3, <1>a, StatementsKeep
  <2>5. stored.rows[p] = None
    BY <2>3 DEF GroupsInv, RowsMinted
  <2>6. \A q \in Profile : Moves(q)
    BY <2>2, <2>3, <2>4, <2>5 DEF Moves
  <2>7. QED
    BY <2>3, <2>4, <2>6, <1>7, <1>a, CallStays DEF CreateProfile
<1>8. ASSUME NEW h \in Process, NEW c \in Client, NEW p \in Profile, LoadForm(h, c, p)
      PROVE  GroupsInv'
  <2>1. Copied(stored, minted, p, Visible(h).rows[p])
    BY <1>8, ReadsTables DEF LoadForm
  <2>2. form' = [form EXCEPT ![c] = [profile |-> p, row |-> Visible(h).rows[p]]]
    BY <1>8 DEF LoadForm
  <2>3. /\ form' \in [Client -> Form \cup {None}]
        /\ \A d \in Client : form'[d] # None =>
             form'[d] = form[d] \/ Copied(stored, minted, form'[d].profile, form'[d].row)
    BY <2>1, <2>2, <1>a DEF Form, Copied
  <2>4. DbTyped' /\ ViewStep /\ stored' = stored /\ UNCHANGED <<minted, call>>
    BY <1>8, <1>a, StatementsKeep DEF LoadForm
  <2>5. call' \in [Process -> Call] /\ \A g \in Process : call'[g] = call[g]
    BY <2>4, <1>a
  <2>6. QED
    BY <2>3, <2>4, <2>5, <1>a, <1>b, CopiesKept
<1>9. ASSUME NEW h \in Process, NEW job \in Job, Starts(h, job) PROVE GroupsInv'
  <2>1. [at |-> "working", job |-> job] \in Call
    BY DEF Call
  <2>2. DbTyped' /\ ViewStep /\ stored' = stored /\ UNCHANGED <<minted, form>>
    BY <1>9, <1>a, StatementsKeep DEF Starts
  <2>3. QED
    BY <2>1, <2>2, <1>9, <1>a, <1>b, CallMoves DEF Starts
<1>10. ASSUME NEW h \in Process, NEW c \in Client, NEW value \in Nameable \cup {Keep},
              Puts(h, c, value)
       PROVE  GroupsInv'
  <2>1. form[c] \in Form
    BY <1>10, <1>a DEF Puts
  <2>2. PICK seen \in {None, form[c].row.version} :
          Starts(h, [kind |-> "put", todo |-> {form[c].profile}, value |-> value,
                     seen |-> seen, doomed |-> None])
    BY <1>10 DEF Puts
  <2>3. [kind |-> "put", todo |-> {form[c].profile}, value |-> value,
         seen |-> seen, doomed |-> None] \in Job
    BY <2>1, <2>2, <1>e DEF Job, Form, Row
  <2>4. QED
    BY <2>2, <2>3, <1>9
<1>11. ASSUME NEW h \in Process, NEW value \in Nameable \cup {Keep}, BulkUpdates(h, value)
       PROVE  GroupsInv'
  <2>1. PICK todo \in SUBSET (Profile \cap minted) :
          Starts(h, [kind |-> "bulk", todo |-> todo, value |-> value,
                     seen |-> None, doomed |-> None])
    BY <1>11 DEF BulkUpdates
  <2>2. [kind |-> "bulk", todo |-> todo, value |-> value, seen |-> None, doomed |-> None] \in Job
    BY <2>1, <1>e DEF Job
  <2>3. QED
    BY <2>1, <2>2, <1>9
<1>12. ASSUME NEW h \in Process, EditReads(h) PROVE GroupsInv'
  <2> DEFINE job == call[h].job
  <2>1. job \in Job
    BY <1>12, <1>a DEF EditReads, Call, Idle
  <2>2. PICK p \in job.todo :
          LET row == Visible(h).rows[p]
          IN  /\ row # None => row.version < MaxVersion
              /\ Goto(h, IF row = None \/ (job.seen # None /\ job.seen # row.version)
                           THEN Rest(job, p)
                           ELSE [at |-> "saving", job |-> job, profile |-> p, read |-> row,
                                 row |-> IF job.value = Keep THEN row
                                         ELSE [row EXCEPT !.group = job.value]])
    BY <1>12 DEF EditReads
  <2> DEFINE row == Visible(h).rows[p]
             saving == [at |-> "saving", job |-> job, profile |-> p, read |-> row,
                        row |-> IF job.value = Keep THEN row
                                ELSE [row EXCEPT !.group = job.value]]
  <2>3. DbTyped' /\ ViewStep /\ stored' = stored /\ UNCHANGED <<minted, form>>
    BY <1>12, <1>a, StatementsKeep DEF EditReads
  <2>4. CASE row = None \/ (job.seen # None /\ job.seen # row.version)
    <3>1. Goto(h, Rest(job, p))
      BY <2>2, <2>4
    <3>2. QED
      BY <3>1, <2>1, <2>3, <1>a, <1>b, RestTyped, CallMoves
  <2>5. CASE ~(row = None \/ (job.seen # None /\ job.seen # row.version))
    <3>1. row # None /\ row.version < MaxVersion /\ Goto(h, saving)
      BY <2>2, <2>5
    <3>2. p \in Profile
      BY <2>1, <2>2 DEF Job
    <3>3. Copied(stored, minted, p, row) /\ row \in Row
      BY <3>1, <3>2, ReadsTables DEF Copied
    <3>4. job.value # Keep => [row EXCEPT !.group = job.value] \in Row
      BY <3>3, <2>1 DEF Row, Job
    <3>5. saving \in Call
      BY <3>2, <3>3, <3>4, <2>1 DEF Call
    <3>6. SaveTrue(stored, minted, saving)
      BY <3>1, <3>3 DEF SaveTrue
    <3>7. /\ call' \in [Process -> Call]
          /\ \A g \in Process : call'[g] = call[g] \/ SaveTrue(stored, minted, call'[g])
      <4> HIDE DEF saving
      <4>1. QED
        BY <3>1, <3>5, <3>6, <1>a DEF Goto
    <3>8. form' \in [Client -> Form \cup {None}] /\ \A c \in Client : form'[c] = form[c]
      BY <2>3, <1>a
    <3>9. QED
      BY <3>7, <3>8, <2>3, <1>a, <1>b, CopiesKept
  <2>6. QED
    BY <2>4, <2>5
<1>13. ASSUME NEW h \in Process, EditSaves(h) PROVE GroupsInv'
  <2> DEFINE p == call[h].profile
             new == call[h].row
             job == call[h].job
             tables == [stored EXCEPT !.rows[p] = Bumped(new)]
  <2>1. call[h].at = "saving" /\ job \in Job
    BY <1>13, <1>a DEF EditSaves, Call, Idle
  <2>2. CASE stored.rows[p] # None /\ stored.rows[p].version = new.version
    <3>1. Commit(h, tables) /\ Goto(h, Rest(job, p)) /\ UNCHANGED <<minted, form>>
      BY <1>13, <2>2 DEF EditSaves
    <3>2. p \in Profile /\ Bumped(new) \in Row /\ Bumped(new).version = stored.rows[p].version + 1
      BY <2>1, <2>2, BumpedTables
    <3>3. /\ tables \in Tables
          /\ \A q \in Profile : tables.rows[q] = IF q = p THEN Bumped(new) ELSE stored.rows[q]
      BY <3>2, <1>a, RowTables
    <3> HIDE DEF tables
    <3>4. DbTyped' /\ ViewStep /\ stored' = tables
      BY <3>1, <3>3, <1>a, StatementsKeep
    <3>5. \A q \in Profile : Moves(q)
      BY <2>2, <3>2, <3>3, <3>4 DEF Moves
    <3>6. QED
      BY <2>1, <3>1, <3>4, <3>5, <1>a, RestTyped, CallMoves
  <2>3. CASE ~(stored.rows[p] # None /\ stored.rows[p].version = new.version)
    <3>1. LeaveOpen(h) /\ Goto(h, Raised(job, p)) /\ UNCHANGED <<minted, form>>
      BY <1>13, <2>3 DEF EditSaves
    <3>2. QED
      BY <2>1, <3>1, <1>a, <1>b, StatementsKeep, RestTyped, CallMoves
  <2>4. QED
    BY <2>2, <2>3
<1>14. ASSUME NEW h \in Process, WriteTimesOut(h) PROVE GroupsInv'
  <2>1. DbTyped' /\ ViewStep /\ stored' = stored /\ UNCHANGED <<minted, form>>
    BY <1>14, <1>a, StatementsKeep DEF WriteTimesOut
  <2>2. CASE call[h].at = "saving" /\ Goto(h, Raised(call[h].job, call[h].profile))
    <3>1. call[h].job \in Job
      BY <2>2, <1>a DEF Call, Idle
    <3>2. QED
      BY <2>1, <2>2, <3>1, <1>a, <1>b, RestTyped, CallMoves
  <2>3. CASE Goto(h, Idle)
    BY <2>1, <2>3, <1>a, <1>b, <1>d, CallMoves
  <2>4. QED
    BY <2>2, <2>3, <1>14 DEF WriteTimesOut
<1>15. ASSUME NEW h \in Process, NEW p \in Profile, DeleteProfile(h, p) PROVE GroupsInv'
  <2> DEFINE new == [stored EXCEPT !.rows[p] = None]
  <2>1. /\ new \in Tables
        /\ \A q \in Profile : new.rows[q] = IF q = p THEN None ELSE stored.rows[q]
    BY <1>a, RowTables
  <2>2. Commit(h, new) /\ UNCHANGED <<minted, form, call>>
    BY <1>15 DEF DeleteProfile
  <2> HIDE DEF new
  <2>3. DbTyped' /\ ViewStep /\ stored' = new
    BY <2>1, <2>2, <1>a, StatementsKeep
  <2>4. \A q \in Profile : Moves(q)
    BY <2>1, <2>3 DEF Moves
  <2>5. QED
    BY <2>2, <2>3, <2>4, <1>a, CallStays
<1>16. ASSUME NEW h \in Process, OtherAccess(h) PROVE GroupsInv'
  BY <1>16, <1>a, <1>b, StatementsKeep, CallStays DEF OtherAccess
<1>17. ASSUME NEW h \in Process, Restart(h) PROVE GroupsInv'
  BY <1>17, <1>a, <1>b, <1>d, StatementsKeep, CallMoves DEF Restart
<1>18. CASE UNCHANGED vars
  <2>1. DbTyped' /\ ViewStep /\ stored' = stored
    BY <1>18, <1>a DEF vars, dbVars, DbTyped, ViewStep
  <2>2. QED
    BY <2>1, <1>18, <1>a, <1>b, CallStays DEF vars
<1>19. QED
  BY <1>1, <1>2, <1>3, <1>4, <1>5, <1>6, <1>7, <1>8, <1>10, <1>11, <1>12, <1>13, <1>14,
     <1>15, <1>16, <1>17, <1>18 DEF Next

LEMMA AlwaysGroups == Spec => []GroupsInv
BY GroupsInit, GroupsStep, PTL DEF Spec

-----------------------------------------------------------------------------
\* Groups, rows, forms and the operations servers are in the middle of are what they
\* should be, whatever is read from stale connections.
THEOREM GroupsTypeCorrect == Spec => []TypeOK
<1>1. GroupsInv => TypeOK
  BY DEF GroupsInv, DbTyped, TypeOK, DbTypeOK
<1>2. QED
  BY <1>1, AlwaysGroups, PTL

\* Whoever holds a copy at the row's version knows the row's group, or that it was
\* deleted (update_profile, delete_profile_group), for any number of servers.
THEOREM VersionsNameGroup == Spec => []VersionNamesGroup
<1>1. GroupsInv => VersionNamesGroup
  <2> SUFFICES ASSUME GroupsInv PROVE VersionNamesGroup
    OBVIOUS
  <2>1. ASSUME NEW p, NEW copy, Copied(stored, minted, p, copy) PROVE Current(p, copy)
    BY <2>1 DEF Copied, Current
  <2>2. ASSUME NEW c \in Client, form[c] # None PROVE Current(form[c].profile, form[c].row)
    BY <2>1, <2>2 DEF GroupsInv, FormsTrue
  <2>3. ASSUME NEW h \in Process, call[h].at = "saving"
        PROVE  Current(call[h].profile, call[h].read)
    BY <2>1, <2>3 DEF GroupsInv, SavesTrue, SaveTrue
  <2>4. QED
    BY <2>2, <2>3 DEF VersionNamesGroup
<1>2. QED
  BY <1>1, AlwaysGroups, PTL

-----------------------------------------------------------------------------
\* A process in the middle of a save leaves that by the save, by a write that timed
\* out, or by its end.
LEMMA WhoLeavesSaving ==
    ASSUME GroupsInv, [Next]_vars, NEW h \in Process, call[h].at = "saving", call'[h] # call[h]
    PROVE  EditSaves(h) \/ WriteTimesOut(h) \/ Restart(h)
<1>a. call \in [Process -> Call]
  BY DEF GroupsInv
<1>b. call[h] # Idle
  BY DEF Idle
<1>1. ASSUME NEW g \in Process, NEW state, Goto(g, state) PROVE g = h
  BY <1>1, <1>a DEF Goto
<1>2. ASSUME UNCHANGED call PROVE FALSE
  BY <1>2
<1>3. ASSUME NEW g \in Process
      PROVE  /\ \A name : ~CreateGroup(g, name) /\ ~UpdateGroupReads(g, name)
             /\ \A id : ~DeleteGroupFinds(g, id)
             /\ \A job : ~Starts(g, job)
             /\ \A p, x : ~CreateProfile(g, p, x) /\ ~LoadForm(g, x, p)
             /\ \A p : ~DeleteProfile(g, p)
             /\ ~UpdateGroupSaves(g) /\ ~DeleteGroupLists(g) /\ ~DeleteGroupEnds(g)
             /\ ~EditReads(g) /\ ~OtherAccess(g)
             /\ g # h => ~EditSaves(g) /\ ~WriteTimesOut(g) /\ ~Restart(g)
  <2>1. \A name : ~CreateGroup(g, name) /\ ~UpdateGroupReads(g, name)
    BY <1>1, <1>2, <1>b DEF CreateGroup, UpdateGroupReads
  <2>2. (\A id : ~DeleteGroupFinds(g, id)) /\ \A job : ~Starts(g, job)
    BY <1>1, <1>b DEF DeleteGroupFinds, Starts
  <2>3. \A p, x : ~CreateProfile(g, p, x) /\ ~LoadForm(g, x, p)
    BY <1>2 DEF CreateProfile, LoadForm
  <2>4. (\A p : ~DeleteProfile(g, p)) /\ ~OtherAccess(g)
    BY <1>2 DEF DeleteProfile, OtherAccess
  <2>5. ~UpdateGroupSaves(g) /\ ~DeleteGroupLists(g) /\ ~DeleteGroupEnds(g)
    BY <1>1 DEF UpdateGroupSaves, DeleteGroupLists, DeleteGroupEnds
  <2>6. ~EditReads(g)
    BY <1>1 DEF EditReads
  <2>7. g # h => ~EditSaves(g) /\ ~WriteTimesOut(g) /\ ~Restart(g)
    BY <1>1 DEF EditSaves, WriteTimesOut, Restart
  <2>8. QED
    BY <2>1, <2>2, <2>3, <2>4, <2>5, <2>6, <2>7
<1>4. ASSUME NEW g \in Process
      PROVE  (\A c, value : ~Puts(g, c, value)) /\ \A value : ~BulkUpdates(g, value)
  BY <1>3, <1>4 DEF Puts, BulkUpdates
<1>5. ~UNCHANGED vars
  BY <1>2 DEF vars
<1>6. QED
  BY <1>3, <1>4, <1>5 DEF Next

\* An edit of a proxy or a note never carries a profile from one group to another,
\* however old the row it was made from (update_profile, save_profile).
THEOREM EditsKeepGroups == Spec => EditsKeepGroup
<1>1. ASSUME GroupsInv, [Next]_vars, NEW h \in Process, call[h].at = "saving",
             call[h].job.value = Keep, call'[h] # call[h],
             stored.rows[call[h].profile] # None, stored'.rows[call[h].profile] # None
      PROVE  stored.rows[call[h].profile].group \in {stored'.rows[call[h].profile].group, None}
  <2> DEFINE p == call[h].profile
             new == call[h].row
             tables == [stored EXCEPT !.rows[p] = Bumped(new)]
  <2>1. CASE stored' = stored
    BY <2>1
  <2>2. CASE stored' # stored
    <3>1. EditSaves(h)
      BY <2>2, <1>1, WhoLeavesSaving
         DEF WriteTimesOut, Restart, TimeOut, Reconnect
    <3>2. /\ stored.rows[p] # None /\ stored.rows[p].version = new.version
          /\ stored' = tables
      BY <3>1, <2>2 DEF EditSaves, LeaveOpen, Commit
    <3>3. /\ p \in Profile /\ Bumped(new) \in Row
          /\ stored.rows[p].group \in {Bumped(new).group, None}
      BY <3>2, <1>1, BumpedTables
    <3>4. \A q \in Profile : tables.rows[q] = IF q = p THEN Bumped(new) ELSE stored.rows[q]
      <4>1. stored \in Tables /\ Bumped(new) \in Row \cup {None}
        BY <3>3, <1>1 DEF GroupsInv, DbTyped
      <4>2. QED
        BY <3>3, <4>1, RowTables
    <3>5. QED
      BY <3>2, <3>3, <3>4
  <2>3. QED
    BY <2>1, <2>2
<1>2. GroupsInv /\ [Next]_vars =>
        [\A h \in Process :
           call[h].at = "saving" /\ call[h].job.value = Keep /\ call'[h] # call[h] =>
             LET was == stored.rows[call[h].profile]
                 is == stored'.rows[call[h].profile]
             IN  was # None /\ is # None => was.group \in {is.group, None}]_vars
  BY <1>1
<1>3. QED
  BY <1>2, AlwaysGroups, PTL DEF Spec, EditsKeepGroup

-----------------------------------------------------------------------------
\* A step that keeps the ids of the groups leaves nobody behind.
LEMMA WhoEndsGroups ==
    ASSUME GroupsInv, [Next]_vars, FreshNames, NEW id \in Ids(stored.groups) \ Ids(stored'.groups)
    PROVE  \E h \in Process : DeleteGroupEnds(h) /\ id = call[h].job.doomed /\ stored' = Ended(id)
<1>a. stored \in Tables /\ call \in [Process -> Call]
  BY DEF GroupsInv, DbTyped
<1>b. Ids(stored'.groups) # Ids(stored.groups) /\ stored' # stored /\ stored'.groups # stored.groups
  BY DEF Ids
<1>1. ASSUME NEW group \in GroupRow, ~Taken(group) PROVE id \in Ids(Replace(group).groups)
  <2>1. PICK g \in stored.groups : g.id = id
    BY DEF Ids
  <2>2. /\ stored = [groups |-> stored.groups, rows |-> stored.rows]
        /\ Replace(group).groups =
             {x \in stored.groups : x.id # group.id /\ x.name # group.name} \cup {group}
    BY <1>a DEF Tables, Replace
  <2>3. g \in Replace(group).groups \/ g.id = group.id
    BY <1>1, <2>1, <2>2 DEF Taken
  <2>4. group \in Replace(group).groups
    BY <2>2
  <2>5. QED
    BY <2>1, <2>3, <2>4 DEF Ids
<1>2. ASSUME NEW p, NEW row, stored' = [stored EXCEPT !.rows[p] = row] PROVE FALSE
  BY <1>2, <1>a, <1>b DEF Tables
<1>3. ASSUME NEW h \in Process
      PROVE  /\ ~Select(h) /\ ~CommitNothing(h) /\ ~LeaveOpen(h) /\ ~TimeOut(h) /\ ~Reconnect(h)
             /\ ~Commit(h, stored) /\ ~UNCHANGED dbVars
  BY <1>b DEF Select, CommitNothing, LeaveOpen, TimeOut, Reconnect, Commit, dbVars
<1>4. ASSUME NEW h \in Process, NEW name \in Name PROVE ~CreateGroup(h, name)
  <2> SUFFICES ASSUME CreateGroup(h, name) PROVE FALSE
    OBVIOUS
  <2>1. PICK new \in Group \ minted :
          /\ ~Taken([id |-> new, name |-> name])
          /\ stored' = Replace([id |-> new, name |-> name])
    BY DEF CreateGroup, Commit
  <2>2. [id |-> new, name |-> name] \in GroupRow
    BY DEF GroupRow
  <2>3. QED
    BY <2>1, <2>2, <1>1
<1>5. ASSUME NEW h \in Process PROVE ~UpdateGroupSaves(h)
  <2> SUFFICES ASSUME UpdateGroupSaves(h) PROVE FALSE
    OBVIOUS
  <2>1. call[h].group \in GroupRow
    BY <1>a DEF UpdateGroupSaves, Call, Idle
  <2>2. QED
    BY <2>1, <1>1 DEF UpdateGroupSaves, Commit
<1>6. ASSUME NEW h \in Process
      PROVE  /\ \A name : ~UpdateGroupReads(h, name)
             /\ \A x : ~DeleteGroupFinds(h, x) /\ ~Starts(h, x)
             /\ \A c, p : ~LoadForm(h, c, p) /\ ~CreateProfile(h, p, c)
             /\ \A p : ~DeleteProfile(h, p)
             /\ ~DeleteGroupLists(h) /\ ~EditReads(h) /\ ~EditSaves(h) /\ ~WriteTimesOut(h)
             /\ ~OtherAccess(h) /\ ~Restart(h)
  <2>1. (\A name : ~UpdateGroupReads(h, name)) /\ \A x : ~DeleteGroupFinds(h, x) /\ ~Starts(h, x)
    BY <1>3 DEF UpdateGroupReads, DeleteGroupFinds, Starts
  <2>2. \A c, p : ~LoadForm(h, c, p) /\ ~CreateProfile(h, p, c)
    BY <1>2, <1>3 DEF LoadForm, CreateProfile, Commit
  <2>3. \A p : ~DeleteProfile(h, p)
    BY <1>2 DEF DeleteProfile, Commit
  <2>4. ~EditSaves(h)
    BY <1>2, <1>3 DEF EditSaves, Commit
  <2>5. ~DeleteGroupLists(h) /\ ~EditReads(h) /\ ~WriteTimesOut(h) /\ ~OtherAccess(h) /\ ~Restart(h)
    BY <1>3 DEF DeleteGroupLists, EditReads, WriteTimesOut, OtherAccess, Restart
  <2>6. QED
    BY <2>1, <2>2, <2>3, <2>4, <2>5
<1>7. ASSUME NEW h \in Process
      PROVE  (\A c, value : ~Puts(h, c, value)) /\ \A value : ~BulkUpdates(h, value)
  BY <1>6, <1>7 DEF Puts, BulkUpdates
<1>8. ~UNCHANGED vars
  BY <1>b DEF vars, dbVars
<1>9. PICK h \in Process : DeleteGroupEnds(h)
  BY <1>4, <1>5, <1>6, <1>7, <1>8 DEF Next
<1>10. stored' = Ended(call[h].job.doomed)
  BY <1>3, <1>9 DEF DeleteGroupEnds, Ended, Commit
<1>11. id = call[h].job.doomed
  BY <1>10 DEF Ended, Ids
<1>12. QED
  BY <1>9, <1>10, <1>11

\* As long as nobody gives a group the name of another one, every deletion takes out
\* those who joined meanwhile in the transaction that removes the group
\* (delete_profile_group), whatever other servers do.
THEOREM NobodyLeftBehind == FreshNames => (Spec => NoOneLeftBehind)
<1> SUFFICES ASSUME FreshNames PROVE Spec => NoOneLeftBehind
  OBVIOUS
<1>1. ASSUME GroupsInv, [Next]_vars, NEW id \in Ids(stored.groups) \ Ids(stored'.groups)
      PROVE  Members(stored', id) = {}
  <2>1. stored' = Ended(id)
    BY <1>1, WhoEndsGroups
  <2>2. PICK g \in stored.groups : g.id = id
    BY <1>1 DEF Ids
  <2>3. stored \in Tables /\ id # None
    BY <1>1, <2>2, KeepAssumption DEF GroupsInv, DbTyped, Tables, GroupRow
  <2>4. ASSUME NEW p \in Members(stored', id) PROVE FALSE
    <3>1. p \in Profile /\ Ended(id).rows[p] # None /\ Ended(id).rows[p].group = id
      BY <2>1, <2>4 DEF Members
    <3>2. Ended(id).rows[p] = stored.rows[p]
      BY <2>3, <3>1, EndedTables
    <3>3. p \in Members(stored, id)
      BY <3>1, <3>2 DEF Members
    <3>4. Ended(id).rows[p] = [stored.rows[p] EXCEPT !.group = None]
      BY <3>1, <3>3 DEF Ended
    <3>5. stored.rows[p] \in Row
      BY <2>3, <3>1, <3>2, RowsTyped
    <3>6. QED
      BY <2>3, <3>1, <3>4, <3>5 DEF Row
  <2>5. QED
    BY <2>4
<1>2. GroupsInv /\ [Next]_vars =>
        [\A id \in Ids(stored.groups) \ Ids(stored'.groups) : Members(stored', id) = {}]_vars
  BY <1>1
<1>3. QED
  BY <1>2, AlwaysGroups, PTL DEF Spec, NoOneLeftBehind
=============================================================================
