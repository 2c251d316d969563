-------------------------- MODULE ProfileRowProofs --------------------------
(***************************************************************************)
(* Theorems about ProfileRow for every number of processes, clients,       *)
(* settings and edits.                                                     *)
(***************************************************************************)
EXTENDS ProfileRowProperties, TLAPS

\* Nothing a process does after the row is gone brings it back: every write names
\* the row it expects to find, and the guarded save matches none.
THEOREM DeletedForGood == Spec => DeletedStaysDeleted
<1>1. [Next]_vars /\ stored = None => stored' = None
  <2> SUFFICES ASSUME [Next]_vars, stored = None PROVE stored' = None
    OBVIOUS
  <2> USE DEF Select, Commit, CommitNothing, LeaveOpen, TimeOut, Reconnect
  <2>1. ASSUME NEW h \in Process, NEW c \in Client, LoadForm(h, c)
        PROVE  stored' = None
    BY <2>1 DEF LoadForm, Reads
  <2>2. ASSUME NEW h \in Process, NEW seen, NEW edit, PutMerges(h, seen, edit)
        PROVE  stored' = None
    BY <2>2 DEF PutMerges, dbVars
  <2>3. ASSUME NEW h \in Process, ManagerReads(h) \/ RewriteReads(h) \/ LaunchReads(h)
                                  \/ CheckStarts(h) \/ CheckReturns(h) \/ DeleteReads(h)
        PROVE  stored' = None
    BY <2>3 DEF ManagerReads, RewriteReads, LaunchReads, CheckStarts, CheckReturns,
                DeleteReads, Reads
  <2>4. ASSUME NEW h \in Process, Saves(h) \/ LaunchPins(h) \/ CheckWrites(h) \/ Deletes(h)
        PROVE  stored' = None
    BY <2>4 DEF Saves, LaunchPins, CheckWrites, Deletes
  <2>5. ASSUME NEW h \in Process, WriteTimesOut(h) \/ OtherAccess(h) \/ Restart(h)
        PROVE  stored' = None
    BY <2>5 DEF WriteTimesOut, OtherAccess, Restart
  <2>6. CASE UNCHANGED vars
    BY <2>6 DEF vars, dbVars
  <2>7. QED
    BY <2>1, <2>2, <2>3, <2>4, <2>5, <2>6 DEF Next
<1>2. QED
  BY <1>1, PTL DEF Spec, DeletedStaysDeleted

-----------------------------------------------------------------------------
\* What a SELECT returns is a row of the table or nothing.
LEMMA VisibleType ==
    ASSUME TypeOK, NEW h \in Process
    PROVE  Visible(h) \in Row \cup {None}
BY DEF TypeOK, DbTypeOK, Visible

\* Every statement leaves the connections and the table well-typed.
LEMMA StatementTypes ==
    ASSUME DbTypeOK(Row), NEW h \in Process
    PROVE  /\ Select(h) => DbTypeOK(Row)'
           /\ \A new \in Row \cup {None} : Commit(h, new) => DbTypeOK(Row)'
           /\ CommitNothing(h) \/ LeaveOpen(h) \/ TimeOut(h) \/ Reconnect(h) => DbTypeOK(Row)'
           /\ UNCHANGED dbVars => DbTypeOK(Row)'
<1> USE DEF DbTypeOK, Txn
<1>1. Select(h) => DbTypeOK(Row)'
  BY DEF Select
<1>2. ASSUME NEW new \in Row \cup {None}, Commit(h, new)
      PROVE  DbTypeOK(Row)'
  BY <1>2 DEF Commit, EndTransaction
<1>3. CommitNothing(h) \/ LeaveOpen(h) => DbTypeOK(Row)'
  BY DEF CommitNothing, LeaveOpen, EndTransaction, MayWrite
<1>4. TimeOut(h) \/ Reconnect(h) => DbTypeOK(Row)'
  BY DEF TimeOut, Reconnect, EndTransaction
<1>5. UNCHANGED dbVars => DbTypeOK(Row)'
  BY DEF dbVars
<1>6. QED
  BY <1>1, <1>2, <1>3, <1>4, <1>5

\* What the states of an operation carry.
LEMMA CallTypes ==
    ASSUME NEW x \in Call
    PROVE  /\ x.at = "merged" => x \in [at : {"merged"}, seen : Form \cup {None},
                                        edit : Edit, settings : Settings]
           /\ x.at = "saving" => x \in [at : {"saving"}, seen : Form \cup {None},
                                        edit : Edit \cup {None}, profile : Row]
           /\ x.at = "pinning" => x \in [at : {"pinning"}, pin : Machine \cup {None}]
           /\ x.at = "answering" => x \in [at : {"answering"}, check : Proxy]
BY DEF Call, Idle

\* An edit merged over well-typed settings, or applied to a row, is well-typed, and
\* applying it leaves the version to the save.
LEMMA EditTypes ==
    ASSUME NEW edit \in Edit, NEW settings \in Settings, NEW row \in Row
    PROVE  /\ Merge(settings, edit) \in Settings
           /\ Updated(row, edit, settings) \in Row
           /\ Updated(row, edit, settings).version = row.version
BY DEF Edit, Settings, Row, Merge, Updated

-----------------------------------------------------------------------------
TypeInv == TypeOK /\ RoomToSave

\* An operation that goes on in a well-typed state keeps the types of all of them.
LEMMA GotoTypes ==
    ASSUME TypeInv, NEW h \in Process, NEW state \in Call, Goto(h, state),
           state.at = "saving" => state.profile.version < MaxVersion
    PROVE  call' \in [Process -> Call] /\ RoomToSave'
BY DEF TypeInv, TypeOK, RoomToSave, Goto

LEMMA RowTypeInit == Init => TypeInv
<1> SUFFICES ASSUME Init PROVE TypeInv
  OBVIOUS
<1>1. DbTypeOK(Row)
  BY MaxVersionAssumption DEF Init, DbInit, DbTypeOK, Txn, Row
<1>2. Idle \in Call /\ Idle.at = "idle"
  BY DEF Call, Idle
<1>3. QED
  BY <1>1, <1>2 DEF Init, TypeInv, TypeOK, RoomToSave

LEMMA RowTypeStep == TypeInv /\ [Next]_vars => TypeInv'
<1> SUFFICES ASSUME TypeInv, [Next]_vars PROVE TypeInv'
  OBVIOUS
<1>0. /\ DbTypeOK(Row)
      /\ form \in [Client -> Form \cup {None}]
      /\ call \in [Process -> Call]
      /\ asked \in [Process -> Proxy \cup {None}]
      /\ TypeOK
  BY DEF TypeInv, TypeOK
<1>i. Idle \in Call /\ Idle.at = "idle"
  BY DEF Call, Idle
<1>g. ASSUME NEW h \in Process, NEW state \in Call, Goto(h, state),
             state.at = "saving" => state.profile.version < MaxVersion
      PROVE  call' \in [Process -> Call] /\ RoomToSave'
  BY <1>g, GotoTypes
<1>idle. ASSUME NEW h \in Process, Goto(h, Idle)
         PROVE  call' \in [Process -> Call] /\ RoomToSave'
  BY <1>idle, <1>i, <1>g
<1>same. ASSUME UNCHANGED call
         PROVE  call' \in [Process -> Call] /\ RoomToSave'
  BY <1>same DEF TypeInv, TypeOK, RoomToSave
<1>t. ASSUME DbTypeOK(Row)', form' \in [Client -> Form \cup {None}],
             call' \in [Process -> Call] /\ RoomToSave', asked' \in [Process -> Proxy \cup {None}]
      PROVE  TypeInv'
  BY <1>t DEF TypeInv, TypeOK
<1>1. ASSUME NEW h \in Process, NEW c \in Client, LoadForm(h, c)
      PROVE  TypeInv'
  <2>1. DbTypeOK(Row)'
    BY <1>0, <1>1, StatementTypes DEF LoadForm, Reads
  <2>2. Shown(Visible(h)) \in Form
    BY <1>0, <1>1, VisibleType DEF LoadForm, Reads, Shown, Form, Row
  <2>3. QED
    BY <1>0, <1>1, <1>same, <1>t, <2>1, <2>2 DEF LoadForm
<1>2. ASSUME NEW h \in Process, NEW edit \in Edit,
             NEW seen \in {None} \cup {form[c] : c \in Client}, PutMerges(h, seen, edit)
      PROVE  TypeInv'
  <2>1. DbTypeOK(Row)'
    BY <1>0, <1>2, StatementTypes DEF PutMerges
  <2>2. Visible(h).settings \in Settings /\ seen \in Form \cup {None}
    BY <1>0, <1>2, VisibleType DEF PutMerges, Row
  <2> DEFINE state == [at |-> "merged", seen |-> seen, edit |-> edit,
                       settings |-> Merge(Visible(h).settings, edit)]
  <2>3. Merge(Visible(h).settings, edit) \in Settings
    BY <2>2 DEF Edit, Settings, Merge
  <2>4. state \in Call /\ state.at = "merged"
    BY <2>2, <2>3 DEF Call
  <2>5. Goto(h, state)
    BY <1>2 DEF PutMerges
  <2>6. call' \in [Process -> Call] /\ RoomToSave'
    BY <1>g, <2>4, <2>5
  <2>7. QED
    BY <1>0, <1>2, <1>t, <2>1, <2>6 DEF PutMerges
<1>3. ASSUME NEW h \in Process, ManagerReads(h)
      PROVE  TypeInv'
  <2> DEFINE put == call[h]
             row == Visible(h)
             saving == [at |-> "saving", seen |-> put.seen, edit |-> Kept(put),
                        profile |-> Updated(row, put.edit, put.settings)]
  <2>1. DbTypeOK(Row)'
    BY <1>0, <1>3, StatementTypes DEF ManagerReads
  <2>2. put.seen \in Form \cup {None} /\ put.edit \in Edit /\ put.settings \in Settings
    BY <1>0, <1>3, CallTypes DEF ManagerReads
  <2>3. CASE row = None \/ (put.seen # None /\ put.seen.version # row.version)
    <3>1. Goto(h, Idle)
      BY <1>3, <2>3 DEF ManagerReads
    <3>2. QED
      BY <1>0, <1>3, <1>idle, <1>t, <2>1, <3>1 DEF ManagerReads
  <2>4. CASE ~(row = None \/ (put.seen # None /\ put.seen.version # row.version))
    <3>1. row \in Row
      BY <1>0, <2>4, VisibleType
    <3>2. row.version < MaxVersion
      BY <1>3, <2>4 DEF ManagerReads
    <3>3. /\ Updated(row, put.edit, put.settings) \in Row
          /\ Updated(row, put.edit, put.settings).version = row.version
      BY <2>2, <3>1, EditTypes
    <3>4. Kept(put) \in Edit \cup {None}
      BY <2>2 DEF Kept
    <3>5. /\ saving \in Call
          /\ saving.profile.version < MaxVersion
      <4> HIDE DEF put, row
      <4>1. QED
        BY <2>2, <3>2, <3>3, <3>4 DEF Call
    <3>6. Goto(h, saving)
      BY <1>3, <2>4 DEF ManagerReads
    <3>7. call' \in [Process -> Call] /\ RoomToSave'
      BY <1>g, <3>5, <3>6
    <3>8. QED
      BY <1>0, <1>3, <1>t, <2>1, <3>7 DEF ManagerReads
  <2>5. QED
    BY <2>3, <2>4
<1>4. ASSUME NEW h \in Process, RewriteReads(h)
      PROVE  TypeInv'
  <2> DEFINE row == Visible(h)
  <2>1. DbTypeOK(Row)'
    BY <1>0, <1>4, StatementTypes DEF RewriteReads, Reads
  <2>2. row \in Row /\ row.version < MaxVersion
    BY <1>0, <1>4, VisibleType DEF RewriteReads, Reads
  <2>3. PICK new \in Rewrites(row) :
          Goto(h, [at |-> "saving", seen |-> None, edit |-> None,
                   profile |-> [row EXCEPT !.settings = new.settings, !.pin = new.pin]])
    BY <1>4 DEF RewriteReads
  <2> DEFINE profile == [row EXCEPT !.settings = new.settings, !.pin = new.pin]
             saving == [at |-> "saving", seen |-> None, edit |-> None, profile |-> profile]
  <2>4. new.settings \in Settings /\ new.pin \in Machine \cup {None}
    BY <2>2, <2>3 DEF Rewrites, Row
  <2>5. profile \in Row /\ profile.version = row.version
    <3> HIDE DEF row
    <3>1. QED
      BY <2>2, <2>4 DEF Row
  <2>6. saving \in Call /\ saving.profile.version < MaxVersion
    <3> HIDE DEF profile
    <3>1. QED
      BY <2>2, <2>5 DEF Call
  <2>7. call' \in [Process -> Call] /\ RoomToSave'
    BY <1>g, <2>3, <2>6
  <2>8. QED
    BY <1>0, <1>4, <1>t, <2>1, <2>7 DEF RewriteReads
<1>5. ASSUME NEW h \in Process, Saves(h)
      PROVE  TypeInv'
  <2> DEFINE profile == call[h].profile
             new == [profile EXCEPT !.version = @ + 1]
  <2>1. profile \in Row /\ profile.version < MaxVersion
    BY <1>0, <1>5, CallTypes DEF Saves, TypeInv, RoomToSave
  <2>2. new \in Row
    <3> HIDE DEF profile
    <3>1. QED
      BY <2>1, MaxVersionAssumption DEF Row
  <2>3. Commit(h, new) \/ LeaveOpen(h)
    BY <1>5 DEF Saves
  <2>4. DbTypeOK(Row)'
    <3> HIDE DEF new
    <3>1. QED
      BY <1>0, <2>2, <2>3, StatementTypes
  <2>5. QED
    BY <1>0, <1>5, <1>idle, <1>t, <2>4 DEF Saves
<1>6. ASSUME NEW h \in Process, LaunchReads(h)
      PROVE  TypeInv'
  <2>1. DbTypeOK(Row)'
    BY <1>0, <1>6, StatementTypes DEF LaunchReads, Reads
  <2>2. PICK m \in IF Visible(h).pin = None THEN Machine \cup {None} ELSE {Visible(h).pin} :
          Goto(h, [at |-> "pinning", pin |-> m])
    BY <1>6 DEF LaunchReads
  <2>3. m \in Machine \cup {None}
    BY <1>0, <1>6, <2>2, VisibleType DEF LaunchReads, Reads, Row
  <2>4. [at |-> "pinning", pin |-> m] \in Call
    BY <2>3 DEF Call
  <2>5. call' \in [Process -> Call] /\ RoomToSave'
    BY <1>g, <2>2, <2>4
  <2>6. QED
    BY <1>0, <1>6, <1>t, <2>1, <2>5 DEF LaunchReads
<1>7. ASSUME NEW h \in Process, LaunchPins(h) \/ CheckWrites(h) \/ Deletes(h)
      PROVE  TypeInv'
  <2>1. LaunchPins(h) => DbTypeOK(Row)'
    <3> SUFFICES ASSUME LaunchPins(h), stored # None PROVE DbTypeOK(Row)'
      BY <1>0, StatementTypes DEF LaunchPins
    <3> DEFINE new == [stored EXCEPT !.pin = call[h].pin]
    <3>1. call[h].pin \in Machine \cup {None} /\ stored \in Row
      BY <1>0, CallTypes DEF LaunchPins, DbTypeOK
    <3>2. new \in Row
      BY <3>1 DEF Row
    <3>3. Commit(h, new)
      BY DEF LaunchPins
    <3> HIDE DEF new
    <3>4. QED
      BY <1>0, <3>2, <3>3, StatementTypes
  <2>2. CheckWrites(h) => DbTypeOK(Row)'
    <3> SUFFICES ASSUME CheckWrites(h), stored # None PROVE DbTypeOK(Row)'
      BY <1>0, StatementTypes DEF CheckWrites
    <3> DEFINE new == [stored EXCEPT !.check = call[h].check]
    <3>1. call[h].check \in Proxy /\ stored \in Row
      BY <1>0, CallTypes DEF CheckWrites, DbTypeOK
    <3>2. new \in Row
      BY <3>1 DEF Row
    <3>3. Commit(h, new)
      BY DEF CheckWrites
    <3> HIDE DEF new
    <3>4. QED
      BY <1>0, <3>2, <3>3, StatementTypes
  <2>3. Deletes(h) => DbTypeOK(Row)'
    BY <1>0, StatementTypes DEF Deletes
  <2>4. QED
    BY <1>0, <1>7, <1>idle, <1>t, <2>1, <2>2, <2>3 DEF LaunchPins, CheckWrites, Deletes
<1>8. ASSUME NEW h \in Process, CheckStarts(h)
      PROVE  TypeInv'
  <2>1. DbTypeOK(Row)'
    BY <1>0, <1>8, StatementTypes DEF CheckStarts, Reads
  <2>2. Visible(h).proxy \in Proxy
    BY <1>0, <1>8, VisibleType DEF CheckStarts, Reads, Row
  <2>3. QED
    BY <1>0, <1>8, <1>same, <1>t, <2>1, <2>2 DEF CheckStarts
<1>9. ASSUME NEW h \in Process, CheckReturns(h)
      PROVE  TypeInv'
  <2>1. DbTypeOK(Row)'
    BY <1>0, <1>9, StatementTypes DEF CheckReturns
  <2>2. asked[h] \in Proxy
    BY <1>0, <1>9 DEF CheckReturns
  <2>3. [at |-> "answering", check |-> asked[h]] \in Call
    BY <2>2 DEF Call
  <2>4. Goto(h, [at |-> "answering", check |-> asked[h]]) \/ Goto(h, Idle)
    BY <1>9 DEF CheckReturns
  <2>5. call' \in [Process -> Call] /\ RoomToSave'
    BY <1>g, <1>idle, <2>3, <2>4
  <2>6. QED
    BY <1>0, <1>9, <1>t, <2>1, <2>5 DEF CheckReturns
<1>10. ASSUME NEW h \in Process, DeleteReads(h)
       PROVE  TypeInv'
  <2>1. DbTypeOK(Row)'
    BY <1>0, <1>10, StatementTypes DEF DeleteReads, Reads
  <2>2. [at |-> "deleting"] \in Call
    BY DEF Call
  <2>3. call' \in [Process -> Call] /\ RoomToSave'
    BY <1>g, <1>10, <2>2 DEF DeleteReads
  <2>4. QED
    BY <1>0, <1>10, <1>t, <2>1, <2>3 DEF DeleteReads
<1>11. ASSUME NEW h \in Process, WriteTimesOut(h) \/ Restart(h)
       PROVE  TypeInv'
  <2>1. DbTypeOK(Row)'
    BY <1>0, <1>11, StatementTypes DEF WriteTimesOut, Restart
  <2>2. QED
    BY <1>0, <1>11, <1>idle, <1>t, <2>1 DEF WriteTimesOut, Restart
<1>12. ASSUME NEW h \in Process, OtherAccess(h)
       PROVE  TypeInv'
  <2>1. stored \in Row \cup {None}
    BY <1>0 DEF DbTypeOK
  <2>2. DbTypeOK(Row)'
    BY <1>0, <1>12, <2>1, StatementTypes DEF OtherAccess
  <2>3. QED
    BY <1>0, <1>12, <1>same, <1>t, <2>2 DEF OtherAccess
<1>13. CASE UNCHANGED vars
  <2>1. DbTypeOK(Row)'
    BY <1>0, <1>13 DEF vars, dbVars, DbTypeOK
  <2>2. QED
    BY <1>0, <1>13, <1>same, <1>t, <2>1 DEF vars
<1>14. QED
  BY <1>1, <1>2, <1>3, <1>4, <1>5, <1>6, <1>7, <1>8, <1>9, <1>10, <1>11, <1>12, <1>13
     DEF Next

\* Every step of ProfileRow keeps every variable in its type, and no version passes
\* the bound of the model.
THEOREM RowTypeCorrect == Spec => []TypeOK
<1>1. TypeInv => TypeOK
  BY DEF TypeInv
<1>2. QED
  BY <1>1, RowTypeInit, RowTypeStep, PTL DEF Spec

-----------------------------------------------------------------------------
\* What a step may do to the row: leave its version and content alone, count the
\* version up, or delete it.
Evolves ==
    stored' # None =>
        /\ stored # None
        /\ \/ stored'.version = stored.version + 1
           \/ stored'.version = stored.version /\ Content(stored') = Content(stored)

LEMMA RowEvolves == TypeInv /\ [Next]_vars => Evolves
<1> SUFFICES ASSUME TypeInv, [Next]_vars, stored' # None PROVE Evolves
  BY DEF Evolves
<1>0. /\ DbTypeOK(Row)
      /\ call \in [Process -> Call]
  BY DEF TypeInv, TypeOK
<1>1. stored \in Row \cup {None}
  BY <1>0 DEF DbTypeOK
<1>2. UNCHANGED stored => Evolves
  BY DEF Evolves
<1>3. ASSUME NEW h \in Process, Saves(h)
      PROVE  Evolves
  <2>1. CASE stored # None /\ stored.version = call[h].profile.version
    <3> DEFINE profile == call[h].profile
    <3>1. profile \in Row
      BY <1>0, <1>3, CallTypes DEF Saves
    <3>2. stored' = [profile EXCEPT !.version = @ + 1]
      BY <1>3, <2>1 DEF Saves, Commit
    <3>3. stored'.version = profile.version + 1
      <4> HIDE DEF profile
      <4>1. QED
        BY <3>1, <3>2 DEF Row
    <3>4. QED
      BY <2>1, <3>3 DEF Evolves
  <2>2. CASE ~(stored # None /\ stored.version = call[h].profile.version)
    BY <1>2, <1>3, <2>2 DEF Saves, LeaveOpen
  <2>3. QED
    BY <2>1, <2>2
<1>4. ASSUME NEW h \in Process, LaunchPins(h) \/ CheckWrites(h)
      PROVE  Evolves
  <2>1. CASE stored = None
    BY <1>2, <1>4, <2>1 DEF LaunchPins, CheckWrites, CommitNothing
  <2>2. CASE stored # None
    <3>1. stored \in Row
      BY <1>1, <2>2
    <3>2. \/ stored' = [stored EXCEPT !.pin = call[h].pin]
          \/ stored' = [stored EXCEPT !.check = call[h].check]
      BY <1>4, <2>2 DEF LaunchPins, CheckWrites, Commit
    <3>3. /\ stored'.version = stored.version
          /\ stored'.settings = stored.settings
          /\ stored'.proxy = stored.proxy
      BY <3>1, <3>2 DEF Row
    <3>4. QED
      BY <2>2, <3>3 DEF Evolves, Content
  <2>3. QED
    BY <2>1, <2>2
<1>5. ASSUME NEW h \in Process, Deletes(h)
      PROVE  Evolves
  BY <1>2, <1>5 DEF Deletes, Commit, CommitNothing
<1>6. ASSUME NEW h \in Process, OtherAccess(h)
      PROVE  Evolves
  BY <1>2, <1>6 DEF OtherAccess, Select, Commit, CommitNothing, TimeOut
<1>7. ASSUME NEW h \in Process, NEW c \in Client, LoadForm(h, c)
      PROVE  Evolves
  BY <1>2, <1>7 DEF LoadForm, Reads, Select
<1>8. ASSUME NEW h \in Process, NEW seen, NEW edit, PutMerges(h, seen, edit)
      PROVE  Evolves
  BY <1>2, <1>8 DEF PutMerges, Select, dbVars
<1>9. ASSUME NEW h \in Process, ManagerReads(h) \/ RewriteReads(h) \/ LaunchReads(h)
                                \/ CheckStarts(h) \/ CheckReturns(h) \/ DeleteReads(h)
      PROVE  Evolves
  BY <1>2, <1>9 DEF ManagerReads, RewriteReads, LaunchReads, CheckStarts, CheckReturns,
                    DeleteReads, Reads, Select
<1>10. ASSUME NEW h \in Process, WriteTimesOut(h) \/ Restart(h)
       PROVE  Evolves
  BY <1>2, <1>10 DEF WriteTimesOut, Restart, TimeOut, Reconnect
<1>11. CASE UNCHANGED vars
  BY <1>2, <1>11 DEF vars, dbVars
<1>12. QED
  BY <1>3, <1>4, <1>5, <1>6, <1>7, <1>8, <1>9, <1>10, <1>11 DEF Next

\* Every copy after a step is one from before it, or was read of the row just now.
Copied ==
    /\ \A c \in Client :
         \/ form'[c] = form[c]
         \/ stored' = stored
            /\ \E h \in Process : Visible(h) # None /\ form'[c] = Shown(Visible(h))
    /\ \A h \in Process : txn'[h] = "reader" =>
         \/ txn[h] = "reader" /\ view'[h] = view[h]
         \/ stored' = stored /\ view'[h] = stored

LEMMA OnlyCopies == TypeInv /\ [Next]_vars => Copied
<1> SUFFICES ASSUME TypeInv, [Next]_vars PROVE Copied
  OBVIOUS
<1>0. /\ txn \in [Process -> Txn]
      /\ view \in [Process -> Row \cup {None}]
      /\ form \in [Client -> Form \cup {None}]
      /\ stored \in Row \cup {None}
  BY DEF TypeInv, TypeOK, DbTypeOK
<1> DEFINE Snapshots == \A h \in Process : txn'[h] = "reader" =>
                          \/ txn[h] = "reader" /\ view'[h] = view[h]
                          \/ stored' = stored /\ view'[h] = stored
<1>1. ASSUME NEW h \in Process, Select(h)
      PROVE  Snapshots
  BY <1>0, <1>1 DEF Select
<1>2. ASSUME NEW h \in Process, NEW new, Commit(h, new)
      PROVE  Snapshots
  BY <1>0, <1>2 DEF Commit, EndTransaction
<1>3. ASSUME NEW h \in Process, CommitNothing(h) \/ LeaveOpen(h) \/ TimeOut(h) \/ Reconnect(h)
      PROVE  Snapshots
  BY <1>0, <1>3 DEF CommitNothing, LeaveOpen, TimeOut, Reconnect, EndTransaction
<1>4. UNCHANGED dbVars => Snapshots
  BY DEF dbVars
<1>5. Snapshots /\ UNCHANGED form => Copied
  BY DEF Copied
<1>6. ASSUME NEW h \in Process, NEW c \in Client, LoadForm(h, c)
      PROVE  Copied
  <2>1. Snapshots
    BY <1>1, <1>6 DEF LoadForm, Reads
  <2>2. \A d \in Client :
          \/ form'[d] = form[d]
          \/ stored' = stored
             /\ \E g \in Process : Visible(g) # None /\ form'[d] = Shown(Visible(g))
    BY <1>0, <1>6 DEF LoadForm, Reads, Select
  <2>3. QED
    BY <2>1, <2>2 DEF Copied
<1>7. ASSUME NEW h \in Process, NEW seen, NEW edit, PutMerges(h, seen, edit)
      PROVE  Copied
  BY <1>1, <1>4, <1>5, <1>7 DEF PutMerges
<1>8. ASSUME NEW h \in Process, ManagerReads(h) \/ RewriteReads(h) \/ LaunchReads(h)
                                \/ CheckStarts(h) \/ CheckReturns(h) \/ DeleteReads(h)
      PROVE  Copied
  BY <1>1, <1>5, <1>8 DEF ManagerReads, RewriteReads, LaunchReads, CheckStarts,
                          CheckReturns, DeleteReads, Reads
<1>9. ASSUME NEW h \in Process, Saves(h) \/ LaunchPins(h) \/ CheckWrites(h) \/ Deletes(h)
      PROVE  Copied
  BY <1>2, <1>3, <1>5, <1>9 DEF Saves, LaunchPins, CheckWrites, Deletes
<1>10. ASSUME NEW h \in Process, WriteTimesOut(h) \/ OtherAccess(h) \/ Restart(h)
       PROVE  Copied
  BY <1>1, <1>2, <1>3, <1>5, <1>10 DEF WriteTimesOut, OtherAccess, Restart
<1>11. CASE UNCHANGED vars
  BY <1>4, <1>5, <1>11 DEF vars
<1>12. QED
  BY <1>6, <1>7, <1>8, <1>9, <1>10, <1>11 DEF Next

\* A copy that agreed with the row goes on agreeing with it.
LEMMA AgreementLasts ==
    ASSUME TypeInv, Evolves, NEW copy, copy = None \/ copy.version \in Int, Agrees(copy)
    PROVE  copy # None /\ stored' # None =>
             /\ copy.version <= stored'.version
             /\ copy.version = stored'.version => Content(copy) = Content(stored')
<1> SUFFICES ASSUME copy # None, stored' # None
             PROVE  /\ copy.version <= stored'.version
                    /\ copy.version = stored'.version => Content(copy) = Content(stored')
  OBVIOUS
<1>1. stored # None /\ stored.version \in Int
  BY MaxVersionAssumption DEF Evolves, TypeInv, TypeOK, DbTypeOK, Row
<1>2. /\ copy.version <= stored.version
      /\ copy.version = stored.version => Content(copy) = Content(stored)
  BY <1>1 DEF Agrees
<1>3. CASE stored'.version = stored.version + 1
  BY <1>1, <1>2, <1>3
<1>4. CASE stored'.version = stored.version /\ Content(stored') = Content(stored)
  BY <1>1, <1>2, <1>4
<1>5. QED
  BY <1>3, <1>4 DEF Evolves

\* A read returns something that agrees with the row.
LEMMA ReadsAgree ==
    ASSUME TypeInv, CopiesAgree, NEW h \in Process, Visible(h) # None
    PROVE  Agrees(Shown(Visible(h))) /\ Shown(Visible(h)).version \in Int
<1>1. Visible(h) \in Row
  BY VisibleType DEF TypeInv
<1>2. Visible(h).version \in Int
  BY <1>1, MaxVersionAssumption DEF Row
<1>3. Agrees(Visible(h))
  <2>1. CASE txn[h] = "reader"
    BY <2>1 DEF CopiesAgree, Visible
  <2>2. CASE txn[h] # "reader"
    BY <1>2, <2>2 DEF Visible, Agrees
  <2>3. QED
    BY <2>1, <2>2
<1>4. /\ Shown(Visible(h)).version = Visible(h).version
      /\ Content(Shown(Visible(h))) = Content(Visible(h))
  BY DEF Shown, Content
<1>5. QED
  BY <1>2, <1>3, <1>4 DEF Agrees

LEMMA RowInvInit == Init => RowInv
<1> SUFFICES ASSUME Init PROVE RowInv
  OBVIOUS
<1>1. TypeInv
  BY RowTypeInit
<1>2. CopiesAgree
  BY DEF Init, DbInit, CopiesAgree, Agrees
<1>3. QED
  BY <1>1, <1>2 DEF RowInv, TypeInv

LEMMA RowInvStep == RowInv /\ [Next]_vars => RowInv'
<1> SUFFICES ASSUME RowInv, [Next]_vars PROVE RowInv'
  OBVIOUS
<1>0. TypeInv /\ CopiesAgree
  BY DEF RowInv, TypeInv
<1>1. TypeInv'
  BY <1>0, RowTypeStep
<1>2. Evolves /\ Copied
  BY <1>0, RowEvolves, OnlyCopies
<1>3. ASSUME NEW copy, copy = None \/ copy.version \in Int, Agrees(copy)
      PROVE  copy # None /\ stored' # None =>
               /\ copy.version <= stored'.version
               /\ copy.version = stored'.version => Content(copy) = Content(stored')
  BY <1>0, <1>2, <1>3, AgreementLasts
<1>4. ASSUME NEW c \in Client
      PROVE  Agrees(form[c])'
  <2>1. form[c] = None \/ form[c].version \in Int
    BY <1>0, MaxVersionAssumption DEF TypeInv, TypeOK, Form
  <2>2. Agrees(form[c])
    BY <1>0 DEF CopiesAgree
  <2>3. CASE form'[c] = form[c]
    BY <1>3, <2>1, <2>2, <2>3 DEF Agrees
  <2>4. CASE \E h \in Process : Visible(h) # None /\ form'[c] = Shown(Visible(h))
    <3>1. PICK h \in Process : Visible(h) # None /\ form'[c] = Shown(Visible(h))
      BY <2>4
    <3>2. Agrees(Shown(Visible(h))) /\ Shown(Visible(h)).version \in Int
      BY <1>0, <3>1, ReadsAgree
    <3>3. QED
      BY <1>3, <3>1, <3>2 DEF Agrees
  <2>5. QED
    BY <1>2, <2>3, <2>4 DEF Copied
<1>5. ASSUME NEW h \in Process, txn'[h] = "reader"
      PROVE  Agrees(view[h])'
  <2>1. CASE txn[h] = "reader" /\ view'[h] = view[h]
    <3>1. view[h] = None \/ view[h].version \in Int
      BY <1>0, MaxVersionAssumption DEF TypeInv, TypeOK, DbTypeOK, Row
    <3>2. Agrees(view[h])
      BY <1>0, <2>1 DEF CopiesAgree
    <3>3. QED
      BY <1>3, <2>1, <3>1, <3>2 DEF Agrees
  <2>2. CASE stored' = stored /\ view'[h] = stored
    <3>1. stored = None \/ stored.version \in Int
      BY <1>0, MaxVersionAssumption DEF TypeInv, TypeOK, DbTypeOK, Row
    <3>2. QED
      BY <2>2, <3>1 DEF Agrees
  <2>3. QED
    BY <1>2, <1>5, <2>1, <2>2 DEF Copied
<1>6. CopiesAgree'
  BY <1>4, <1>5 DEF CopiesAgree
<1>7. QED
  BY <1>1, <1>6 DEF RowInv, TypeInv

\* A version is a name for a content, for every number of processes, forms and edits:
\* what a client holds under the row's version is what the row holds.
THEOREM VersionsNameContents == Spec => []SameVersionSameContent
<1>1. RowInv => SameVersionSameContent
  BY DEF RowInv, CopiesAgree, Agrees, SameVersionSameContent
<1>2. QED
  BY <1>1, RowInvInit, RowInvStep, PTL DEF Spec

-----------------------------------------------------------------------------
(***************************************************************************)
(* Only an edit makes another edit stale, and none is lost.                *)
(***************************************************************************)

\* What a step may do to the operation a process is in.
Proceeds(h) ==
    \/ call'[h] = call[h] /\ (call[h].at = "merged" => txn'[h] = txn[h] /\ view'[h] = view[h])
    \/ \E edit \in Edit : \E seen \in {None} \cup {form[c] : c \in Client} :
         PutMerges(h, seen, edit)
    \/ ManagerReads(h)
    \/ call'[h].at # "merged" /\ (call'[h].at = "saving" => call'[h].seen = None)

LEMMA CallsProceed ==
    ASSUME TypeInv, [Next]_vars, NEW h \in Process
    PROVE  Proceeds(h)
<1>0. /\ call \in [Process -> Call]
      /\ txn \in [Process -> Txn]
      /\ view \in [Process -> Row \cup {None}]
  BY DEF TypeInv, TypeOK, DbTypeOK
<1>i. Idle.at = "idle"
  BY DEF Idle
<1>1. ASSUME NEW g \in Process, g # h, UNCHANGED call \/ \E state : Goto(g, state),
             Select(g) \/ CommitNothing(g) \/ LeaveOpen(g) \/ TimeOut(g) \/ Reconnect(g)
             \/ UNCHANGED dbVars \/ \E new : Commit(g, new)
      PROVE  Proceeds(h)
  BY <1>0, <1>1 DEF Goto, Select, CommitNothing, LeaveOpen, TimeOut, Reconnect, Commit,
                    EndTransaction, dbVars, Proceeds
<1>2. ASSUME NEW state, Goto(h, state), state.at # "merged",
             state.at = "saving" => state.seen = None
      PROVE  Proceeds(h)
  BY <1>0, <1>2 DEF Goto, Proceeds
<1>3. ASSUME call[h] = Idle, UNCHANGED call
      PROVE  Proceeds(h)
  BY <1>i, <1>3 DEF Proceeds
<1>4. ASSUME NEW g \in Process, NEW c \in Client, LoadForm(g, c)
      PROVE  Proceeds(h)
  BY <1>1, <1>3, <1>4 DEF LoadForm, Reads
<1>5. ASSUME NEW g \in Process, NEW edit \in Edit,
             NEW seen \in {None} \cup {form[c] : c \in Client}, PutMerges(g, seen, edit)
      PROVE  Proceeds(h)
  <2>1. CASE g = h
    BY <1>5, <2>1 DEF Proceeds
  <2>2. CASE g # h
    BY <1>1, <1>5, <2>2 DEF PutMerges
  <2>3. QED
    BY <2>1, <2>2
<1>6. ASSUME NEW g \in Process, ManagerReads(g)
      PROVE  Proceeds(h)
  <2>1. CASE g = h
    BY <1>6, <2>1 DEF Proceeds
  <2>2. CASE g # h
    BY <1>1, <1>6, <2>2 DEF ManagerReads
  <2>3. QED
    BY <2>1, <2>2
<1>7. ASSUME NEW g \in Process, RewriteReads(g)
      PROVE  Proceeds(h)
  <2>1. PICK new \in Rewrites(Visible(g)) :
          Goto(g, [at |-> "saving", seen |-> None, edit |-> None,
                   profile |-> [Visible(g) EXCEPT !.settings = new.settings, !.pin = new.pin]])
    BY <1>7 DEF RewriteReads
  <2>2. QED
    BY <1>1, <1>2, <1>7, <2>1 DEF RewriteReads, Reads
<1>8. ASSUME NEW g \in Process, LaunchReads(g) \/ DeleteReads(g) \/ CheckReturns(g)
      PROVE  Proceeds(h)
  BY <1>i, <1>1, <1>2, <1>8 DEF LaunchReads, DeleteReads, CheckReturns, Reads
<1>9. ASSUME NEW g \in Process, CheckStarts(g)
      PROVE  Proceeds(h)
  BY <1>1, <1>3, <1>9 DEF CheckStarts, Reads
<1>10. ASSUME NEW g \in Process, Saves(g) \/ LaunchPins(g) \/ CheckWrites(g) \/ Deletes(g)
       PROVE  Proceeds(h)
  BY <1>i, <1>1, <1>2, <1>10 DEF Saves, LaunchPins, CheckWrites, Deletes
<1>11. ASSUME NEW g \in Process, WriteTimesOut(g) \/ Restart(g)
       PROVE  Proceeds(h)
  BY <1>i, <1>1, <1>2, <1>11 DEF WriteTimesOut, Restart
<1>12. ASSUME NEW g \in Process, OtherAccess(g)
       PROVE  Proceeds(h)
  BY <1>1, <1>3, <1>12 DEF OtherAccess
<1>13. CASE UNCHANGED vars
  BY <1>13 DEF vars, dbVars, Proceeds
<1>14. QED
  BY <1>4, <1>5, <1>6, <1>7, <1>8, <1>9, <1>10, <1>11, <1>12, <1>13 DEF Next

\* The version moves only when somebody's save lands.
LEMMA OnlySavesCount ==
    ASSUME TypeInv, [Next]_vars, stored # None, stored' # None,
           stored'.version # stored.version
    PROVE  \E h \in Process :
             /\ Saves(h)
             /\ stored' = [call[h].profile EXCEPT !.version = @ + 1]
<1>0. stored \in Row /\ call \in [Process -> Call]
  BY DEF TypeInv, TypeOK, DbTypeOK
<1> DEFINE Goal == \E h \in Process : /\ Saves(h)
                                      /\ stored' = [call[h].profile EXCEPT !.version = @ + 1]
<1>1. ASSUME NEW h \in Process, Saves(h)
      PROVE  Goal
  BY <1>1 DEF Saves, Commit, LeaveOpen
<1>2. ASSUME NEW h \in Process, LaunchPins(h) \/ CheckWrites(h)
      PROVE  FALSE
  BY <1>0, <1>2 DEF LaunchPins, CheckWrites, Commit, Row
<1>3. ASSUME NEW h \in Process, Deletes(h) \/ OtherAccess(h)
      PROVE  FALSE
  BY <1>3 DEF Deletes, OtherAccess, Select, Commit, CommitNothing, TimeOut
<1>4. ASSUME NEW h \in Process, NEW c \in Client, LoadForm(h, c)
      PROVE  FALSE
  BY <1>4 DEF LoadForm, Reads, Select
<1>5. ASSUME NEW h \in Process, NEW seen, NEW edit, PutMerges(h, seen, edit)
      PROVE  FALSE
  BY <1>5 DEF PutMerges, Select, dbVars
<1>6. ASSUME NEW h \in Process, ManagerReads(h) \/ RewriteReads(h) \/ LaunchReads(h)
                                \/ CheckStarts(h) \/ CheckReturns(h) \/ DeleteReads(h)
      PROVE  FALSE
  BY <1>6 DEF ManagerReads, RewriteReads, LaunchReads, CheckStarts, CheckReturns, DeleteReads,
              Reads, Select
<1>7. ASSUME NEW h \in Process, WriteTimesOut(h) \/ Restart(h)
      PROVE  FALSE
  BY <1>7 DEF WriteTimesOut, Restart, TimeOut, Reconnect
<1>8. stored' # stored
  OBVIOUS
<1>9. QED
  BY <1>1, <1>2, <1>3, <1>4, <1>5, <1>6, <1>7, <1>8 DEF Next, vars, dbVars

\* Only an edit makes another edit stale: launches, checks and whatever else writes the
\* row leave its version alone.
THEOREM OnlyEditsCount == Spec => OnlyEditsMakeStale
<1>1. TypeInv /\ [Next]_vars =>
        (stored # None /\ stored' # None /\ stored'.version # stored.version
           => \E h \in Process : call[h].at = "saving" /\ call'[h] = Idle)
  <2> SUFFICES ASSUME TypeInv, [Next]_vars, stored # None, stored' # None,
                      stored'.version # stored.version
               PROVE  \E h \in Process : call[h].at = "saving" /\ call'[h] = Idle
    OBVIOUS
  <2>1. PICK h \in Process : Saves(h)
    BY OnlySavesCount
  <2>2. QED
    BY <2>1 DEF Saves, Goto, TypeInv, TypeOK
<1>2. QED
  BY <1>1, RowTypeInit, RowTypeStep, PTL DEF Spec, OnlyEditsMakeStale

\* Where something known of the row comes from.
LEMMA KnownIs ==
    ASSUME NEW x
    PROVE  x \in Known <=>
             \/ stored # None /\ x = Shown(stored)
             \/ \E h \in Process : txn[h] = "reader" /\ view[h] # None /\ x = Shown(view[h])
             \/ x # None /\ \E c \in Client : x = form[c]
             \/ x # None /\ \E h \in Process : call[h].at = "merged" /\ x = call[h].seen
BY DEF Known

LEMMA VisibleKnown ==
    ASSUME NEW h \in Process, Visible(h) # None
    PROVE  Shown(Visible(h)) \in Known
BY KnownIs DEF Visible

LEMMA KnownTypes ==
    ASSUME TypeInv, NEW x \in Known
    PROVE  x \in Form /\ x.version \in Int
<1>1. x \in Form
  <2>1. \A row \in Row : Shown(row) \in Form
    BY DEF Shown, Row, Form
  <2>2. \A h \in Process : call[h].at = "merged" => call[h].seen \in Form \cup {None}
    BY CallTypes DEF TypeInv, TypeOK
  <2>3. QED
    BY <2>1, <2>2, KnownIs DEF TypeInv, TypeOK, DbTypeOK
<1>2. QED
  BY <1>1, MaxVersionAssumption DEF Form

\* Whatever is known after a step was known before it, or is the row it leaves.
LEMMA KnownSpreads ==
    ASSUME TypeInv, [Next]_vars, NEW x \in Known'
    PROVE  x \in Known \/ (stored' # None /\ x = Shown(stored'))
<1>0. Copied
  BY OnlyCopies
<1>k. \/ stored' # None /\ x = Shown(stored')
      \/ \E h \in Process : txn'[h] = "reader" /\ view'[h] # None /\ x = Shown(view'[h])
      \/ x # None /\ \E c \in Client : x = form'[c]
      \/ x # None /\ \E h \in Process : call'[h].at = "merged" /\ x = call'[h].seen
  BY DEF Known
<1>1. ASSUME NEW h \in Process, txn'[h] = "reader", view'[h] # None, x = Shown(view'[h])
      PROVE  x \in Known \/ (stored' # None /\ x = Shown(stored'))
  BY <1>0, <1>1, KnownIs DEF Copied
<1>2. ASSUME NEW c \in Client, x # None, x = form'[c]
      PROVE  x \in Known
  BY <1>0, <1>2, KnownIs, VisibleKnown DEF Copied
<1>3. ASSUME NEW h \in Process, x # None, call'[h].at = "merged", x = call'[h].seen
      PROVE  x \in Known
  <2>1. CASE call'[h] = call[h]
    BY <1>3, <2>1, KnownIs
  <2>2. ASSUME NEW edit \in Edit, NEW seen \in {None} \cup {form[c] : c \in Client},
               PutMerges(h, seen, edit)
        PROVE  x \in Known
    <3>1. call'[h].seen = seen
      BY <2>2 DEF PutMerges, Goto, TypeInv, TypeOK
    <3>2. QED
      BY <1>3, <3>1, KnownIs
  <2>3. CASE ManagerReads(h)
    <3>1. call'[h].at # "merged"
      BY <2>3 DEF ManagerReads, Goto, Idle, TypeInv, TypeOK
    <3>2. QED
      BY <1>3, <3>1
  <2>4. QED
    BY <1>3, <2>1, <2>2, <2>3, CallsProceed DEF Proceeds
<1>4. QED
  BY <1>k, <1>1, <1>2, <1>3

\* Versions name what is known of the row, and go on doing so.
LEMMA KnownGoesOnAgreeing ==
    ASSUME TypeInv, TypeInv', KnownAgree, KnownAreOld, [Next]_vars
    PROVE  KnownAgree' /\ KnownAreOld'
<1>0. Evolves
  BY RowEvolves
<1>1. \A x \in Known' : x \in Known \/ (stored' # None /\ x = Shown(stored'))
  BY KnownSpreads
<1>2. \A x \in Known : x.version \in Int
  BY KnownTypes
<1>3. CASE stored' = None
  BY <1>1, <1>3 DEF KnownAgree, KnownAreOld
<1>4. CASE stored' # None
  <2> DEFINE now == Shown(stored')
  <2>0. stored # None /\ stored.version \in Int /\ Shown(stored) \in Known
    BY <1>0, <1>4, KnownIs, MaxVersionAssumption DEF Evolves, TypeInv, TypeOK, DbTypeOK, Row
  <2>1. now.version = stored'.version
    BY DEF Shown
  <2>2. \A x \in Known : x.version <= stored.version
    BY <2>0 DEF KnownAreOld
  <2>3. \A x \in Known : x.version = stored'.version => x = now
    <3>1. CASE stored'.version = stored.version + 1
      BY <1>2, <2>0, <2>2, <3>1
    <3>2. CASE stored'.version = stored.version /\ Content(stored') = Content(stored)
      <4>1. now = Shown(stored)
        BY <3>2 DEF Shown, Content
      <4>2. Shown(stored).version = stored.version
        BY DEF Shown
      <4>3. QED
        BY <2>0, <3>2, <4>1, <4>2 DEF KnownAgree
    <3>3. QED
      BY <1>0, <1>4, <3>1, <3>2 DEF Evolves
  <2>4. \A x \in Known : x.version <= stored'.version
    BY <1>0, <1>2, <1>4, <2>0, <2>2 DEF Evolves
  <2> HIDE DEF now
  <2>5. \A x \in Known' : x \in Known \/ x = now
    BY <1>1 DEF now
  <2>6. KnownAgree'
    BY <2>1, <2>3, <2>5 DEF KnownAgree
  <2>7. stored'.version \in Int
    BY <1>4, MaxVersionAssumption DEF TypeInv, TypeOK, DbTypeOK, Row
  <2>8. KnownAreOld'
    BY <2>1, <2>4, <2>5, <2>7 DEF KnownAreOld
  <2>9. QED
    BY <2>6, <2>8
<1>5. QED
  BY <1>3, <1>4

LEMMA EditInvInit == Init => EditInv
<1> SUFFICES ASSUME Init PROVE EditInv
  OBVIOUS
<1>1. TypeInv
  BY RowTypeInit
<1>2. \A x \in Known : x = Shown(stored)
  BY KnownIs DEF Init, DbInit, Idle
<1>3. KnownAgree /\ KnownAreOld
  <2>1. Shown(stored).version = stored.version /\ stored.version = 0
    BY DEF Shown, Init, DbInit
  <2>2. QED
    BY <1>2, <2>1 DEF KnownAgree, KnownAreOld
<1>4. MergedAsSeen /\ SavesAsIntended
  BY DEF Init, Idle, MergedAsSeen, SavesAsIntended
<1>5. QED
  BY <1>1, <1>3, <1>4 DEF EditInv, TypeInv

LEMMA MergedStep ==
    ASSUME TypeInv, KnownAgree, KnownAreOld, MergedAsSeen, [Next]_vars
    PROVE  MergedAsSeen'
<1> SUFFICES ASSUME NEW h \in Process,
                    call'[h].at = "merged", call'[h].seen # None,
                    call'[h].edit.kind = "settings",
                    Visible(h)' # None, Visible(h)'.version = call'[h].seen.version
             PROVE  call'[h].settings = Merge(call'[h].seen.settings, call'[h].edit)
  BY DEF MergedAsSeen
<1>0. call \in [Process -> Call] /\ txn \in [Process -> Txn]
      /\ view \in [Process -> Row \cup {None}]
  BY DEF TypeInv, TypeOK, DbTypeOK
<1>1. CASE call'[h] = call[h] /\ txn'[h] = txn[h] /\ view'[h] = view[h]
  <2> DEFINE seen == call[h].seen
  <2>1. seen \in Known /\ seen.version \in Int
    BY <1>1, KnownIs, KnownTypes
  <2>2. Visible(h) # None /\ Visible(h).version = seen.version
    <3>1. CASE txn[h] = "reader"
      BY <1>1, <3>1 DEF Visible
    <3>2. CASE txn[h] # "reader"
      <4>1. stored' # None /\ stored'.version = seen.version
        BY <1>1, <3>2 DEF Visible
      <4>2. /\ stored # None
            /\ \/ stored'.version = stored.version + 1
               \/ stored'.version = stored.version
        BY <4>1, RowEvolves DEF Evolves
      <4>3. stored.version \in Int /\ seen.version <= stored.version
        BY <2>1, <4>2, MaxVersionAssumption DEF KnownAreOld, TypeInv, TypeOK, DbTypeOK, Row
      <4>4. stored.version = seen.version
        BY <2>1, <4>1, <4>2, <4>3
      <4>5. QED
        BY <3>2, <4>2, <4>4 DEF Visible
    <3>3. QED
      BY <3>1, <3>2
  <2>3. QED
    BY <1>1, <2>2 DEF MergedAsSeen
<1>2. ASSUME NEW edit \in Edit, NEW seen \in {None} \cup {form[c] : c \in Client},
             PutMerges(h, seen, edit)
      PROVE  call'[h].settings = Merge(call'[h].seen.settings, call'[h].edit)
  <2>1. /\ call'[h].seen = seen /\ call'[h].edit = edit
        /\ call'[h].settings = Merge(Visible(h).settings, edit)
    BY <1>0, <1>2 DEF PutMerges, Goto
  <2>2. Visible(h)' = Visible(h)
    BY <1>0, <1>2 DEF PutMerges, Select, Visible, dbVars
  <2>3. seen \in Known /\ Shown(Visible(h)) \in Known
    BY <2>1, <2>2, KnownIs, VisibleKnown
  <2>4. Shown(Visible(h)) = seen
    BY <2>1, <2>2, <2>3 DEF KnownAgree, Shown
  <2>5. Visible(h).settings = seen.settings
    BY <2>4 DEF Shown
  <2>6. QED
    BY <2>1, <2>5
<1>3. CASE ManagerReads(h)
  BY <1>0, <1>3 DEF ManagerReads, Goto, Idle
<1>4. QED
  BY <1>1, <1>2, <1>3, CallsProceed DEF Proceeds

LEMMA SavesStep ==
    ASSUME TypeInv, KnownAgree, MergedAsSeen, SavesAsIntended, [Next]_vars
    PROVE  SavesAsIntended'
<1> SUFFICES ASSUME NEW h \in Process, call'[h].at = "saving", call'[h].seen # None
             PROVE  Content(call'[h].profile) = Intended(call'[h].seen, call'[h].edit)
  BY DEF SavesAsIntended
<1>0. call \in [Process -> Call]
  BY DEF TypeInv, TypeOK
<1>1. CASE call'[h] = call[h]
  BY <1>1 DEF SavesAsIntended
<1>2. ASSUME NEW edit \in Edit, NEW seen, PutMerges(h, seen, edit)
      PROVE  FALSE
  BY <1>0, <1>2 DEF PutMerges, Goto
<1>3. CASE ManagerReads(h)
  <2> DEFINE put == call[h]
             row == Visible(h)
             seen == put.seen
             edit == put.edit
  <2>1. /\ row # None /\ ~(seen # None /\ seen.version # row.version)
        /\ call'[h] = [at |-> "saving", seen |-> seen, edit |-> Kept(put),
                       profile |-> Updated(row, edit, put.settings)]
    BY <1>0, <1>3 DEF ManagerReads, Goto, Idle
  <2>2. seen # None /\ seen.version = row.version /\ call'[h].seen = seen
    BY <2>1
  <2>3. call'[h].edit = edit /\ call'[h].profile = Updated(row, edit, put.settings)
    BY <2>1, <2>2 DEF Kept
  <2>4. put.at = "merged" /\ edit \in Edit /\ row \in Row
    BY <1>0, <1>3, <2>1, CallTypes, VisibleType DEF ManagerReads, TypeInv
  <2>5. seen = Shown(row)
    <3>1. seen \in Known /\ Shown(row) \in Known
      BY <2>1, <2>2, <2>4, KnownIs, VisibleKnown
    <3>2. QED
      BY <2>2, <3>1 DEF KnownAgree, Shown
  <2>6. seen.settings = row.settings /\ seen.proxy = row.proxy
    BY <2>5 DEF Shown
  <2>7. CASE edit.kind = "settings"
    <3>1. put.settings = [seen.settings EXCEPT ![edit.part] = edit.value]
      BY <2>1, <2>2, <2>4, <2>7 DEF MergedAsSeen, Merge
    <3>2. Updated(row, edit, put.settings) = [row EXCEPT !.settings = put.settings]
      BY <2>7 DEF Updated
    <3>3. Content(Updated(row, edit, put.settings)) = <<put.settings, row.proxy>>
      BY <2>4, <3>2 DEF Content, Row
    <3>4. QED
      BY <2>2, <2>3, <2>6, <2>7, <3>1, <3>3 DEF Intended
  <2>8. CASE edit.kind # "settings"
    <3>1. Updated(row, edit, put.settings) =
            [row EXCEPT !.proxy = edit.proxy,
                        !.check = IF edit.proxy = row.proxy THEN @ ELSE None]
      BY <2>8 DEF Updated
    <3>2. Content(Updated(row, edit, put.settings)) = <<row.settings, edit.proxy>>
      BY <2>4, <3>1 DEF Content, Row
    <3>3. QED
      BY <2>2, <2>3, <2>6, <2>8, <3>2 DEF Intended
  <2>9. QED
    BY <2>7, <2>8
<1>4. QED
  BY <1>1, <1>2, <1>3, CallsProceed DEF Proceeds

LEMMA EditInvStep == EditInv /\ [Next]_vars => EditInv'
<1> SUFFICES ASSUME EditInv, [Next]_vars PROVE EditInv'
  OBVIOUS
<1>1. TypeInv /\ KnownAgree /\ KnownAreOld /\ MergedAsSeen /\ SavesAsIntended
  BY DEF EditInv, TypeInv
<1>2. TypeInv'
  BY <1>1, RowTypeStep
<1>3. KnownAgree' /\ KnownAreOld'
  BY <1>1, <1>2, KnownGoesOnAgreeing
<1>4. MergedAsSeen' /\ SavesAsIntended'
  BY <1>1, MergedStep, SavesStep
<1>5. QED
  BY <1>2, <1>3, <1>4 DEF EditInv, TypeInv

\* Optimistic locking works: whatever snapshots the processes read and however many edits,
\* launches, checks and restarts fall between the form and the save, an accepted edit
\* is exactly its author's, made on exactly what its author saw.
THEOREM EditsAreKept == Spec => NoLostEdit
<1>1. EditInv /\ [Next]_vars =>
        \A h \in Process :
          /\ call[h].at = "saving" /\ call[h].seen # None
          /\ call'[h] = Idle /\ stored' # None /\ stored'.version # stored.version
          => Content(stored') = Intended(call[h].seen, call[h].edit)
  <2> SUFFICES ASSUME EditInv, [Next]_vars, NEW h \in Process,
                      call[h].at = "saving", call[h].seen # None, call'[h] = Idle,
                      stored' # None, stored'.version # stored.version
               PROVE  Content(stored') = Intended(call[h].seen, call[h].edit)
    OBVIOUS
  <2>1. TypeInv /\ SavesAsIntended
    BY DEF EditInv, TypeInv
  <2>2. stored # None
    BY <2>1, RowEvolves DEF Evolves
  <2>3. PICK g \in Process : Saves(g) /\ stored' = [call[g].profile EXCEPT !.version = @ + 1]
    BY <2>1, <2>2, OnlySavesCount
  <2>4. g = h
    BY <2>1, <2>3 DEF Saves, Goto, Idle, TypeInv, TypeOK
  <2>5. call[h].profile \in Row
    BY <2>1, CallTypes DEF TypeInv, TypeOK
  <2>6. stored'.settings = call[h].profile.settings /\ stored'.proxy = call[h].profile.proxy
    BY <2>3, <2>4, <2>5 DEF Row
  <2>7. QED
    BY <2>1, <2>6 DEF Content, SavesAsIntended
<1>2. QED
  BY <1>1, EditInvInit, EditInvStep, PTL DEF Spec, NoLostEdit
=============================================================================
