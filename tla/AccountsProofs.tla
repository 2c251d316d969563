--------------------------- MODULE AccountsProofs ---------------------------
(***************************************************************************)
(* Theorems about Accounts for every number of servers, users and          *)
(* sessions.                                                               *)
(***************************************************************************)
EXTENDS AccountsProperties, TLAPS

UserIds(tables) == {u.id : u \in tables.users}

\* Every session of these tables belongs to a user of theirs.
Whole(tables) == tables \in Tables /\ \A s \in tables.sessions : s.user \in UserIds(tables)

\* A connection in a transaction of its own that nobody has written past reads what
\* there is.
ViewsCurrent == \A h \in Process : txn[h] = "reader" /\ h \notin behind => view[h] = stored

AccountsInv ==
    /\ Whole(stored)
    /\ txn \in [Process -> Txn]
    /\ view \in [Process -> Tables \cup {None}]
    /\ behind \subseteq {h \in Process : txn[h] = "reader"}
    /\ \A h \in Process : txn[h] = "reader" => view[h] \in Tables
    /\ ViewsCurrent
    /\ minted \subseteq Account \cup Token
    /\ lapsed \subseteq Token
    /\ call \in [Process -> Call]

-----------------------------------------------------------------------------
DbPart ==
    /\ txn \in [Process -> Txn]
    /\ view \in [Process -> Tables \cup {None}]
    /\ behind \subseteq {h \in Process : txn[h] = "reader"}
    /\ \A h \in Process : txn[h] = "reader" => view[h] \in Tables
    /\ ViewsCurrent

\* Every statement leaves the connections well-typed and those that nobody has
\* written past current.
LEMMA StatementsKeep ==
    ASSUME DbPart, Whole(stored), NEW h \in Process
    PROVE  /\ Select(h) => DbPart' /\ stored' = stored
           /\ \A new : Commit(h, new) => DbPart' /\ stored' = new
           /\ CommitNothing(h) => DbPart' /\ stored' = stored
           /\ LeaveOpen(h) => DbPart' /\ stored' = stored
           /\ TimeOut(h) => DbPart' /\ stored' = stored
           /\ Reconnect(h) => DbPart' /\ stored' = stored
           /\ UNCHANGED dbVars => DbPart' /\ stored' = stored
<1> USE DEF DbPart, ViewsCurrent, Txn
<1>1. Select(h) => DbPart' /\ stored' = stored
  BY DEF Select, Whole
<1>2. ASSUME NEW new, Commit(h, new) PROVE DbPart' /\ stored' = new
  BY <1>2 DEF Commit, EndTransaction
<1>3. CommitNothing(h) => DbPart' /\ stored' = stored
  BY DEF CommitNothing, EndTransaction, MayWrite
<1>4. LeaveOpen(h) => DbPart' /\ stored' = stored
  BY DEF LeaveOpen, MayWrite
<1>5. TimeOut(h) => DbPart' /\ stored' = stored
  BY DEF TimeOut
<1>6. Reconnect(h) => DbPart' /\ stored' = stored
  BY DEF Reconnect, EndTransaction
<1>7. UNCHANGED dbVars => DbPart' /\ stored' = stored
  BY DEF dbVars
<1>8. QED
  BY <1>1, <1>2, <1>3, <1>4, <1>5, <1>6, <1>7

\* A connection reads tables that are whole; one that nobody has written past reads
\* the committed ones.
LEMMA ReadsTables ==
    ASSUME AccountsInv, NEW h \in Process
    PROVE  /\ Visible(h) \in Tables
           /\ h \notin behind => Visible(h) = stored
BY DEF AccountsInv, Visible, ViewsCurrent, Whole

LEMMA CallsKeep ==
    ASSUME call \in [Process -> Call], NEW h \in Process, NEW state \in Call, Goto(h, state)
    PROVE  call' \in [Process -> Call]
BY DEF Goto

\* What each writing statement makes of the tables is whole again.
LEMMA WithoutWhole ==
    ASSUME Whole(stored), NEW tokens
    PROVE  Whole(Without(tokens))
BY DEF Whole, Without, Tables, UserIds

LEMMA OpenedWhole ==
    ASSUME Whole(stored), NEW t \in Token, NEW id \in {u.id : u \in stored.users}
    PROVE  Whole([stored EXCEPT !.sessions = @ \cup {[token |-> t, user |-> id]}])
<1> DEFINE new == [stored EXCEPT !.sessions = @ \cup {[token |-> t, user |-> id]}]
<1>1. id \in Account
  BY DEF Whole, Tables, User
<1>2. stored \in [users : SUBSET User, sessions : SUBSET Session]
  BY DEF Whole, Tables
<1>3. /\ new \in Tables
      /\ new.users = stored.users
      /\ new.sessions = stored.sessions \cup {[token |-> t, user |-> id]}
  <2>1. [token |-> t, user |-> id] \in Session
    BY <1>1 DEF Session
  <2>2. QED
    BY <1>2, <2>1 DEF Tables
<1>4. \A s \in new.sessions : s.user \in UserIds(new)
  BY <1>3 DEF Whole, UserIds
<1>5. QED
  BY <1>3, <1>4 DEF Whole

LEMMA RepassedWhole ==
    ASSUME Whole(stored), NEW name, NEW password \in Password
    PROVE  Whole([stored EXCEPT !.users =
                    {IF u.name = name THEN [u EXCEPT !.password = password, !.outdated = FALSE] ELSE u :
                       u \in @}])
<1> DEFINE repassed(u) ==
             IF u.name = name THEN [u EXCEPT !.password = password, !.outdated = FALSE] ELSE u
           new == [stored EXCEPT !.users = {repassed(u) : u \in @}]
<1>1. stored \in [users : SUBSET User, sessions : SUBSET Session]
  BY DEF Whole, Tables
<1>2. \A u \in stored.users : repassed(u) \in User /\ repassed(u).id = u.id
  BY <1>1 DEF User
<1>3. new.users = {repassed(u) : u \in stored.users} /\ new.sessions = stored.sessions
  BY <1>1
<1>4. new \in Tables
  BY <1>1, <1>2, <1>3 DEF Tables
<1>5. ASSUME NEW s \in new.sessions PROVE s.user \in UserIds(new)
  <2>1. PICK u \in stored.users : u.id = s.user
    BY <1>3 DEF Whole, UserIds
  <2>2. repassed(u) \in new.users /\ repassed(u).id = s.user
    BY <2>1, <1>2, <1>3
  <2>3. QED
    BY <2>2 DEF UserIds
<1>6. QED
  BY <1>4, <1>5 DEF Whole

LEMMA SetPasswordWhole ==
    ASSUME DbPart, Whole(stored), NEW h \in Process, NEW name, NEW password \in Password,
           SetPassword(h, name, password)
    PROVE  DbPart' /\ Whole(stored)'
<1> DEFINE new == [stored EXCEPT !.users =
                     {IF u.name = name THEN [u EXCEPT !.password = password, !.outdated = FALSE] ELSE u :
                        u \in @}]
<1>1. Commit(h, new)
  BY DEF SetPassword
<1>2. Whole(new)
  BY RepassedWhole
<1> HIDE DEF new
<1>3. DbPart' /\ stored' = new
  BY <1>1, StatementsKeep
<1>4. QED
  BY <1>2, <1>3

LEMMA AddedWhole ==
    ASSUME Whole(stored), NEW u \in User
    PROVE  Whole([stored EXCEPT !.users = @ \cup {u}])
BY DEF Whole, Tables, UserIds

LEMMA RemovedWhole ==
    ASSUME Whole(stored), NEW name
    PROVE  Whole([users |-> stored.users \ Named(name),
                  sessions |-> {s \in stored.sessions : s.user \notin {u.id : u \in Named(name)}}])
<1> DEFINE new == [users |-> stored.users \ Named(name),
                   sessions |-> {s \in stored.sessions : s.user \notin {u.id : u \in Named(name)}}]
<1>1. new \in Tables
  BY DEF Whole, Tables
<1>2. ASSUME NEW s \in new.sessions PROVE s.user \in UserIds(new)
  <2>1. PICK u \in stored.users : u.id = s.user
    BY DEF Whole, UserIds
  <2>2. u \notin Named(name)
    BY <2>1
  <2>3. QED
    BY <2>1, <2>2 DEF UserIds
<1>3. QED
  BY <1>1, <1>2 DEF Whole

-----------------------------------------------------------------------------
LEMMA InitWhole == Init => AccountsInv
<1> SUFFICES ASSUME Init PROVE AccountsInv
  OBVIOUS
<1>1. PICK users \in {{}} \cup {{u} : u \in User} :
        /\ DbInit([users |-> users, sessions |-> {}])
        /\ minted = {u.id : u \in users}
  BY DEF Init
<1>2. users \subseteq User
  BY <1>1
<1>3. Whole(stored)
  BY <1>1, <1>2 DEF DbInit, Whole, Tables
<1>4. minted \subseteq Account
  BY <1>1, <1>2 DEF User
<1>5. call \in [Process -> Call] /\ lapsed = {}
  BY DEF Init, Call
<1>6. QED
  BY <1>1, <1>3, <1>4, <1>5 DEF DbInit, AccountsInv, Txn, ViewsCurrent

LEMMA StepWhole == AccountsInv /\ [Next]_vars => AccountsInv'
<1> SUFFICES ASSUME AccountsInv, [Next]_vars PROVE AccountsInv'
  OBVIOUS
<1> DEFINE Rest == /\ minted' \subseteq Account \cup Token
                   /\ lapsed' \subseteq Token
                   /\ call' \in [Process -> Call]
<1>a. DbPart /\ Whole(stored) /\ call \in [Process -> Call]
      /\ minted \subseteq Account \cup Token /\ lapsed \subseteq Token
  BY DEF AccountsInv, DbPart
<1>b. SUFFICES DbPart' /\ Whole(stored)' /\ Rest
  BY DEF AccountsInv, DbPart
<1>c. Idle \in Call
  BY DEF Call
<1>d. ASSUME NEW h \in Process PROVE call[h] \in Call
  BY <1>a, <1>d
<1>1. ASSUME NEW h \in Server, LoginReads(h) PROVE DbPart' /\ Whole(stored)' /\ Rest
  <2>1. h \in Process
    BY <1>1 DEF Server
  <2>2. PICK u \in Visible(h).users :
          Goto(h, [at |-> IF u.outdated THEN "rehashing" ELSE "purging", user |-> u])
    BY <1>1 DEF LoginReads
  <2>3. u \in User
    BY <2>1, <2>2, ReadsTables DEF Tables
  <2>4. [at |-> IF u.outdated THEN "rehashing" ELSE "purging", user |-> u] \in Call
    BY <2>3 DEF Call
  <2>5. call' \in [Process -> Call]
    BY <2>1, <2>2, <2>4, <1>a, CallsKeep
  <2>6. QED
    BY <1>1, <1>a, <2>1, <2>5, StatementsKeep DEF LoginReads
<1>2. ASSUME NEW h \in Server, Rehashes(h) PROVE DbPart' /\ Whole(stored)' /\ Rest
  <2> DEFINE u == call[h].user
  <2>1. h \in Process
    BY <1>2 DEF Server
  <2>2. u \in User
    BY <1>2, <1>d, <2>1 DEF Rehashes, Call, Idle
  <2>3. [at |-> "purging", user |-> u] \in Call
    BY <2>2 DEF Call
  <2>4. call' \in [Process -> Call]
    BY <2>1, <2>3, <1>2, <1>a, CallsKeep DEF Rehashes
  <2>5. CASE Named(u.name) = {}
    <3>1. CommitNothing(h)
      BY <1>2, <2>5 DEF Rehashes
    <3>2. QED
      BY <3>1, <1>2, <1>a, <2>1, <2>4, StatementsKeep DEF Rehashes
  <2>6. CASE Named(u.name) # {}
    <3>1. SetPassword(h, u.name, u.password)
      BY <1>2, <2>6 DEF Rehashes
    <3>2. u.password \in Password
      BY <2>2 DEF User
    <3>3. DbPart' /\ Whole(stored)'
      BY <3>1, <3>2, <1>a, <2>1, SetPasswordWhole
    <3>4. QED
      BY <3>3, <1>2, <1>a, <2>4 DEF Rehashes
  <2>7. QED
    BY <2>5, <2>6
<1>w. ASSUME NEW h \in Process, NEW tokens, Write(h, Without(tokens))
      PROVE  DbPart' /\ Whole(stored)'
  <2>1. CASE Without(tokens) = stored
    BY <2>1, <1>w, <1>a, StatementsKeep DEF Write
  <2>2. CASE Without(tokens) # stored
    <3>1. Commit(h, Without(tokens))
      BY <2>2, <1>w DEF Write
    <3>2. QED
      BY <3>1, <1>a, StatementsKeep, WithoutWhole
  <2>3. QED
    BY <2>1, <2>2
<1>3. ASSUME NEW h \in Server, Purges(h) PROVE DbPart' /\ Whole(stored)' /\ Rest
  <2>1. h \in Process
    BY <1>3 DEF Server
  <2>2. [at |-> "opening", user |-> call[h].user] \in Call
    BY <1>3, <1>d, <2>1 DEF Purges, Call, Idle
  <2>3. call' \in [Process -> Call]
    BY <2>1, <2>2, <1>3, <1>a, CallsKeep DEF Purges
  <2>4. QED
    BY <1>3, <1>a, <1>w, <2>1, <2>3 DEF Purges
<1>4. ASSUME NEW h \in Server, Opens(h) PROVE DbPart' /\ Whole(stored)' /\ Rest
  <2> DEFINE id == call[h].user.id
  <2>1. h \in Process
    BY <1>4 DEF Server
  <2>2. call' \in [Process -> Call]
    BY <2>1, <1>4, <1>a, <1>c, CallsKeep DEF Opens
  <2>3. PICK t \in Token \ minted :
          /\ IF id \in {u.id : u \in stored.users}
               THEN Commit(h, [stored EXCEPT !.sessions = @ \cup {[token |-> t, user |-> id]}])
               ELSE LeaveOpen(h)
          /\ minted' = minted \cup {t}
    BY <1>4 DEF Opens
  <2>4. DbPart' /\ Whole(stored)'
    <3>1. CASE id \in {u.id : u \in stored.users}
      <4>1. Commit(h, [stored EXCEPT !.sessions = @ \cup {[token |-> t, user |-> id]}])
        BY <2>3, <3>1
      <4>2. Whole([stored EXCEPT !.sessions = @ \cup {[token |-> t, user |-> id]}])
        BY <3>1, <1>a, OpenedWhole
      <4>3. QED
        BY <4>1, <4>2, <1>a, <2>1, StatementsKeep
    <3>2. CASE id \notin {u.id : u \in stored.users}
      BY <3>2, <2>3, <1>a, <2>1, StatementsKeep
    <3>3. QED
      BY <3>1, <3>2
  <2>5. QED
    BY <1>4, <1>a, <2>2, <2>3, <2>4 DEF Opens
<1>5. ASSUME NEW h \in Server, NEW t, LogsOut(h, t) PROVE DbPart' /\ Whole(stored)' /\ Rest
  BY <1>5, <1>a, <1>w DEF LogsOut, Server
<1>6. ASSUME NEW h \in Server, NEW t \in Token, Probes(h, t)
      PROVE  DbPart' /\ Whole(stored)' /\ Rest
  <2>1. [at |-> "validating", token |-> t, probe |-> TRUE] \in Call
    BY DEF Call
  <2>2. call' \in [Process -> Call]
    BY <2>1, <1>6, <1>a, CallsKeep DEF Probes, Server
  <2>3. QED
    BY <2>2, <1>6, <1>a, StatementsKeep DEF Probes, Server
<1>7. ASSUME NEW h \in Server, NEW t \in {None} \cup Token, Counts(h, t)
      PROVE  DbPart' /\ Whole(stored)' /\ Rest
  <2>1. (IF Visible(h).users = {} THEN [at |-> "serving", token |-> None]
         ELSE IF t = None THEN Idle
         ELSE [at |-> "validating", token |-> t, probe |-> FALSE]) \in Call
    BY DEF Call
  <2>2. call' \in [Process -> Call]
    BY <2>1, <1>7, <1>a, CallsKeep DEF Counts, Server
  <2>3. QED
    BY <2>2, <1>7, <1>a, StatementsKeep DEF Counts, Server
<1>8. ASSUME NEW h \in Server, Validates(h) PROVE DbPart' /\ Whole(stored)' /\ Rest
  <2> DEFINE t == call[h].token
             ids == {u.id : u \in Visible(h).users}
             found == \E s \in Visible(h).sessions : s.token = t /\ s.user \in ids
             state == IF ~found THEN Idle
                      ELSE IF t \in lapsed THEN [at |-> "dropping", token |-> t]
                      ELSE IF call[h].probe THEN Idle
                      ELSE [at |-> "serving", token |-> t]
  <2>1. t \in Token
    BY <1>8, <1>d DEF Validates, Server, Call, Idle
  <2>2. state \in Call
    <3>1. Idle \in Call /\ [at |-> "dropping", token |-> t] \in Call
          /\ [at |-> "serving", token |-> t] \in Call
      BY <2>1 DEF Call
    <3>2. QED
      BY <3>1
  <2>3. Goto(h, state) /\ Select(h)
    BY <1>8 DEF Validates
  <2> HIDE DEF state
  <2>4. call' \in [Process -> Call]
    BY <2>2, <2>3, <1>8, <1>a, CallsKeep DEF Server
  <2>5. QED
    BY <2>3, <2>4, <1>8, <1>a, StatementsKeep DEF Validates, Server
<1>9. ASSUME NEW h \in Server, Drops(h) PROVE DbPart' /\ Whole(stored)' /\ Rest
  <2>1. call' \in [Process -> Call]
    BY <1>9, <1>a, <1>c, CallsKeep DEF Drops, Server
  <2>2. QED
    BY <2>1, <1>9, <1>a, <1>w DEF Drops, Server
<1>10. ASSUME NEW h \in Server, Serves(h) PROVE DbPart' /\ Whole(stored)' /\ Rest
  <2>1. call' \in [Process -> Call]
    BY <1>10, <1>a, <1>c, CallsKeep DEF Serves, Server
  <2>2. QED
    BY <2>1, <1>10, <1>a, StatementsKeep DEF Serves, Server
<1>11. ASSUME NEW h \in Server, WriteTimesOut(h) PROVE DbPart' /\ Whole(stored)' /\ Rest
  <2>1. call' \in [Process -> Call]
    BY <1>11, <1>a, <1>c, CallsKeep DEF WriteTimesOut, Server
  <2>2. QED
    BY <2>1, <1>11, <1>a, StatementsKeep DEF WriteTimesOut, Server
<1>12. ASSUME NEW h \in Server, OtherAccess(h) PROVE DbPart' /\ Whole(stored)' /\ Rest
  BY <1>12, <1>a, StatementsKeep DEF OtherAccess, Server
<1>13. ASSUME NEW h \in Server, Restart(h) PROVE DbPart' /\ Whole(stored)' /\ Rest
  <2>1. call' \in [Process -> Call]
    BY <1>13, <1>a, <1>c, CallsKeep DEF Restart, Server
  <2>2. QED
    BY <2>1, <1>13, <1>a, StatementsKeep DEF Restart, Server
<1>14. ASSUME NEW name \in Name, NEW password \in Password, UserAdd(name, password)
       PROVE  DbPart' /\ Whole(stored)' /\ Rest
  <2>1. PICK id \in Account \ minted :
          /\ Commit(Shell, [stored EXCEPT !.users =
               @ \cup {[id |-> id, name |-> name, password |-> password, outdated |-> FALSE]}])
          /\ minted' = minted \cup {id}
    BY <1>14 DEF UserAdd
  <2>2. [id |-> id, name |-> name, password |-> password, outdated |-> FALSE] \in User
    BY DEF User
  <2>3. DbPart' /\ Whole(stored)'
    BY <2>1, <2>2, <1>a, ShellAssumption, StatementsKeep, AddedWhole
  <2>4. QED
    BY <2>1, <2>3, <1>14, <1>a DEF UserAdd
<1>15. ASSUME NEW name \in Name, NEW password \in Password, UserPasswd(name, password)
       PROVE  DbPart' /\ Whole(stored)' /\ Rest
  <2>1. DbPart' /\ Whole(stored)'
    BY <1>15, <1>a, ShellAssumption, SetPasswordWhole DEF UserPasswd
  <2>2. QED
    BY <2>1, <1>15, <1>a DEF UserPasswd
<1>16. ASSUME NEW name \in Name, UserRemove(name) PROVE DbPart' /\ Whole(stored)' /\ Rest
  <2>1. DbPart' /\ Whole(stored)'
    BY <1>16, <1>a, ShellAssumption, StatementsKeep, RemovedWhole DEF UserRemove
  <2>2. QED
    BY <2>1, <1>16, <1>a DEF UserRemove
<1>17. ASSUME NEW t \in Token, Lapses(t) PROVE DbPart' /\ Whole(stored)' /\ Rest
  BY <1>17, <1>a, ShellAssumption, StatementsKeep DEF Lapses
<1>18. CASE UNCHANGED vars
  BY <1>18, <1>a, ShellAssumption, StatementsKeep DEF vars
<1>19. QED
  BY <1>1, <1>2, <1>3, <1>4, <1>5, <1>6, <1>7, <1>8, <1>9, <1>10, <1>11, <1>12, <1>13, <1>14,
     <1>15, <1>16, <1>17, <1>18 DEF Next

LEMMA AlwaysWhole == Spec => []AccountsInv
BY InitWhole, StepWhole, PTL DEF Spec

-----------------------------------------------------------------------------
\* Sessions, users, connections and the requests between two statements are what
\* they should be, for every number of servers (a login keeps the user it read, and
\* what it read is a row of a whole table).
THEOREM AccountsTypeCorrect == Spec => []TypeOK
<1>1. AccountsInv => TypeOK
  BY DEF AccountsInv, TypeOK, DbTypeOK, Whole
<1>2. QED
  BY <1>1, AlwaysWhole, PTL

\* No session is left of a user who is gone, however logins, removals and writes
\* that time out interleave (auth.py, delete_user).
THEOREM SessionsAlwaysBelong == Spec => []SessionsBelong
<1>1. AccountsInv => SessionsBelong
  BY DEF AccountsInv, SessionsBelong, Whole, UserIds, Ids
<1>2. QED
  BY <1>1, AlwaysWhole, PTL

-----------------------------------------------------------------------------
\* Only the count and the validation let a request through, and only the one of the
\* process the request is of.
LEMMA WhoAdmits ==
    ASSUME AccountsInv, [Next]_vars, NEW h \in Server, NEW t, Admits(h, t)
    PROVE  \/ \E c \in {None} \cup (Token \cap minted) : Counts(h, c)
           \/ Validates(h)
<1> USE DEF Server
<1>a. call \in [Process -> Call] /\ h \in Process
  BY DEF AccountsInv
<1>b. call'[h] # call[h] /\ call'[h] # Idle /\ call'[h].at = "serving"
  BY DEF Admits, Idle
<1>1. ASSUME NEW g \in Server, NEW state, Goto(g, state), g # h PROVE FALSE
  BY <1>1, <1>a, <1>b DEF Goto
<1>2. ASSUME NEW state, Goto(h, state), state.at # "serving" PROVE FALSE
  BY <1>2, <1>a, <1>b DEF Goto
<1>3. ASSUME call' = call PROVE FALSE
  BY <1>3, <1>b
<1>4. Idle.at # "serving"
  BY DEF Idle
<1>5. ASSUME NEW g \in Server
      PROVE  /\ ~LoginReads(g) /\ ~Rehashes(g) /\ ~Purges(g) /\ ~Opens(g) /\ ~Drops(g) /\ ~Serves(g)
             /\ ~WriteTimesOut(g) /\ ~OtherAccess(g) /\ ~Restart(g)
             /\ \A u : ~LogsOut(g, u) /\ ~Probes(g, u)
             /\ g # h => ~Validates(g) /\ \A u : ~Counts(g, u)
  <2>1. ~LoginReads(g)
    BY <1>1, <1>2 DEF LoginReads
  <2>2. ~Rehashes(g) /\ ~Purges(g)
    BY <1>1, <1>2 DEF Rehashes, Purges
  <2>3. ~Opens(g) /\ ~Drops(g) /\ ~Serves(g) /\ ~WriteTimesOut(g) /\ ~Restart(g)
    BY <1>1, <1>2, <1>4 DEF Opens, Drops, Serves, WriteTimesOut, Restart
  <2>4. ~OtherAccess(g) /\ \A u : ~LogsOut(g, u)
    BY <1>3 DEF OtherAccess, LogsOut
  <2>5. \A u : ~Probes(g, u)
    BY <1>1, <1>2 DEF Probes
  <2>6. g # h => ~Validates(g) /\ \A u : ~Counts(g, u)
    BY <1>1 DEF Validates, Counts
  <2>7. QED
    BY <2>1, <2>2, <2>3, <2>4, <2>5, <2>6
<1>6. \A name, password : ~UserAdd(name, password) /\ ~UserPasswd(name, password) /\ ~UserRemove(name)
  BY <1>3 DEF UserAdd, UserPasswd, UserRemove
<1>7. \A u : ~Lapses(u)
  BY <1>3 DEF Lapses
<1>8. ~UNCHANGED vars
  BY <1>3 DEF vars
<1>9. QED
  BY <1>5, <1>6, <1>7, <1>8 DEF Next

\* A request is let through on what the database holds at that moment, unless the
\* server's connection reads a snapshot that somebody has written past.
THEOREM RevocationReachesAll == Spec => RevocationReaches
<1>1. ASSUME AccountsInv, [Next]_vars, NEW h \in Server, h \notin behind PROVE Rightly(h)
  <2>a. h \in Process /\ call \in [Process -> Call]
    BY <1>1 DEF Server, AccountsInv
  <2>b. Visible(h) = stored
    BY <1>1, <2>a, ReadsTables
  <2>1. ASSUME Admits(h, None) PROVE stored.users = {}
    <3>1. CASE \E c \in {None} \cup (Token \cap minted) : Counts(h, c)
      BY <3>1, <2>1, <2>a, <2>b DEF Counts, Admits, Goto, Idle
    <3>2. CASE Validates(h)
      <4>1. call[h].token \in Token
        BY <3>2, <2>a DEF Validates, Call, Idle
      <4>2. call'[h] = Idle \/ call'[h].at = "dropping" \/ call'[h].token = call[h].token
        BY <3>2, <2>a DEF Validates, Goto
      <4>3. call'[h].at = "serving" /\ call'[h].token = None
        BY <2>1 DEF Admits
      <4>4. QED
        BY <4>1, <4>2, <4>3, TokenAssumption DEF Idle
    <3>3. QED
      BY <3>1, <3>2, <2>1, <1>1, WhoAdmits
  <2>2. ASSUME NEW t \in Token, Admits(h, t)
        PROVE  t \notin lapsed /\ \E s \in stored.sessions : s.token = t /\ s.user \in Ids
    <3>0. call'[h].at = "serving" /\ call'[h].token = t
      BY <2>2 DEF Admits
    <3>1. ASSUME NEW c, Counts(h, c) PROVE FALSE
      <4>1. call'[h] = Idle \/ call'[h].at = "validating" \/ call'[h].token = None
        BY <3>1, <2>a DEF Counts, Goto
      <4>2. QED
        BY <4>1, <3>0, TokenAssumption DEF Idle
    <3>2. Validates(h)
      BY <3>1, <2>2, <1>1, WhoAdmits
    <3> DEFINE ids == {u.id : u \in Visible(h).users}
               found == \E s \in Visible(h).sessions : s.token = call[h].token /\ s.user \in ids
    <3>3. call'[h] = IF ~found THEN Idle
                     ELSE IF call[h].token \in lapsed THEN [at |-> "dropping", token |-> call[h].token]
                     ELSE IF call[h].probe THEN Idle
                     ELSE [at |-> "serving", token |-> call[h].token]
      BY <3>2, <2>a DEF Validates, Goto
    <3> HIDE DEF found
    <3>4. found /\ call[h].token \notin lapsed /\ call[h].token = t
      BY <3>0, <3>3 DEF Idle
    <3>5. \E s \in stored.sessions : s.token = t /\ s.user \in Ids
      BY <3>4, <2>b DEF found, Ids
    <3>6. QED
      BY <3>4, <3>5
  <2>3. QED
    BY <2>1, <2>2 DEF Rightly
<1>2. AccountsInv /\ [Next]_vars => [\A h \in Server : h \notin behind => Rightly(h)]_vars
  BY <1>1
<1>3. QED
  BY <1>2, AlwaysWhole, PTL DEF Spec, RevocationReaches
=============================================================================
