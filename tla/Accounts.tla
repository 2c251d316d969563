------------------------------ MODULE Accounts ------------------------------
(***************************************************************************)
(* Users and login sessions: the servers that log people in and let        *)
(* requests through, and the command line that adds, changes and removes   *)
(* users of the same database while they run.                              *)
(*                                                                         *)
(* A request never suspends between two statements of a successful login   *)
(* or of its authentication, so the requests of one server do not          *)
(* interleave; what comes in between is another server or the command      *)
(* line.  A request with the API key touches no table and is left out: the *)
(* model is of an instance without one.                                    *)
(***************************************************************************)
EXTENDS SharedDatabase

CONSTANTS
    Shell,        \* the process `camoufox-pm user ...` runs in
    Account,      \* user ids: uuid4, never drawn twice
    Name,         \* usernames, up to case
    Password,
    Token         \* session tokens: random, never drawn twice

ASSUME ShellAssumption == Shell \in Process
ASSUME TokenAssumption == None \notin Token

VARIABLES
    minted,       \* the ids and tokens drawn so far
    lapsed,       \* tokens whose expires_at has passed
    call          \* the request between two statements of each process

vars == <<dbVars, minted, lapsed, call>>

Server == Process \ {Shell}

\* outdated: the hash was made under older argon2 parameters
User == [id : Account, name : Name, password : Password, outdated : BOOLEAN]

Session == [token : Token, user : Account]

Tables == [users : SUBSET User, sessions : SUBSET Session]

Idle == [at |-> "idle"]

Call ==
    {Idle}
    \cup [at : {"rehashing", "purging", "opening"}, user : User]
    \cup [at : {"validating"}, token : Token, probe : BOOLEAN]
    \cup [at : {"dropping"}, token : Token]
    \cup [at : {"serving"}, token : Token \cup {None}]

TypeOK ==
    /\ DbTypeOK(Tables)
    /\ stored \in Tables
    /\ \A h \in Process : txn[h] = "reader" => view[h] \in Tables
    /\ minted \subseteq Account \cup Token
    /\ lapsed \subseteq Token
    /\ call \in [Process -> Call]

Init ==
    /\ \E users \in {{}} \cup {{u} : u \in User} :
         /\ DbInit([users |-> users, sessions |-> {}])
         /\ minted = {u.id : u \in users}
    /\ lapsed = {}
    /\ call = [h \in Process |-> Idle]

-----------------------------------------------------------------------------
Goto(h, state) == call' = [call EXCEPT ![h] = state]

\* Free, that is, to take up the next request.
Free(h) == h \in Server /\ call[h] = Idle

\* A DELETE and its commit, whether or not it matched anything.
Write(h, tables) == IF tables = stored THEN CommitNothing(h) ELSE Commit(h, tables)

Without(tokens) == [stored EXCEPT !.sessions = {s \in @ : s.token \notin tokens}]

Named(name) == {u \in stored.users : u.name = name}

\* UPDATE users SET password_hash ... WHERE username, always with a new salt.
SetPassword(h, name, password) ==
    Commit(h, [stored EXCEPT !.users =
                 {IF u.name = name THEN [u EXCEPT !.password = password, !.outdated = FALSE] ELSE u :
                    u \in @}])

-----------------------------------------------------------------------------
\* POST /auth/login by somebody who knows the password.  Any other attempt reads
\* the table and ends in a delay and a 401, which is OtherAccess.
LoginReads(h) ==
    /\ Free(h)
    /\ Select(h)
    /\ \E u \in Visible(h).users :
         Goto(h, [at |-> IF u.outdated THEN "rehashing" ELSE "purging", user |-> u])
    /\ UNCHANGED <<minted, lapsed>>

\* The password just verified, hashed anew and stored under the username.
Rehashes(h) ==
    /\ call[h].at = "rehashing"
    /\ LET u == call[h].user
       IN  /\ IF Named(u.name) = {} THEN CommitNothing(h) ELSE SetPassword(h, u.name, u.password)
           /\ Goto(h, [at |-> "purging", user |-> u])
    /\ UNCHANGED <<minted, lapsed>>

\* delete_expired_sessions
Purges(h) ==
    /\ call[h].at = "purging"
    /\ Write(h, Without(lapsed))
    /\ Goto(h, [at |-> "opening", user |-> call[h].user])
    /\ UNCHANGED <<minted, lapsed>>

\* Mutant: foreign keys are off on this connection, as they are by default.
OpensUnreferenced(h) ==
    /\ call[h].at = "opening"
    /\ \E t \in Token \ minted :
         /\ Commit(h, [stored EXCEPT !.sessions = @ \cup {[token |-> t, user |-> call[h].user.id]}])
         /\ minted' = minted \cup {t}
    /\ Goto(h, Idle)
    /\ UNCHANGED lapsed

\* The session is inserted; for a user removed meanwhile the foreign key fails, and
\* IntegrityError leaves the transaction open.
Opens(h) ==
    /\ call[h].at = "opening"
    /\ LET id == call[h].user.id
       IN  \E t \in Token \ minted :
             /\ IF id \in {u.id : u \in stored.users}
                  THEN Commit(h, [stored EXCEPT !.sessions = @ \cup {[token |-> t, user |-> id]}])
                  ELSE LeaveOpen(h)
             /\ minted' = minted \cup {t}
    /\ Goto(h, Idle)
    /\ UNCHANGED lapsed

\* POST /auth/logout
LogsOut(h, t) ==
    /\ Free(h)
    /\ Write(h, Without({t}))
    /\ UNCHANGED <<minted, lapsed, call>>

\* Mutant: a request without a cookie is looked up like any other.
CountsUnchecked(h, t) ==
    /\ Free(h)
    /\ Select(h)
    /\ Goto(h, IF Visible(h).users = {} THEN [at |-> "serving", token |-> None]
               ELSE [at |-> "validating", token |-> t, probe |-> FALSE])
    /\ UNCHANGED <<minted, lapsed>>

\* require_auth, first statement: without users every request passes, with some a
\* request without a cookie does not.
Counts(h, t) ==
    /\ Free(h)
    /\ Select(h)
    /\ Goto(h, IF Visible(h).users = {} THEN [at |-> "serving", token |-> None]
               ELSE IF t = None THEN Idle
               ELSE [at |-> "validating", token |-> t, probe |-> FALSE])
    /\ UNCHANGED <<minted, lapsed>>

\* GET /auth/session looks at the cookie whether there are users or not.
Probes(h, t) ==
    /\ Free(h)
    /\ Select(h)
    /\ Goto(h, [at |-> "validating", token |-> t, probe |-> TRUE])
    /\ UNCHANGED <<minted, lapsed>>

\* Mutant: the expiry is left to delete_expired_sessions.
ValidatesLapsed(h) ==
    /\ call[h].at = "validating"
    /\ Select(h)
    /\ LET t == call[h].token
       IN  Goto(h, IF \A s \in Visible(h).sessions : s.token # t THEN Idle
                   ELSE IF call[h].probe THEN Idle
                   ELSE [at |-> "serving", token |-> t])
    /\ UNCHANGED <<minted, lapsed>>

\* validate_session: the session joined with its user, then its expiry.
Validates(h) ==
    /\ call[h].at = "validating"
    /\ Select(h)
    /\ LET t == call[h].token
           ids == {u.id : u \in Visible(h).users}
           found == \E s \in Visible(h).sessions : s.token = t /\ s.user \in ids
       IN  Goto(h, IF ~found THEN Idle
                   ELSE IF t \in lapsed THEN [at |-> "dropping", token |-> t]
                   ELSE IF call[h].probe THEN Idle
                   ELSE [at |-> "serving", token |-> t])
    /\ UNCHANGED <<minted, lapsed>>

\* An expired session is removed by whoever presents it.
Drops(h) ==
    /\ call[h].at = "dropping"
    /\ Write(h, Without({call[h].token}))
    /\ Goto(h, Idle)
    /\ UNCHANGED <<minted, lapsed>>

\* The route behind the guard runs; what it does is other modules' subject.
Serves(h) ==
    /\ call[h].at = "serving"
    /\ Goto(h, Idle)
    /\ UNCHANGED <<dbVars, minted, lapsed>>

\* A write raises "database is locked", out of the route.
WriteTimesOut(h) ==
    /\ call[h].at \in {"rehashing", "purging", "opening", "dropping"}
    /\ TimeOut(h)
    /\ Goto(h, Idle)
    /\ UNCHANGED <<minted, lapsed>>

-----------------------------------------------------------------------------
\* The command line opens a connection, runs one writing statement and closes it.
\* A command that fails (a name taken, a name unknown, the database locked) ends
\* its process, and with the connection goes whatever it had begun.

\* camoufox-pm user add; username is UNIQUE
UserAdd(name, password) ==
    /\ Named(name) = {}
    /\ \E id \in Account \ minted :
         /\ Commit(Shell, [stored EXCEPT !.users =
              @ \cup {[id |-> id, name |-> name, password |-> password, outdated |-> FALSE]}])
         /\ minted' = minted \cup {id}
    /\ UNCHANGED <<lapsed, call>>

\* camoufox-pm user passwd; open sessions stay open
UserPasswd(name, password) ==
    /\ Named(name) # {}
    /\ SetPassword(Shell, name, password)
    /\ UNCHANGED <<minted, lapsed, call>>

\* camoufox-pm user remove; the foreign key cascades to the user's sessions
UserRemove(name) ==
    /\ Named(name) # {}
    /\ Commit(Shell, [users |-> stored.users \ Named(name),
                      sessions |-> {s \in stored.sessions :
                                      s.user \notin {u.id : u \in Named(name)}}])
    /\ UNCHANGED <<minted, lapsed, call>>

\* Everything else a server does with its connection.
OtherAccess(h) ==
    /\ Free(h)
    /\ Select(h) \/ Commit(h, stored) \/ CommitNothing(h) \/ TimeOut(h)
    /\ UNCHANGED <<minted, lapsed, call>>

Restart(h) ==
    /\ h \in Server
    /\ Reconnect(h)
    /\ Goto(h, Idle)
    /\ UNCHANGED <<minted, lapsed>>

\* Time passes a session's expires_at.
Lapses(t) ==
    /\ lapsed' = lapsed \cup {t}
    /\ UNCHANGED <<dbVars, minted, call>>

Next ==
    \/ \E h \in Server :
         \/ LoginReads(h) \/ Rehashes(h) \/ Purges(h) \/ Opens(h)
         \/ \E t \in Token \cap minted : LogsOut(h, t) \/ Probes(h, t)
         \/ \E t \in {None} \cup (Token \cap minted) : Counts(h, t)
         \/ Validates(h) \/ Drops(h) \/ Serves(h)
         \/ WriteTimesOut(h) \/ OtherAccess(h) \/ Restart(h)
    \/ \E name \in Name :
         \/ \E password \in Password : UserAdd(name, password) \/ UserPasswd(name, password)
         \/ UserRemove(name)
    \/ \E t \in Token \cap minted : Lapses(t)

Spec == Init /\ [][Next]_vars
=============================================================================
