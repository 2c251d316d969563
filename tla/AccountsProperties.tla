------------------------- MODULE AccountsProperties -------------------------
(***************************************************************************)
(* What accounts that change under a running server must never do.         *)
(***************************************************************************)
EXTENDS Accounts

Ids == {u.id : u \in stored.users}

\* No session belongs to a user who is not there, however a login and a removal
\* interleave: the foreign key refuses the one that comes too late (delete_user:
\* "the foreign key cascades their open sessions away").
SessionsBelong == \A s \in stored.sessions : s.user \in Ids

\* Let through, with this cookie or with none.
Admits(h, t) ==
    call[h].at # "serving" /\ call'[h] = [at |-> "serving", token |-> t]

\* Let through on a session that is one, or without a cookie while nobody has to
\* have one.
Rightly(h) ==
    /\ Admits(h, None) => stored.users = {}
    /\ \A t \in Token : Admits(h, t) =>
         t \notin lapsed /\ \E s \in stored.sessions : s.token = t /\ s.user \in Ids

\* What revokes takes effect at once: at the moment a request is let through, its
\* cookie is a session of the database that has not expired or been logged out, of
\* a user who has not been removed; and a request without a cookie is let through
\* only while there are no users (auth.py: "deleting the row is a real logout";
\* require_auth: "takes effect immediately").  The exception is a server whose
\* connection is still in a transaction that a failed write left open, and that
\* somebody has written past.
RevocationReaches == [][\A h \in Server : h \notin behind => Rightly(h)]_vars

\* The same of every server at every moment.
RevocationIsImmediate == [][\A h \in Server : Rightly(h)]_vars
=============================================================================
