------------------------------ MODULE Accounts ------------------------------
(***************************************************************************)
(* The table users (routes/signup.rs, routes/login.rs, routes/password.rs) *)
(* and the sessions of pavex_session, which is not part of the repository, *)
(* as the routes use them.                                                 *)
(*                                                                         *)
(* A password is the client that chose it: a hash verifies for that client *)
(* and no other.  Of a session record only the key user_id is kept, which  *)
(* is all the code ever writes; a record without it and no record at all   *)
(* read the same.  Rows of users are never changed or deleted.             *)
(***************************************************************************)
EXTENDS Naturals, FiniteSets

CONSTANTS Clients, Emails, UserIds, SessionIds, NoUser, NoSession, NoClient

ASSUME NamesAssumption ==
    /\ NoUser \notin UserIds
    /\ NoSession \notin SessionIds
    /\ NoClient \notin Clients

VARIABLES
    users,     \* the table users
    sessions,  \* user_id of each session record, NoUser where there is none
    cookie,    \* the session cookie that each client holds
    holder     \* the client that a session id was issued for (history)

accountVars == <<users, sessions, cookie, holder>>

User == [id : UserIds, email : Emails, secret : Clients]

-----------------------------------------------------------------------------
Taken(email) == \E u \in users : u.email = email

\* Mutant: the column email is not UNIQUE.
InsertAnyUser(id, email, client) ==
    /\ \A u \in users : u.id # id
    /\ users' = users \cup {[id |-> id, email |-> email, secret |-> client]}

\* insert_user_record, where the constraint allows it; the id is a new UUID.
InsertUser(id, email, client) ==
    /\ ~Taken(email)
    /\ \A u \in users : u.id # id
    /\ users' = users \cup {[id |-> id, email |-> email, secret |-> client]}

\* Mutant: the columns of the SELECT are mixed up.
StoredEmail(email) ==
    IF Taken(email) THEN (CHOOSE u \in users : u.email = email).email ELSE NoUser

\* get_stored_credentials: the id of the row, if there is one.
StoredCredentials(email) ==
    IF Taken(email) THEN (CHOOSE u \in users : u.email = email).id ELSE NoUser

\* Mutant: an unknown email is refused, a wrong password is not.
VerifiesKnown(id, client) == id # NoUser

\* verify_password_hash and the test that follows it: whatever the dummy hash
\* verifies, no row means no user.
Verifies(id, client) == \E u \in users : u.id = id /\ u.secret = client

-----------------------------------------------------------------------------
\* A session id that no cookie has carried yet.
Issue(s, client) == holder[s] = NoClient /\ holder' = [holder EXCEPT ![s] = client]

\* The user_id that a request with this session id reads.
UserIn(s) == IF s = NoSession THEN NoUser ELSE sessions[s]

Enter(s, id) == sessions' = [sessions EXCEPT ![s] = id]

Forget(s) == sessions' = [t \in SessionIds |-> IF t = s THEN NoUser ELSE sessions[t]]

AccountsInit ==
    /\ users = {}
    /\ sessions = [s \in SessionIds |-> NoUser]
    /\ cookie = [c \in Clients |-> NoSession]
    /\ holder = [s \in SessionIds |-> NoClient]

AccountsTypeOK ==
    /\ users \subseteq User
    /\ sessions \in [SessionIds -> UserIds \cup {NoUser}]
    /\ cookie \in [Clients -> SessionIds \cup {NoSession}]
    /\ holder \in [SessionIds -> Clients \cup {NoClient}]
=============================================================================
