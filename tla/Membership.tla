----------------------------- MODULE Membership -----------------------------
(***************************************************************************)
(* What the account routes promise, whatever the requests in flight do:    *)
(* someone becomes a member under an email that is free; a session is that *)
(* of nobody until its holder enters as a member whose password the holder *)
(* chose; sessions end; nothing else happens to members and sessions.      *)
(***************************************************************************)
CONSTANTS Clients, Emails, UserIds, SessionIds, NoUser, NoClient

VARIABLES users, sessions, holder

memberVars == <<users, sessions, holder>>

Init ==
    /\ users = {}
    /\ sessions = [s \in SessionIds |-> NoUser]
    /\ holder = [s \in SessionIds |-> NoClient]

Join(id, email, c) ==
    /\ \A u \in users : u.id # id /\ u.email # email
    /\ users' = users \cup {[id |-> id, email |-> email, secret |-> c]}
    /\ UNCHANGED <<sessions, holder>>

\* A session id is handed out once.
Open(s, c) ==
    /\ holder[s] = NoClient
    /\ holder' = [holder EXCEPT ![s] = c]
    /\ UNCHANGED <<users, sessions>>

Enter(s, c) ==
    /\ holder[s] \in {NoClient, c}
    /\ holder' = [holder EXCEPT ![s] = c]
    /\ \E u \in users : u.secret = c /\ sessions' = [sessions EXCEPT ![s] = u.id]
    /\ UNCHANGED users

Leave(s) ==
    /\ sessions' = [sessions EXCEPT ![s] = NoUser]
    /\ UNCHANGED <<users, holder>>

Next ==
    \/ \E id \in UserIds, e \in Emails, c \in Clients : Join(id, e, c)
    \/ \E s \in SessionIds, c \in Clients : Open(s, c) \/ Enter(s, c)
    \/ \E s \in SessionIds : Leave(s)

Spec == Init /\ [][Next]_memberVars
=============================================================================
