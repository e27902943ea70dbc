--------------------------- MODULE RequestPipeline ---------------------------
(***************************************************************************)
(* A request from the router to its response, as the route modules of      *)
(* server_sdk do it, with the handlers of signup.rs, login.rs and          *)
(* logout.rs, on a server that starts, stops and crashes.                  *)
(*                                                                         *)
(* A request takes one statement or extractor at a time.  Its session is   *)
(* loaded when first asked for and stored by finalize_session, after the   *)
(* handler has answered; the cookie is set after that.  Of the other       *)
(* handlers, whose effects UserRoutes and Decisions model, only the        *)
(* outcome is kept.  MaxRequests bounds the requests of a behaviour.       *)
(*                                                                         *)
(* Abstracted: logging, error bodies, the theme, and everything of a       *)
(* request but its cookie, path, method and email.                         *)
(***************************************************************************)
EXTENDS Accounts, Lifecycle, Router

CONSTANTS
    Requests,     \* requests that may be in flight at the same time
    MaxRequests,
    Targets,      \* what the n-th request may ask for: a path and a method
    NoEmail

ASSUME PipelineAssumption ==
    /\ MaxRequests \in Nat
    /\ Targets \in [1 .. MaxRequests -> SUBSET [path : Seq(STRING), method : Methods]]

VARIABLES
    req,     \* what each request does
    served,  \* requests so far
    ended    \* sessions that were invalidated or have expired (history)

pipelineVars == <<accountVars, lifecycleVars, req, served, ended>>

Statuses == {"none", "ok", "see_other", "unauthorized", "conflict", "refused", "error"}

\* view: what the handler has done to the session.  user: the checked-in user,
\* or the one whose session this becomes.  jar: the cookie to be set, at most
\* one; NoSession removes it.
Request == [pc     : {"idle", "extract", "verify", "enter", "finalize", "inject"},
            client : Clients \cup {NoClient},
            route  : RouteIds,
            target : [path : Seq(STRING), method : Methods],
            email  : Emails \cup {NoEmail},
            step   : Nat,
            user   : UserIds \cup {NoUser},
            sid    : SessionIds \cup {NoSession},
            view   : {"kept", "set", "left"},
            jar    : SUBSET (SessionIds \cup {NoSession}),
            status : Statuses]

NoRequest == [pc |-> "idle", client |-> NoClient, route |-> 0,
              target |-> [path |-> <<>>, method |-> "GET"], email |-> NoEmail,
              step |-> 1, user |-> NoUser, sid |-> NoSession, view |-> "kept",
              jar |-> {}, status |-> "none"]

InFlight == {r \in Requests : req[r].pc # "idle"}

Needs(r) == Route[req[r].route].needs
Calls(r) == Route[req[r].route].calls

\* The handler's stage returns; what follows is finalize_session.
Return(r, status) ==
    req' = [req EXCEPT ![r].pc = "finalize", ![r].status = status]

-----------------------------------------------------------------------------
\* Router::route and wrapping_1.  Where the cookies cannot be read, wrapping_1
\* answers at once and nothing changes.
Accept(r, c, t, email) ==
    LET k == Dispatch(t.path, t.method) IN
    /\ phase = "serving"
    /\ req[r].pc = "idle"
    /\ served < MaxRequests /\ t \in Targets[served + 1]
    /\ served' = served + 1
    /\ (email = NoEmail) = (Route[k].calls \notin {"signin", "signup"})
    /\ req' = [req EXCEPT ![r] = [NoRequest EXCEPT !.pc = "extract", !.client = c,
                                     !.route = k, !.target = t, !.email = email,
                                     !.sid = cookie[c]]]
    /\ UNCHANGED <<accountVars, lifecycleVars, ended>>

Extracting(r, what) ==
    /\ req[r].pc = "extract"
    /\ req[r].step <= Len(Needs(r))
    /\ Needs(r)[req[r].step] = what

Extracted(r) == req' = [req EXCEPT ![r].step = @ + 1]

\* CheckedInUser::extract.  A store that fails looks like a session of nobody.
CheckIn(r) ==
    /\ Extracting(r, "CheckedInUser")
    /\ \/ /\ UserIn(req[r].sid) # NoUser
          /\ req' = [req EXCEPT ![r].step = @ + 1, ![r].user = UserIn(req[r].sid)]
       \/ Return(r, "see_other")
    /\ UNCHANGED <<accountVars, lifecycleVars, served, ended>>

\* Theme::extract always gives a theme.
ExtractTheme(r) ==
    /\ Extracting(r, "Theme")
    /\ Extracted(r)
    /\ UNCHANGED <<accountVars, lifecycleVars, served, ended>>

ExtractInput(r) ==
    /\ Extracting(r, "PathParams") \/ Extracting(r, "Body")
    /\ Extracted(r) \/ Return(r, "refused")
    /\ UNCHANGED <<accountVars, lifecycleVars, served, ended>>

\* Everything is extracted: the handler of the app crate is called.
Called(r) == req[r].pc = "extract" /\ req[r].step > Len(Needs(r))
Handling(r, what) == Called(r) /\ Calls(r) = what

-----------------------------------------------------------------------------
\* signin: the row is looked up, its hash verified, and the session changed.
SigninLookup(r) ==
    /\ Handling(r, "signin")
    /\ \/ req' = [req EXCEPT ![r].pc = "verify",
                             ![r].user = StoredCredentials(req[r].email)]
       \/ Return(r, "error")
    /\ UNCHANGED <<accountVars, lifecycleVars, served, ended>>

SigninVerify(r) ==
    /\ req[r].pc = "verify"
    /\ \/ /\ Verifies(req[r].user, req[r].client)
          /\ req' = [req EXCEPT ![r].pc = "enter"]
       \/ /\ ~Verifies(req[r].user, req[r].client)
          /\ Return(r, "unauthorized")
       \/ Return(r, "error")   \* the blocking task did not end
    /\ UNCHANGED <<accountVars, lifecycleVars, served, ended>>

\* The INSERT of signup; an error may hide that the row was inserted.
SignupInsert(r) ==
    /\ Handling(r, "signup")
    /\ \/ \E id \in UserIds :
            /\ InsertUser(id, req[r].email, req[r].client)
            /\ \/ req' = [req EXCEPT ![r].pc = "enter", ![r].user = id]
               \/ Return(r, "error")
       \/ /\ Taken(req[r].email)
          /\ Return(r, "conflict")
          /\ UNCHANGED users
       \/ /\ Return(r, "error")
          /\ UNCHANGED users
    /\ UNCHANGED <<sessions, cookie, holder, lifecycleVars, served, ended>>

\* session.insert("user_id", ..) of both; it loads the session, which may fail.
InsertUserId(r) ==
    /\ req[r].pc = "enter"
    /\ \/ req' = [req EXCEPT ![r].pc = "finalize", ![r].view = "set", ![r].status = "ok"]
       \/ Return(r, "error")
    /\ UNCHANGED <<accountVars, lifecycleVars, served, ended>>

Logout(r) ==
    /\ Handling(r, "logout")
    /\ req' = [req EXCEPT ![r].pc = "finalize", ![r].view = "left",
                          ![r].status = "see_other"]
    /\ UNCHANGED <<accountVars, lifecycleVars, served, ended>>

\* default_fallback: no method is allowed, or not this one.
Fallback(r) ==
    /\ Handling(r, "default_fallback")
    /\ Return(r, "refused")
    /\ UNCHANGED <<accountVars, lifecycleVars, served, ended>>

OtherHandler(r) ==
    /\ Called(r)
    /\ Calls(r) \notin {"signin", "signup", "logout", "default_fallback"}
    /\ Return(r, "ok") \/ Return(r, "refused")
    /\ UNCHANGED <<accountVars, lifecycleVars, served, ended>>

-----------------------------------------------------------------------------
(* finalize_session.  A failure replaces the response by an error.         *)

Finalized(r, status, jar) ==
    req' = [req EXCEPT ![r].pc = "inject", ![r].status = status, ![r].jar = jar]

\* The modules that did not read the cookies before do it now.
LateBadCookies(r) ==
    /\ req[r].pc = "finalize" /\ ~Route[req[r].route].wraps
    /\ Finalized(r, "refused", {})
    /\ UNCHANGED <<accountVars, lifecycleVars, served, ended>>

\* A visitor without a session may be given an empty one.
FinalizeKept(r) ==
    /\ req[r].pc = "finalize" /\ req[r].view = "kept"
    /\ \/ /\ \E status \in {req[r].status, "error"} : Finalized(r, status, {})
          /\ UNCHANGED holder
       \/ /\ req[r].sid = NoSession
          /\ \E s \in SessionIds : /\ Issue(s, req[r].client)
                                   /\ Finalized(r, req[r].status, {s})
    /\ UNCHANGED <<users, sessions, cookie, lifecycleVars, served, ended>>

\* The id of the cookie or, where there is none or its record is gone, possibly
\* a new one.
StoredUnder(r, s) ==
    \/ s = req[r].sid /\ UNCHANGED holder
    \/ Issue(s, req[r].client)

\* Mutant: the error of finalize_session is dropped, and the handler's answer sent.
FinalizeSetSilently(r) ==
    /\ req[r].pc = "finalize" /\ req[r].view = "set"
    /\ \/ \E s \in SessionIds :
            /\ StoredUnder(r, s)
            /\ Enter(s, req[r].user)
            /\ Finalized(r, req[r].status, {s})
       \/ /\ Finalized(r, req[r].status, {req[r].sid})
          /\ UNCHANGED <<sessions, holder>>
    /\ UNCHANGED <<users, cookie, lifecycleVars, served, ended>>

\* A call that fails may have stored the session.
FinalizeSet(r) ==
    /\ req[r].pc = "finalize" /\ req[r].view = "set"
    /\ \/ \E s \in SessionIds :
            /\ StoredUnder(r, s)
            /\ Enter(s, req[r].user)
            /\ Finalized(r, req[r].status, {s}) \/ Finalized(r, "error", {})
       \/ /\ Finalized(r, "error", {})
          /\ UNCHANGED <<sessions, holder>>
    /\ UNCHANGED <<users, cookie, lifecycleVars, served, ended>>

FinalizeLeft(r) ==
    /\ req[r].pc = "finalize" /\ req[r].view = "left"
    /\ \/ /\ Forget(req[r].sid)
          /\ ended' = ended \cup ({req[r].sid} \ {NoSession})
          /\ Finalized(r, req[r].status, {NoSession}) \/ Finalized(r, "error", {})
       \/ /\ Finalized(r, "error", {})
          /\ UNCHANGED <<sessions, ended>>
    /\ UNCHANGED <<users, cookie, holder, lifecycleVars, served>>

\* inject_response_cookies; the response may be lost, or replaced by an error
\* that carries no cookie.
Inject(r) ==
    /\ req[r].pc = "inject"
    /\ \/ cookie' = cookie
       \/ \E s \in req[r].jar : cookie' = [cookie EXCEPT ![req[r].client] = s]
    /\ req' = [req EXCEPT ![r] = NoRequest]
    /\ UNCHANGED <<users, sessions, holder, lifecycleVars, served, ended>>

\* The client goes away, and the request is dropped at its next await.
Disconnect(r) ==
    /\ req[r].pc # "idle"
    /\ req' = [req EXCEPT ![r] = NoRequest]
    /\ UNCHANGED <<accountVars, lifecycleVars, served, ended>>

-----------------------------------------------------------------------------
\* The time to live of a session ends.
Expire(s) ==
    /\ sessions[s] # NoUser
    /\ Forget(s)
    /\ ended' = ended \cup {s}
    /\ UNCHANGED <<users, cookie, holder, lifecycleVars, req, served>>

\* The process ends, and with it the requests that are still in flight.
ServerExits ==
    /\ Exit
    /\ req' = [r \in Requests |-> NoRequest]
    /\ UNCHANGED <<accountVars, served, ended>>

ServerStarts ==
    /\ StartUp
    /\ UNCHANGED <<accountVars, req, served, ended>>

Init ==
    /\ AccountsInit
    /\ LifecycleInit
    /\ req = [r \in Requests |-> NoRequest]
    /\ served = 0
    /\ ended = {}

RequestStep(r) ==
    \/ CheckIn(r)
    \/ ExtractTheme(r)
    \/ ExtractInput(r)
    \/ SigninLookup(r)
    \/ SigninVerify(r)
    \/ SignupInsert(r)
    \/ InsertUserId(r)
    \/ Logout(r)
    \/ Fallback(r)
    \/ OtherHandler(r)
    \/ LateBadCookies(r)
    \/ FinalizeKept(r)
    \/ FinalizeSet(r)
    \/ FinalizeLeft(r)
    \/ Inject(r)
    \/ Disconnect(r)

Next ==
    \/ ServerStarts
    \/ ServerExits
    \/ \E s \in SessionIds : Expire(s)
    \/ \E r \in Requests :
         \/ \E c \in Clients, e \in Emails \cup {NoEmail},
               t \in UNION {Targets[n] : n \in 1 .. MaxRequests} : Accept(r, c, t, e)
         \/ RequestStep(r)

Spec == Init /\ [][Next]_pipelineVars
-----------------------------------------------------------------------------
(* What the pipeline must guarantee.                                       *)

\* Every variable keeps its type.
PipelineTypeOK ==
    /\ AccountsTypeOK
    /\ LifecycleTypeOK
    /\ req \in [Requests -> Request]
    /\ served \in 0 .. MaxRequests
    /\ ended \subseteq SessionIds

\* signup.rs, login.rs: whatever requests race, fail halfway or are dropped, a
\* session is only ever that of a user whose password its holder has chosen,
\* and a request acts for a user that exists (processes.created_by refers to it).
SignedInAsOwn ==
    /\ \A s \in SessionIds : sessions[s] # NoUser =>
         \E u \in users : u.id = sessions[s] /\ u.secret = holder[s]
    /\ \A r \in Requests : req[r].user # NoUser => \E u \in users : u.id = req[r].user

\* The answers of signup and signin are true when they are sent: after "ok" the
\* session is stored unless it has ended since, and a signup that is told "ok"
\* has the only row of its email; "conflict" means that the email has a row.
AnswersTrue ==
    \A r \in Requests : req[r].pc = "inject" /\ Calls(r) \in {"signin", "signup"} =>
        /\ req[r].status = "ok" =>
             /\ \E s \in req[r].jar : s \in ended \/ UserIn(s) # NoUser
             /\ {u \in users : u.email = req[r].email} =
                  {[id |-> req[r].user, email |-> req[r].email, secret |-> req[r].client]}
        /\ req[r].status = "conflict" => Taken(req[r].email)

\* The handlers that take no CheckedInUser in the app crate.
Public == {"default_fallback", "signin_form", "signin", "logout", "signup_form",
           "signup", "output_css"}

\* auth.rs, "Not logged in": without a checked-in user nothing of a request to
\* the other handlers is looked at or done; it is sent to /login, or fails.
NothingBeforeCheckIn ==
    \A r \in InFlight : req[r].user = NoUser /\ Calls(r) \notin Public =>
        \/ req[r].pc = "extract" /\ req[r].step = 1
        \/ req[r].pc = "finalize" /\ req[r].status = "see_other"
        \/ req[r].pc = "inject" /\ req[r].status \in {"see_other", "error"}

\* The generated router: a path has one row, although literal segments and
\* {id} overlap, and "method not allowed" names exactly the methods that some
\* module serves at this path.
DispatchExact ==
    \A r \in Requests : LET path == req[r].target.path IN
        req[r].pc = "extract" /\ req[r].step = 1 =>
        /\ \A i, k \in Matched(path) : i = k
        /\ Allowed(path) = {method \in Methods : Dispatch(path, method) # 0}

\* _main: however often it was started, killed or failed before, no request is
\* let in and no timer loop runs before both schemas are complete.
TablesReady ==
    loop \/ InFlight # {} \/ phase = "serving" => migrated = {"app", "session"}

\* All of it is what Membership promises.
M == INSTANCE Membership
KeepsMembership == M!Spec
=============================================================================
