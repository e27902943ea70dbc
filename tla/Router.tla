------------------------------- MODULE Router -------------------------------
(***************************************************************************)
(* The generated router and the twenty route modules of server_sdk         *)
(* (server_sdk/src/lib.rs), as data: which path and method lead to which   *)
(* module, and what each module's handler extracts, in its order, before   *)
(* it calls the function of the app crate.                                 *)
(*                                                                         *)
(* Every module has the same stages around its handler: wrapping_0 (does   *)
(* nothing), wrapping_1 (cookies, session, root span), the handler, then   *)
(* response_logger, finalize_session and inject_response_cookies.  They    *)
(* are the actions of RequestPipeline; a record here holds what differs.   *)
(***************************************************************************)
EXTENDS Naturals, Sequences

\* A segment of a pattern that matches any segment.
Id == "{id}"

Methods == {"GET", "POST", "PUT"}   \* PUT stands for those no route serves

\* One row per path of the router: the module each method leads to, 0 for
\* none, and the AllowedMethods that the fallback is given for the others.
Table == <<
  [path |-> <<>>,                                    GET |-> 1,  POST |-> 0,  allow |-> {"GET"}],
  [path |-> <<"login">>,                             GET |-> 2,  POST |-> 3,  allow |-> {"GET", "POST"}],
  [path |-> <<"logout">>,                            GET |-> 0,  POST |-> 4,  allow |-> {"POST"}],
  [path |-> <<"processes">>,                         GET |-> 11, POST |-> 0,  allow |-> {"GET"}],
  [path |-> <<"processes", "editor">>,               GET |-> 8,  POST |-> 0,  allow |-> {"GET"}],
  [path |-> <<"processes", "instances">>,            GET |-> 10, POST |-> 0,  allow |-> {"GET"}],
  [path |-> <<"processes", "instances", Id>>,        GET |-> 7,  POST |-> 0,  allow |-> {"GET"}],
  [path |-> <<"processes", "instances", Id, "advance">>, GET |-> 0, POST |-> 5,  allow |-> {"POST"}],
  [path |-> <<"processes", "instances", Id, "cancel">>,  GET |-> 0, POST |-> 6,  allow |-> {"POST"}],
  [path |-> <<"processes", "instances", Id, "delete">>,  GET |-> 0, POST |-> 13, allow |-> {"POST"}],
  [path |-> <<"processes", "upload">>,               GET |-> 15, POST |-> 16, allow |-> {"GET", "POST"}],
  [path |-> <<"processes", Id, "delete">>,           GET |-> 0,  POST |-> 12, allow |-> {"POST"}],
  [path |-> <<"processes", Id, "export">>,           GET |-> 9,  POST |-> 0,  allow |-> {"GET"}],
  [path |-> <<"processes", Id, "start">>,            GET |-> 0,  POST |-> 14, allow |-> {"POST"}],
  [path |-> <<"signup">>,                            GET |-> 17, POST |-> 18, allow |-> {"GET", "POST"}],
  [path |-> <<"static", "output.css">>,              GET |-> 19, POST |-> 0,  allow |-> {"GET"}] >>

Rows == 1 .. 16

Matches(pattern, path) ==
    /\ Len(pattern) = Len(path)
    /\ \A j \in 1 .. Len(pattern) : pattern[j] \in {Id, path[j]}

\* matchit prefers a literal segment, from the left.
Prefers(p, q) ==
    \E j \in 1 .. Len(p) : /\ p[j] # Id /\ q[j] = Id
                           /\ \A k \in 1 .. j - 1 : p[k] = q[k]

Matched(path) ==
    {i \in Rows : /\ Matches(Table[i].path, path)
                  /\ ~\E k \in Rows : /\ Matches(Table[k].path, path)
                                      /\ Prefers(Table[k].path, Table[i].path)}

\* Mutant: a path that is served by POST is served by every other method.
DispatchRest(path, method) ==
    IF Matched(path) = {} THEN 0
    ELSE LET row == Table[CHOOSE i \in Matched(path) : TRUE] IN
         IF method = "GET" THEN row.GET ELSE row.POST

\* Router::route: the module that answers, and what it is told is allowed.
Dispatch(path, method) ==
    IF method = "PUT" \/ Matched(path) = {} THEN 0
    ELSE LET row == Table[CHOOSE i \in Matched(path) : TRUE] IN
         IF method = "GET" THEN row.GET ELSE row.POST

Allowed(path) == UNION {Table[i].allow : i \in Matched(path)}

-----------------------------------------------------------------------------
\* Body is BufferedBody and then UrlEncodedBody.
Extractors == {"CheckedInUser", "Theme", "PathParams", "Body"}

Form == <<"Body">>
UserPage == <<"CheckedInUser", "Theme">>
UserAction == <<"CheckedInUser", "PathParams">>
UserForm == <<"CheckedInUser", "Body">>

\* wraps: cookies and session are extracted before the handler (wrapping_1)
\* and not only for finalize_session.
route_0  == [calls |-> "default_fallback",    wraps |-> FALSE, needs |-> <<>>]
route_1  == [calls |-> "home_page",           wraps |-> TRUE,  needs |-> UserPage]
route_2  == [calls |-> "signin_form",         wraps |-> TRUE,  needs |-> <<"Theme">>]
route_3  == [calls |-> "signin",              wraps |-> TRUE,  needs |-> Form]
route_4  == [calls |-> "logout",              wraps |-> TRUE,  needs |-> <<>>]
route_5  == [calls |-> "advance_instance",    wraps |-> TRUE,  needs |-> <<"CheckedInUser", "PathParams", "Body">>]
route_6  == [calls |-> "cancel_instance",     wraps |-> TRUE,  needs |-> UserAction]
route_7  == [calls |-> "instance_detail",     wraps |-> TRUE,  needs |-> <<"CheckedInUser", "PathParams", "Theme">>]
route_8  == [calls |-> "process_editor",      wraps |-> TRUE,  needs |-> UserPage]
route_9  == [calls |-> "export_process",      wraps |-> TRUE,  needs |-> UserAction]
route_10 == [calls |-> "list_instances",      wraps |-> TRUE,  needs |-> UserPage]
route_11 == [calls |-> "list_processes",      wraps |-> TRUE,  needs |-> UserPage]
route_12 == [calls |-> "delete_process",      wraps |-> TRUE,  needs |-> UserAction]
route_13 == [calls |-> "delete_instance",     wraps |-> TRUE,  needs |-> UserAction]
route_14 == [calls |-> "start_process",       wraps |-> TRUE,  needs |-> UserAction]
route_15 == [calls |-> "process_upload_form", wraps |-> TRUE,  needs |-> UserPage]
\* Mutant: the body of an upload is read before the user is looked for.
route_16_late == [calls |-> "process_upload", wraps |-> TRUE,  needs |-> <<"Body", "CheckedInUser">>]

route_16 == [calls |-> "process_upload",      wraps |-> TRUE,  needs |-> UserForm]
route_17 == [calls |-> "signup_form",         wraps |-> TRUE,  needs |-> <<"Theme">>]
route_18 == [calls |-> "signup",              wraps |-> TRUE,  needs |-> Form]
route_19 == [calls |-> "output_css",          wraps |-> FALSE, needs |-> <<>>]

RouteIds == 0 .. 19

Route == [k \in RouteIds |->
    CASE k = 0  -> route_0  [] k = 1  -> route_1  [] k = 2  -> route_2  [] k = 3  -> route_3
      [] k = 4  -> route_4  [] k = 5  -> route_5  [] k = 6  -> route_6  [] k = 7  -> route_7
      [] k = 8  -> route_8  [] k = 9  -> route_9  [] k = 10 -> route_10 [] k = 11 -> route_11
      [] k = 12 -> route_12 [] k = 13 -> route_13 [] k = 14 -> route_14 [] k = 15 -> route_15
      [] k = 16 -> route_16 [] k = 17 -> route_17 [] k = 18 -> route_18 [] k = 19 -> route_19]
=============================================================================
