-------------------------- MODULE MCRequestPipeline --------------------------
(***************************************************************************)
(* RequestPipeline for TLC.  The last request asks for anything: every     *)
(* path and method that a module serves, with some id, and two that none   *)
(* serves.  The ones before, with which it may run concurrently, ask for   *)
(* the account routes.                                                     *)
(***************************************************************************)
EXTENDS RequestPipeline, TLC

At(i) == [j \in 1 .. Len(Table[i].path) |->
            IF Table[i].path[j] = Id THEN "x" ELSE Table[i].path[j]]

\* What the modules serve, and some that none does.
Everything ==
    {t \in [path : {At(i) : i \in Rows}, method : {"GET", "POST"}] :
        Dispatch(t.path, t.method) # 0}
    \cup [path : {<<"processes", "instances", "delete">>, <<"processes", "x">>},
          method : {"POST"}]

Asked == [path : {<<"signup">>, <<"login">>, <<"logout">>}, method : {"POST"}]

Plan == [n \in 1 .. MaxRequests |-> IF n = MaxRequests THEN Everything ELSE Asked]

Symmetric == Permutations(Clients) \cup Permutations(Emails)
             \cup Permutations(UserIds) \cup Permutations(SessionIds)
             \cup Permutations(Requests)
=============================================================================
