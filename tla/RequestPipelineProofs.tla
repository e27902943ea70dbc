------------------------ MODULE RequestPipelineProofs ------------------------
(***************************************************************************)
(* Proofs about RequestPipeline, for any number of clients, emails, users, *)
(* sessions and requests, any requests, and any number of starts.          *)
(***************************************************************************)
EXTENDS RequestPipeline, TLAPS

-----------------------------------------------------------------------------
(* The router and the modules.                                             *)

\* What the proofs need of the table and the modules.
LEMMA TableModules == \A i \in Rows : Table[i].GET \in RouteIds /\ Table[i].POST \in RouteIds
<1> SUFFICES ASSUME NEW i \in Rows
             PROVE  Table[i].GET \in RouteIds /\ Table[i].POST \in RouteIds
    OBVIOUS
<1>1. CASE i \in 1 .. 4
    BY SMTT(30), <1>1 DEF Table, RouteIds
<1>2. CASE i \in 5 .. 8
    BY SMTT(30), <1>2 DEF Table, RouteIds
<1>3. CASE i \in 9 .. 12
    BY SMTT(30), <1>3 DEF Table, RouteIds
<1>4. CASE i \in 13 .. 16
    BY SMTT(30), <1>4 DEF Table, RouteIds
<1> QED BY <1>1, <1>2, <1>3, <1>4 DEF Rows

LEMMA Dispatched ==
    ASSUME NEW path, NEW method
    PROVE  Dispatch(path, method) \in RouteIds
<1>1. CASE method = "PUT" \/ Matched(path) = {}
    BY <1>1 DEF Dispatch, RouteIds
<1>2. CASE ~(method = "PUT" \/ Matched(path) = {})
    <2>1. (CHOOSE i \in Matched(path) : TRUE) \in Rows
        BY <1>2 DEF Matched
    <2> QED BY <2>1, <1>2, TableModules DEF Dispatch
<1> QED BY <1>1, <1>2

\* The rows by length: the segment in which those of a length differ.
LEMMA RowsOne ==
    /\ \A i \in {2, 3, 4, 15} : Len(Table[i].path) = 1 /\ Table[i].path[1] # Id
    /\ \A i, k \in {2, 3, 4, 15} : Table[i].path[1] = Table[k].path[1] => i = k
<1>1. /\ Len(Table[2].path) = 1 /\ Table[2].path[1] = "login"
      /\ Len(Table[3].path) = 1 /\ Table[3].path[1] = "logout"
      /\ Len(Table[4].path) = 1 /\ Table[4].path[1] = "processes"
      /\ Len(Table[15].path) = 1 /\ Table[15].path[1] = "signup"
    BY DEF Table
<1>2. \A i \in {2, 3, 4, 15} : Len(Table[i].path) = 1 /\ Table[i].path[1] # Id
    BY <1>1 DEF Id
<1>3. \A i, k \in {2, 3, 4, 15} : Table[i].path[1] = Table[k].path[1] => i = k
    BY <1>1
<1> QED BY <1>2, <1>3

LEMMA RowsTwo ==
    /\ \A i \in {5, 6, 11, 16} : Len(Table[i].path) = 2 /\ Table[i].path[2] # Id
    /\ \A i, k \in {5, 6, 11, 16} : Table[i].path[2] = Table[k].path[2] => i = k
<1>1. /\ Len(Table[5].path) = 2 /\ Table[5].path[2] = "editor"
      /\ Len(Table[6].path) = 2 /\ Table[6].path[2] = "instances"
      /\ Len(Table[11].path) = 2 /\ Table[11].path[2] = "upload"
      /\ Len(Table[16].path) = 2 /\ Table[16].path[2] = "output.css"
    BY DEF Table
<1>2. \A i \in {5, 6, 11, 16} : Len(Table[i].path) = 2 /\ Table[i].path[2] # Id
    BY <1>1 DEF Id
<1>3. \A i, k \in {5, 6, 11, 16} : Table[i].path[2] = Table[k].path[2] => i = k
    BY <1>1
<1> QED BY <1>2, <1>3

LEMMA RowsThree ==
    /\ \A i \in {12, 13, 14} : Len(Table[i].path) = 3 /\ Table[i].path[3] # Id
    /\ \A i, k \in {12, 13, 14} : Table[i].path[3] = Table[k].path[3] => i = k
<1>1. /\ Len(Table[12].path) = 3 /\ Table[12].path[3] = "delete"
      /\ Len(Table[13].path) = 3 /\ Table[13].path[3] = "export"
      /\ Len(Table[14].path) = 3 /\ Table[14].path[3] = "start"
    BY DEF Table
<1>2. \A i \in {12, 13, 14} : Len(Table[i].path) = 3 /\ Table[i].path[3] # Id
    BY <1>1 DEF Id
<1>3. \A i, k \in {12, 13, 14} : Table[i].path[3] = Table[k].path[3] => i = k
    BY <1>1
<1> QED BY <1>2, <1>3

LEMMA RowsFour ==
    /\ \A i \in {8, 9, 10} : Len(Table[i].path) = 4 /\ Table[i].path[4] # Id
    /\ \A i, k \in {8, 9, 10} : Table[i].path[4] = Table[k].path[4] => i = k
<1>1. /\ Len(Table[8].path) = 4 /\ Table[8].path[4] = "advance"
      /\ Len(Table[9].path) = 4 /\ Table[9].path[4] = "cancel"
      /\ Len(Table[10].path) = 4 /\ Table[10].path[4] = "delete"
    BY DEF Table
<1>2. \A i \in {8, 9, 10} : Len(Table[i].path) = 4 /\ Table[i].path[4] # Id
    BY <1>1 DEF Id
<1>3. \A i, k \in {8, 9, 10} : Table[i].path[4] = Table[k].path[4] => i = k
    BY <1>1
<1> QED BY <1>2, <1>3

LEMMA RowOne == Len(Table[1].path) = 0
BY DEF Table

\* Where literal segments and {id} overlap, row 7 is preferred.
LEMMA RowSeven ==
    /\ Len(Table[7].path) = 3
    /\ \A i \in {12, 13, 14} : Prefers(Table[7].path, Table[i].path)
<1>1. Len(Table[7].path) = 3 /\ Table[7].path[1] = "processes" /\ Table[7].path[2] = "instances"
    BY DEF Table
<1>2. \A i \in {12, 13, 14} : Table[i].path[1] = "processes" /\ Table[i].path[2] = Id
    BY DEF Table
<1>3. "instances" # Id
    BY DEF Id
<1>4. ASSUME NEW i \in {12, 13, 14}
      PROVE  Prefers(Table[7].path, Table[i].path)
    <2>1. /\ 2 \in 1 .. Len(Table[7].path)
          /\ Table[7].path[2] # Id /\ Table[i].path[2] = Id
          /\ \A j \in 1 .. 2 - 1 : Table[7].path[j] = Table[i].path[j]
        BY <1>1, <1>2, <1>3
    <2> QED BY <2>1 DEF Prefers
<1> QED BY <1>1, <1>4

\* The rows whose patterns have n segments.
RowOfLength(i, n) ==
    \/ i = 1 /\ n = 0
    \/ i \in {2, 3, 4, 15} /\ n = 1
    \/ i \in {5, 6, 11, 16} /\ n = 2
    \/ i \in {7, 12, 13, 14} /\ n = 3
    \/ i \in {8, 9, 10} /\ n = 4

LEMMA Depths == ASSUME NEW i \in Rows PROVE RowOfLength(i, Len(Table[i].path))
<1>1. /\ Len(Table[1].path) = 0
      /\ \A k \in {2, 3, 4, 15} : Len(Table[k].path) = 1
      /\ \A k \in {5, 6, 11, 16} : Len(Table[k].path) = 2
      /\ \A k \in {7, 12, 13, 14} : Len(Table[k].path) = 3
      /\ \A k \in {8, 9, 10} : Len(Table[k].path) = 4
    BY RowOne, RowsOne, RowsTwo, RowsThree, RowsFour, RowSeven
<1>2. \/ i = 1 \/ i \in {2, 3, 4, 15} \/ i \in {5, 6, 11, 16}
      \/ i \in {7, 12, 13, 14} \/ i \in {8, 9, 10}
    BY DEF Rows
<1> QED BY <1>1, <1>2 DEF RowOfLength

\* matchit leaves one row of those that match.
LEMMA OneRow ==
    ASSUME NEW path, NEW i \in Matched(path), NEW k \in Matched(path)
    PROVE  i = k
<1>1. /\ i \in Rows /\ Matches(Table[i].path, path)
      /\ k \in Rows /\ Matches(Table[k].path, path)
      /\ ~Prefers(Table[i].path, Table[k].path)
      /\ ~Prefers(Table[k].path, Table[i].path)
    BY DEF Matched
<1>2. Len(Table[i].path) = Len(path) /\ Len(Table[k].path) = Len(path)
    BY <1>1 DEF Matches
<1>3. \A j \in 1 .. Len(path) : Table[i].path[j] \in {Id, path[j]} /\ Table[k].path[j] \in {Id, path[j]}
    BY <1>1, <1>2 DEF Matches
<1>4. RowOfLength(k, Len(path))
    BY <1>1, <1>2, Depths
<1>5. CASE i = 1
    <2>1. Len(path) = 0
        BY <1>2, <1>5, RowOne
    <2> QED BY <1>4, <1>5, <2>1 DEF RowOfLength
<1>6. CASE i \in {2, 3, 4, 15}
    <2>1. Len(path) = 1
        BY <1>2, <1>6, RowsOne
    <2>2. k \in {2, 3, 4, 15}
        BY <1>4, <2>1 DEF RowOfLength
    <2>3. Table[i].path[1] = path[1] /\ Table[k].path[1] = path[1]
        BY <1>3, <1>6, <2>1, <2>2, RowsOne
    <2> QED BY <1>6, <2>2, <2>3, RowsOne
<1>7. CASE i \in {5, 6, 11, 16}
    <2>1. Len(path) = 2
        BY <1>2, <1>7, RowsTwo
    <2>2. k \in {5, 6, 11, 16}
        BY <1>4, <2>1 DEF RowOfLength
    <2>3. Table[i].path[2] = path[2] /\ Table[k].path[2] = path[2]
        BY <1>3, <1>7, <2>1, <2>2, RowsTwo
    <2> QED BY <1>7, <2>2, <2>3, RowsTwo
<1>8. CASE i \in {8, 9, 10}
    <2>1. Len(path) = 4
        BY <1>2, <1>8, RowsFour
    <2>2. k \in {8, 9, 10}
        BY <1>4, <2>1 DEF RowOfLength
    <2>3. Table[i].path[4] = path[4] /\ Table[k].path[4] = path[4]
        BY <1>3, <1>8, <2>1, <2>2, RowsFour
    <2> QED BY <1>8, <2>2, <2>3, RowsFour
<1>9. CASE i \in {7, 12, 13, 14}
    <2>1. Len(path) = 3
        BY <1>2, <1>9, RowsThree, RowSeven
    <2>2. k \in {7, 12, 13, 14}
        BY <1>4, <2>1 DEF RowOfLength
    <2>3. CASE i = 7 \/ k = 7
        BY <1>1, <1>9, <2>2, <2>3, RowSeven
    <2>4. CASE i # 7 /\ k # 7
        <3>1. Table[i].path[3] = path[3] /\ Table[k].path[3] = path[3]
            BY <1>3, <1>9, <2>1, <2>2, <2>4, RowsThree
        <3> QED BY <1>9, <2>2, <2>4, <3>1, RowsThree
    <2> QED BY <2>3, <2>4
<1> QED BY <1>1, <1>5, <1>6, <1>7, <1>8, <1>9 DEF Rows

\* What each row allows is what it serves.
LEMMA RowsAllow ==
    \A i \in Rows : Table[i].allow = {m \in {"GET", "POST"} :
                                        IF m = "GET" THEN Table[i].GET # 0 ELSE Table[i].POST # 0}
<1> SUFFICES ASSUME NEW i \in Rows
             PROVE  Table[i].allow = {m \in {"GET", "POST"} :
                                        IF m = "GET" THEN Table[i].GET # 0 ELSE Table[i].POST # 0}
    OBVIOUS
<1>1. CASE i \in 1 .. 4
    BY SMTT(30), <1>1 DEF Table
<1>2. CASE i \in 5 .. 8
    BY SMTT(30), <1>2 DEF Table
<1>3. CASE i \in 9 .. 12
    BY SMTT(30), <1>3 DEF Table
<1>4. CASE i \in 13 .. 16
    BY SMTT(30), <1>4 DEF Table
<1> QED BY <1>1, <1>2, <1>3, <1>4 DEF Rows

\* What is allowed at a path is what some module serves there.
LEMMA PathExact ==
    ASSUME NEW path
    PROVE  Allowed(path) = {method \in Methods : Dispatch(path, method) # 0}
<1>1. CASE Matched(path) = {}
    BY <1>1 DEF Allowed, Dispatch
<1>2. CASE Matched(path) # {}
    <2> DEFINE i == CHOOSE k \in Matched(path) : TRUE
    <2>1. i \in Matched(path) /\ i \in Rows
        BY <1>2 DEF Matched
    <2>2. Matched(path) = {i}
        BY <2>1, OneRow
    <2>3. \A method \in Methods : Dispatch(path, method) =
              IF method = "PUT" THEN 0 ELSE IF method = "GET" THEN Table[i].GET ELSE Table[i].POST
        BY <1>2 DEF Dispatch
    <2>4. Allowed(path) = Table[i].allow
        <3> HIDE DEF i
        <3> QED BY <2>2 DEF Allowed
    <2> HIDE DEF i
    <2> QED BY <2>1, <2>3, <2>4, RowsAllow DEF Methods
<1> QED BY <1>1, <1>2

Checked(route) ==
    /\ route.wraps
    /\ Len(route.needs) \in Nat \ {0}
    /\ route.needs[1] = "CheckedInUser"

\* Every module that is not public checks its user first; those that read no
\* cookies before the handler leave the session alone.
LEMMA RoutesChecked ==
    ASSUME NEW k \in RouteIds
    PROVE  /\ Route[k].calls \in Public \/ Checked(Route[k])
           /\ Route[k].wraps \/ Route[k].calls \in Public \ {"signin", "signup"}
<1>1. CASE k \in {0, 2, 3, 4, 17, 18, 19}
    <2>1. Route[k] \in {route_0, route_2, route_3, route_4, route_17, route_18, route_19}
        BY <1>1 DEF Route, RouteIds
    <2>2. \A m \in {route_2, route_3, route_4, route_17, route_18} : m.calls \in Public /\ m.wraps
        BY DEF Public, route_2, route_3, route_4, route_17, route_18
    <2>3. \A m \in {route_0, route_19} : m.calls \in Public \ {"signin", "signup"}
        BY DEF Public, route_0, route_19
    <2> QED BY <2>1, <2>2, <2>3
<1>2. CASE k \in {1, 5, 6, 7, 8, 9, 10, 11, 12, 13, 14, 15, 16}
    <2>1. Route[k] \in {route_1, route_5, route_6, route_7, route_8, route_9, route_10,
                        route_11, route_12, route_13, route_14, route_15, route_16}
        BY <1>2 DEF Route, RouteIds
    <2>2. /\ Checked(route_1) /\ Checked(route_5) /\ Checked(route_6) /\ Checked(route_7)
          /\ Checked(route_8) /\ Checked(route_9) /\ Checked(route_10) /\ Checked(route_11)
          /\ Checked(route_12) /\ Checked(route_13) /\ Checked(route_14) /\ Checked(route_15)
          /\ Checked(route_16)
        BY DEF Checked, UserPage, UserAction, UserForm, route_1, route_5, route_6, route_7,
               route_8, route_9, route_10, route_11, route_12, route_13, route_14, route_15, route_16
    <2>3. Checked(Route[k])
        BY <2>1, <2>2
    <2> QED BY <2>3 DEF Checked
<1> QED BY <1>1, <1>2 DEF RouteIds
-----------------------------------------------------------------------------
(***************************************************************************)
(* The inductive invariant.                                                *)
(***************************************************************************)

\* insert_user_record: the primary key and the UNIQUE constraint.
UsersUnique == \A u, v \in users : u.id = v.id \/ u.email = v.email => u = v

\* A session is that of a user whose password its holder has chosen.
SessionOwned(s) ==
    sessions[s] # NoUser => \E u \in users : u.id = sessions[s] /\ u.secret = holder[s]

\* A session id is known to the client that it was issued for.
Held(s, c) == s # NoSession => holder[s] = c

CookiesHeld == \A c \in Clients : Held(cookie[c], c)

HasRow(q) == [id |-> q.user, email |-> q.email, secret |-> q.client] \in users

\* What is behind the session and the user of a request.
Grounded(q) ==
    /\ IF q.pc = "idle" THEN q = NoRequest ELSE q.client \in Clients
    /\ Held(q.sid, q.client)
    /\ \A s \in q.jar : Held(s, q.client)
    /\ q.user # NoUser => \E u \in users : u.id = q.user
    /\ q.pc = "verify" /\ q.user # NoUser => \E u \in users : u.id = q.user /\ u.email = q.email
    /\ q.pc = "enter" \/ q.view = "set" => HasRow(q)

SetsSession(q) == Route[q.route].calls \in {"signin", "signup"}

\* How far a request is, and what it has done to its session.
Ordered(q) ==
    /\ SetsSession(q) => q.email \in Emails
    /\ q.pc \in {"verify", "enter"} => SetsSession(q)
    /\ q.pc \in {"idle", "extract", "verify", "enter"} => q.view = "kept" /\ q.status = "none"
    /\ q.view = "left" => ~SetsSession(q)
    /\ q.view = "set" => SetsSession(q) /\ q.status \in {"ok", "error"}
    /\ SetsSession(q) /\ q.status = "ok" => q.view = "set"

\* What its answer says.
Answered(q) ==
    /\ q.status = "conflict" => Taken(q.email)
    /\ q.pc = "inject" /\ q.view = "set" /\ q.status = "ok" =>
         \E s \in q.jar : s \in ended \/ UserIn(s) # NoUser

\* A request to a module that is not public stops where its user is not known.
CheckedFirst(q) ==
    q.pc # "idle" /\ q.user = NoUser /\ Route[q.route].calls \notin Public =>
        \/ q.pc = "extract" /\ q.step = 1
        \/ q.pc = "finalize" /\ q.status = "see_other"
        \/ q.pc = "inject" /\ q.status \in {"see_other", "error"}

RequestInv(r) ==
    /\ Grounded(req[r])
    /\ Ordered(req[r])
    /\ Answered(req[r])
    /\ CheckedFirst(req[r])

\* The server is only as far as its tables are.
ServerOK ==
    /\ phase \in {"pooled", "built", "spawned", "serving"} => "app" \in migrated
    /\ phase \in {"built", "spawned", "serving"} => "session" \in migrated
    /\ loop => phase \in {"spawned", "serving"}
    /\ \A r \in Requests : req[r].pc # "idle" => phase = "serving"

AccountsOK ==
    /\ UsersUnique
    /\ \A s \in SessionIds : SessionOwned(s)
    /\ CookiesHeld

PipelineInv ==
    /\ PipelineTypeOK
    /\ AccountsOK
    /\ ServerOK
    /\ \A r \in Requests : RequestInv(r)

-----------------------------------------------------------------------------
(* What a step leaves to the requests that do not take it.                 *)

TablesGrow ==
    /\ users \subseteq users'
    /\ \A s \in SessionIds : holder[s] # NoClient => holder'[s] = holder[s]
    /\ ended \subseteq ended'
    /\ \A s \in SessionIds : sessions[s] # NoUser => s \in ended' \/ sessions'[s] # NoUser

LEMMA OthersKept ==
    ASSUME PipelineTypeOK, TablesGrow, NEW p \in Requests, req'[p] = req[p], RequestInv(p)
    PROVE  RequestInv(p)'
<1> DEFINE q == req[p]
<1>1. q \in Request
    BY DEF PipelineTypeOK
<1>2. CASE q.pc = "idle"
    BY <1>2 DEF RequestInv, Grounded, NoRequest, Held, Ordered, SetsSession, Answered, CheckedFirst
<1>3. CASE q.pc # "idle"
    <2>1. ASSUME NEW s \in SessionIds \cup {NoSession}, Held(s, q.client)
          PROVE  s # NoSession => holder'[s] = q.client
        BY <2>1, <1>3, NamesAssumption DEF Held, TablesGrow, RequestInv, Grounded
    <2>2. Held(q.sid, q.client)'
        BY <2>1, <1>1 DEF RequestInv, Grounded, Held, Request
    <2>3. \A s \in q.jar : Held(s, q.client)'
        BY <2>1, <1>1 DEF RequestInv, Grounded, Held, Request
    <2>4. Grounded(q)'
        BY <1>3, <2>2, <2>3 DEF RequestInv, Grounded, TablesGrow, HasRow
    <2>5. Ordered(q)' /\ CheckedFirst(q)'
        BY DEF RequestInv, Ordered, SetsSession, CheckedFirst
    <2>6. Answered(q)'
        BY <1>1, NamesAssumption DEF RequestInv, Answered, TablesGrow, Taken, UserIn, Request
    <2> QED BY <2>4, <2>5, <2>6 DEF RequestInv
<1> QED BY <1>2, <1>3

LEMMA OneRequestMoves ==
    ASSUME PipelineInv, TablesGrow, NEW r \in Requests,
           \A p \in Requests \ {r} : req'[p] = req[p],
           req[r].pc # "idle" \/ phase = "serving",
           UNCHANGED lifecycleVars,
           PipelineTypeOK', AccountsOK', RequestInv(r)'
    PROVE  PipelineInv'
<1>1. \A p \in Requests : RequestInv(p)'
    BY OthersKept DEF PipelineInv
<1>2. ServerOK'
    BY DEF PipelineInv, ServerOK, lifecycleVars
<1> QED BY <1>1, <1>2 DEF PipelineInv

-----------------------------------------------------------------------------
(* The steps that change nothing but a request.                            *)

RecordOK(q) == Grounded(q) /\ Ordered(q) /\ Answered(q) /\ CheckedFirst(q)

LEMMA QuietMove ==
    ASSUME PipelineInv, NEW r \in Requests, NEW q \in Request,
           req' = [req EXCEPT ![r] = q],
           req[r].pc # "idle" \/ phase = "serving",
           UNCHANGED <<accountVars, lifecycleVars, ended>>,
           served' \in 0 .. MaxRequests,
           RecordOK(q)
    PROVE  PipelineInv'
<1>1. TablesGrow
    BY DEF TablesGrow, accountVars
<1>2. PipelineTypeOK'
    <2>1. AccountsTypeOK' /\ LifecycleTypeOK' /\ ended' \subseteq SessionIds
        BY DEF PipelineInv, PipelineTypeOK, AccountsTypeOK, LifecycleTypeOK, accountVars, lifecycleVars
    <2>2. req' \in [Requests -> Request]
        BY DEF PipelineInv, PipelineTypeOK
    <2> QED BY <2>1, <2>2 DEF PipelineTypeOK
<1>3. AccountsOK'
    BY DEF PipelineInv, AccountsOK, UsersUnique, SessionOwned, CookiesHeld, Held, accountVars
<1>4. req'[r] = q
    BY DEF PipelineInv, PipelineTypeOK
<1>5. RequestInv(r)'
    BY <1>4 DEF RecordOK, RequestInv, Grounded, Held, HasRow, Ordered, SetsSession, Answered, Taken,
                UserIn, CheckedFirst, accountVars
<1>6. \A p \in Requests \ {r} : req'[p] = req[p]
    BY DEF PipelineInv, PipelineTypeOK
<1> QED BY <1>1, <1>2, <1>3, <1>5, <1>6, OneRequestMoves

LEMMA RecordFacts ==
    ASSUME PipelineInv, NEW r \in Requests
    PROVE  req[r] \in Request /\ RecordOK(req[r])
BY DEF PipelineInv, PipelineTypeOK, RequestInv, RecordOK

\* A request begins with the cookie that its client holds.
LEMMA AcceptKeeps ==
    ASSUME PipelineInv, NEW r \in Requests, NEW c \in Clients, NEW t,
           NEW email \in Emails \cup {NoEmail}, Accept(r, c, t, email)
    PROVE  PipelineInv'
<1> DEFINE k == Dispatch(t.path, t.method)
           q == [NoRequest EXCEPT !.pc = "extract", !.client = c, !.route = k, !.target = t,
                                  !.email = email, !.sid = cookie[c]]
<1>1. /\ phase = "serving" /\ served' = served + 1 /\ served < MaxRequests
      /\ t \in Targets[served + 1]
      /\ req' = [req EXCEPT ![r] = q]
      /\ (email = NoEmail) <=> (Route[k].calls \notin {"signin", "signup"})
      /\ UNCHANGED <<accountVars, lifecycleVars, ended>>
    BY Zenon DEF Accept
<1>2. k \in RouteIds
    BY Dispatched
<1>3. served \in 0 .. MaxRequests /\ MaxRequests \in Nat
    BY PipelineAssumption DEF PipelineInv, PipelineTypeOK
<1>4. t \in [path : Seq(STRING), method : Methods] /\ served' \in 0 .. MaxRequests
    BY <1>1, <1>3, PipelineAssumption
<1>5. q \in Request
    BY <1>2, <1>4 DEF Request, NoRequest, PipelineInv, PipelineTypeOK, AccountsTypeOK, Statuses
<1>6. RecordOK(q)
    <2>1. Held(cookie[c], c)
        BY DEF PipelineInv, AccountsOK, CookiesHeld
    <2>2. SetsSession(q) => email \in Emails
        BY <1>1 DEF SetsSession, NoRequest
    <2> HIDE DEF k
    <2> QED BY <2>1, <2>2 DEF RecordOK, Grounded, Ordered, Answered, CheckedFirst, NoRequest
<1> QED BY <1>1, <1>4, <1>5, <1>6, QuietMove

\* The handler's stage returns with an answer that is true, to the login page
\* where the user of a module that needs one is not known.
LEMMA ReturnKeeps ==
    ASSUME PipelineInv, NEW r \in Requests, NEW status \in Statuses, Return(r, status),
           req[r].pc \in {"extract", "verify", "enter"},
           status = "ok" => ~SetsSession(req[r]),
           status = "conflict" => Taken(req[r].email),
           \/ status = "see_other" \/ req[r].user # NoUser
           \/ Route[req[r].route].calls \in Public,
           UNCHANGED <<accountVars, lifecycleVars, served, ended>>
    PROVE  PipelineInv'
<1> DEFINE q == [req[r] EXCEPT !.pc = "finalize", !.status = status]
<1>1. req[r] \in Request /\ RecordOK(req[r])
    BY RecordFacts
<1>2. q \in Request
    BY <1>1 DEF Request
<1>3. req' = [req EXCEPT ![r] = q]
    BY DEF Return, PipelineInv, PipelineTypeOK
<1>4. RecordOK(q)
    BY <1>1 DEF RecordOK, Grounded, HasRow, Ordered, SetsSession, Answered, CheckedFirst, Request
<1>5. served' \in 0 .. MaxRequests
    BY DEF PipelineInv, PipelineTypeOK
<1> QED BY <1>1, <1>2, <1>3, <1>4, <1>5, QuietMove

\* Past the first extractor of a module that is not public the user is known.
LEMMA UserKnown ==
    ASSUME PipelineInv, NEW r \in Requests, req[r].pc \in {"extract", "verify", "enter"},
           ~Extracting(r, "CheckedInUser")
    PROVE  req[r].user # NoUser \/ Calls(r) \in Public
<1>1. req[r] \in Request /\ CheckedFirst(req[r])
    BY RecordFacts DEF RecordOK
<1>2. SUFFICES ASSUME req[r].user = NoUser, Calls(r) \notin Public
               PROVE  FALSE
    OBVIOUS
<1>3. req[r].pc = "extract" /\ req[r].step = 1
    BY <1>1, <1>2 DEF CheckedFirst, Calls
<1>4. Checked(Route[req[r].route])
    BY <1>1, <1>2, RoutesChecked DEF Calls, Request
<1> QED BY <1>3, <1>4 DEF Extracting, Needs, Checked

LEMMA ExtractedKeeps ==
    ASSUME PipelineInv, NEW r \in Requests, req[r].pc = "extract", Extracted(r),
           req[r].user # NoUser \/ Calls(r) \in Public,
           UNCHANGED <<accountVars, lifecycleVars, served, ended>>
    PROVE  PipelineInv'
<1> DEFINE q == [req[r] EXCEPT !.step = @ + 1]
<1>1. req[r] \in Request /\ RecordOK(req[r])
    BY RecordFacts
<1>2. q \in Request
    BY <1>1 DEF Request
<1>3. req' = [req EXCEPT ![r] = q]
    BY DEF Extracted, PipelineInv, PipelineTypeOK
<1>4. RecordOK(q)
    BY <1>1 DEF RecordOK, Grounded, HasRow, Ordered, SetsSession, Answered, CheckedFirst, Request, Calls
<1>5. served' \in 0 .. MaxRequests
    BY DEF PipelineInv, PipelineTypeOK
<1> QED BY <1>1, <1>2, <1>3, <1>4, <1>5, QuietMove

LEMMA CheckInKeeps ==
    ASSUME PipelineInv, NEW r \in Requests, CheckIn(r)
    PROVE  PipelineInv'
<1>1. req[r] \in Request /\ RecordOK(req[r])
    BY RecordFacts
<1>2. req[r].pc = "extract" /\ UNCHANGED <<accountVars, lifecycleVars, served, ended>>
    BY DEF CheckIn, Extracting
<1>3. CASE Return(r, "see_other")
    BY <1>2, <1>3, ReturnKeeps DEF Statuses
<1>4. CASE /\ UserIn(req[r].sid) # NoUser
           /\ req' = [req EXCEPT ![r].step = @ + 1, ![r].user = UserIn(req[r].sid)]
    <2> DEFINE id == UserIn(req[r].sid)
               q == [req[r] EXCEPT !.step = @ + 1, !.user = id]
    <2>1. req[r].sid \in SessionIds /\ id = sessions[req[r].sid]
        BY <1>1, <1>4 DEF UserIn, Request
    <2>2. id \in UserIds /\ \E u \in users : u.id = id
        BY <1>4, <2>1 DEF PipelineInv, PipelineTypeOK, AccountsTypeOK, AccountsOK, SessionOwned
    <2>3. req' = [req EXCEPT ![r] = q]
        BY <1>4 DEF PipelineInv, PipelineTypeOK
    <2>4. id # NoUser
        BY <1>4
    <2> HIDE DEF id
    <2>5. q \in Request
        <3>1. req[r].step + 1 \in Nat /\ id \in UserIds \cup {NoUser}
            BY <1>1, <2>2 DEF Request
        <3> QED BY <1>1, <3>1 DEF Request
    <2>6. RecordOK(q)
        BY <1>1, <1>2, <2>2, <2>4
        DEF RecordOK, Grounded, HasRow, Ordered, SetsSession, Answered, CheckedFirst, Request
    <2>7. served' \in 0 .. MaxRequests
        BY <1>2 DEF PipelineInv, PipelineTypeOK
    <2> QED BY <1>2, <2>3, <2>5, <2>6, <2>7, QuietMove
<1> QED BY <1>3, <1>4 DEF CheckIn

LEMMA InputKeeps ==
    ASSUME PipelineInv, NEW r \in Requests, ExtractTheme(r) \/ ExtractInput(r)
    PROVE  PipelineInv'
<1>1. /\ req[r].pc = "extract" /\ ~Extracting(r, "CheckedInUser")
      /\ Extracted(r) \/ Return(r, "refused")
      /\ UNCHANGED <<accountVars, lifecycleVars, served, ended>>
    BY DEF ExtractTheme, ExtractInput, Extracting
<1>2. req[r].user # NoUser \/ Calls(r) \in Public
    BY <1>1, UserKnown
<1> QED BY <1>1, <1>2, ExtractedKeeps, ReturnKeeps DEF Calls, Statuses

LEMMA SigninKeeps ==
    ASSUME PipelineInv, NEW r \in Requests, SigninLookup(r) \/ SigninVerify(r)
    PROVE  PipelineInv'
<1>1. req[r] \in Request /\ RecordOK(req[r])
    BY RecordFacts
<1>2. UNCHANGED <<accountVars, lifecycleVars, served, ended>> /\ served' \in 0 .. MaxRequests
    BY DEF SigninLookup, SigninVerify, PipelineInv, PipelineTypeOK
<1>3. ASSUME SigninLookup(r), req' = [req EXCEPT ![r].pc = "verify",
                                                ![r].user = StoredCredentials(req[r].email)]
      PROVE  PipelineInv'
    <2> DEFINE id == StoredCredentials(req[r].email)
               q == [req[r] EXCEPT !.pc = "verify", !.user = id]
    <2>1. req[r].pc = "extract" /\ Calls(r) = "signin"
        BY <1>3 DEF SigninLookup, Handling, Called
    <2>2. id # NoUser => \E u \in users : u.id = id /\ u.email = req[r].email
        BY DEF StoredCredentials, Taken
    <2>3. id \in UserIds \cup {NoUser}
        BY <2>2 DEF PipelineInv, PipelineTypeOK, AccountsTypeOK, User
    <2>4. q \in Request
        BY <1>1, <2>3 DEF Request
    <2>5. req' = [req EXCEPT ![r] = q]
        BY <1>3 DEF PipelineInv, PipelineTypeOK
    <2> HIDE DEF id
    <2>6. RecordOK(q)
        BY <1>1, <2>1, <2>2
        DEF RecordOK, Grounded, HasRow, Ordered, SetsSession, Answered, CheckedFirst, Request, Calls, Public
    <2> QED BY <1>2, <2>1, <2>4, <2>5, <2>6, QuietMove
<1>4. ASSUME SigninVerify(r), Verifies(req[r].user, req[r].client),
             req' = [req EXCEPT ![r].pc = "enter"]
      PROVE  PipelineInv'
    <2> DEFINE q == [req[r] EXCEPT !.pc = "enter"]
    <2>1. req[r].pc = "verify"
        BY <1>4 DEF SigninVerify
    <2>2. PICK u \in users : u.id = req[r].user /\ u.secret = req[r].client
        BY <1>4 DEF Verifies
    <2>3. u \in User /\ req[r].user # NoUser
        BY <2>2, NamesAssumption DEF PipelineInv, PipelineTypeOK, AccountsTypeOK, User
    <2>4. PICK v \in users : v.id = req[r].user /\ v.email = req[r].email
        BY <1>1, <2>1, <2>3 DEF RecordOK, Grounded
    <2>5. u = v
        BY <2>2, <2>4 DEF PipelineInv, AccountsOK, UsersUnique
    <2>6. HasRow(req[r])
        BY <2>2, <2>3, <2>4, <2>5 DEF User, HasRow
    <2>7. q \in Request
        BY <1>1 DEF Request
    <2>8. req' = [req EXCEPT ![r] = q]
        BY <1>4 DEF PipelineInv, PipelineTypeOK
    <2>9. RecordOK(q)
        BY <1>1, <2>1, <2>2, <2>6
        DEF RecordOK, Grounded, HasRow, Ordered, SetsSession, Answered, CheckedFirst, Request
    <2> QED BY <1>2, <2>1, <2>7, <2>8, <2>9, QuietMove
<1>5. ASSUME SigninLookup(r), Return(r, "error")
      PROVE  PipelineInv'
    <2>1. Calls(r) = "signin" /\ req[r].pc = "extract"
        BY <1>5 DEF SigninLookup, Handling, Called
    <2> QED BY <1>2, <1>5, <2>1, ReturnKeeps DEF Calls, Public, Statuses
<1>6. ASSUME SigninVerify(r), Return(r, "error") \/ Return(r, "unauthorized")
      PROVE  PipelineInv'
    <2>1. Calls(r) \in {"signin", "signup"} /\ req[r].pc = "verify"
        BY <1>1, <1>6 DEF SigninVerify, RecordOK, Ordered, SetsSession, Calls
    <2> QED BY <1>2, <1>6, <2>1, ReturnKeeps DEF Calls, Public, Statuses
<1> QED BY <1>3, <1>4, <1>5, <1>6 DEF SigninLookup, SigninVerify

LEMMA InsertUserIdKeeps ==
    ASSUME PipelineInv, NEW r \in Requests, InsertUserId(r)
    PROVE  PipelineInv'
<1>1. req[r] \in Request /\ RecordOK(req[r])
    BY RecordFacts
<1>2. /\ req[r].pc = "enter" /\ Calls(r) \in {"signin", "signup"}
      /\ UNCHANGED <<accountVars, lifecycleVars, served, ended>>
    BY <1>1 DEF InsertUserId, RecordOK, Ordered, SetsSession, Calls
<1>3. CASE Return(r, "error")
    BY <1>2, <1>3, ReturnKeeps DEF Calls, Public, Statuses
<1>4. CASE req' = [req EXCEPT ![r].pc = "finalize", ![r].view = "set", ![r].status = "ok"]
    <2> DEFINE q == [req[r] EXCEPT !.pc = "finalize", !.view = "set", !.status = "ok"]
    <2>1. q \in Request
        BY ZenonT(60), <1>1 DEF Request, Statuses
    <2>2. req' = [req EXCEPT ![r] = q]
        BY <1>4 DEF PipelineInv, PipelineTypeOK
    <2>3. RecordOK(q)
        BY <1>1, <1>2
        DEF RecordOK, Grounded, HasRow, Ordered, SetsSession, Answered, CheckedFirst, Request, Calls, Public
    <2>4. served' \in 0 .. MaxRequests
        BY <1>2 DEF PipelineInv, PipelineTypeOK
    <2> QED BY <1>2, <2>1, <2>2, <2>3, <2>4, QuietMove
<1> QED BY <1>3, <1>4 DEF InsertUserId

LEMMA HandlerKeeps ==
    ASSUME PipelineInv, NEW r \in Requests, Logout(r) \/ Fallback(r) \/ OtherHandler(r)
    PROVE  PipelineInv'
<1>1. req[r] \in Request /\ RecordOK(req[r])
    BY RecordFacts
<1>2. /\ Called(r) /\ req[r].pc = "extract"
      /\ Calls(r) \notin {"signin", "signup"}
      /\ UNCHANGED <<accountVars, lifecycleVars, served, ended>>
    BY DEF Logout, Fallback, OtherHandler, Handling, Called
<1>3. ASSUME Calls(r) \notin Public
      PROVE  ~Extracting(r, "CheckedInUser")
    <2>1. Len(Needs(r)) \in Nat /\ req[r].step \in Nat
        BY <1>1, <1>3, RoutesChecked DEF Checked, Calls, Needs, Request
    <2> QED BY <1>2, <2>1 DEF Called, Extracting
<1>4. req[r].user # NoUser \/ Calls(r) \in Public
    BY <1>2, <1>3, UserKnown
<1>5. CASE Fallback(r) \/ OtherHandler(r)
    BY <1>2, <1>4, <1>5, ReturnKeeps
    DEF Fallback, OtherHandler, Calls, SetsSession, Statuses
<1>6. CASE Logout(r)
    <2> DEFINE q == [req[r] EXCEPT !.pc = "finalize", !.view = "left", !.status = "see_other"]
    <2>1. q \in Request
        BY ZenonT(60), <1>1 DEF Request, Statuses
    <2>2. req' = [req EXCEPT ![r] = q]
        BY <1>6 DEF Logout, PipelineInv, PipelineTypeOK
    <2>3. RecordOK(q)
        BY <1>1, <1>2
        DEF RecordOK, Grounded, HasRow, Ordered, SetsSession, Answered, CheckedFirst, Request, Calls
    <2>4. served' \in 0 .. MaxRequests
        BY <1>2 DEF PipelineInv, PipelineTypeOK
    <2> QED BY <1>2, <2>1, <2>2, <2>3, <2>4, QuietMove
<1> QED BY <1>5, <1>6

\* finalize_session without an effect: the answer stays or becomes an error.
LEMMA FinalizedKeeps ==
    ASSUME PipelineInv, NEW r \in Requests, NEW status \in Statuses,
           req[r].pc = "finalize",
           Finalized(r, status, {}),
           \/ status = "error"
           \/ status = req[r].status /\ req[r].view = "kept"
           \/ status = "refused" /\ Calls(r) \in Public \ {"signin", "signup"},
           UNCHANGED <<accountVars, lifecycleVars, served, ended>>
    PROVE  PipelineInv'
<1> DEFINE q == [req[r] EXCEPT !.pc = "inject", !.status = status, !.jar = {}]
<1>1. req[r] \in Request /\ RecordOK(req[r])
    BY RecordFacts
<1>2. q \in Request
    BY <1>1 DEF Request
<1>3. req' = [req EXCEPT ![r] = q]
    BY DEF Finalized, PipelineInv, PipelineTypeOK
<1>4. RecordOK(q)
    BY <1>1
    DEF RecordOK, Grounded, HasRow, Ordered, SetsSession, Answered, CheckedFirst, Request, Calls
<1>5. served' \in 0 .. MaxRequests
    BY DEF PipelineInv, PipelineTypeOK
<1> QED BY <1>2, <1>3, <1>4, <1>5, QuietMove

LEMMA DisconnectKeeps ==
    ASSUME PipelineInv, NEW r \in Requests, Disconnect(r)
    PROVE  PipelineInv'
<1>1. NoRequest \in Request
    BY DEF NoRequest, Request, RouteIds, Methods, Statuses
<1>2. RecordOK(NoRequest)
    <2>1. Route[0].calls = "default_fallback"
        BY DEF Route, RouteIds, route_0
    <2> QED BY <2>1 DEF RecordOK, Grounded, Held, HasRow, Ordered, SetsSession, Answered,
                        CheckedFirst, NoRequest
<1>3. served' \in 0 .. MaxRequests
    BY DEF Disconnect, PipelineInv, PipelineTypeOK
<1> QED BY <1>1, <1>2, <1>3, QuietMove DEF Disconnect

-----------------------------------------------------------------------------
(* The steps that change users and sessions.                               *)

LEMMA InsertKeeps ==
    ASSUME PipelineInv, NEW id \in UserIds, NEW email \in Emails, NEW c \in Clients,
           InsertUser(id, email, c), UNCHANGED <<sessions, cookie, holder>>
    PROVE  /\ AccountsTypeOK' /\ AccountsOK'
           /\ users \subseteq users'
           /\ [id |-> id, email |-> email, secret |-> c] \in users'
<1> DEFINE row == [id |-> id, email |-> email, secret |-> c]
<1>1. users' = users \cup {row} /\ row \in User
    BY DEF InsertUser, User
<1>2. \A u \in users : u.id # id /\ u.email # email
    BY DEF InsertUser, Taken
<1>3. AccountsTypeOK'
    BY <1>1 DEF PipelineInv, PipelineTypeOK, AccountsTypeOK
<1>4. UsersUnique'
    BY <1>1, <1>2 DEF PipelineInv, AccountsOK, UsersUnique
<1>5. (\A s \in SessionIds : SessionOwned(s))' /\ CookiesHeld'
    BY <1>1 DEF PipelineInv, AccountsOK, SessionOwned, CookiesHeld, Held
<1> QED BY <1>1, <1>3, <1>4, <1>5 DEF AccountsOK

LEMMA SignupInsertKeeps ==
    ASSUME PipelineInv, NEW r \in Requests, SignupInsert(r)
    PROVE  PipelineInv'
<1>1. req[r] \in Request /\ RecordOK(req[r])
    BY RecordFacts
<1>2. /\ req[r].pc = "extract" /\ Calls(r) = "signup"
      /\ UNCHANGED <<sessions, cookie, holder, lifecycleVars, served, ended>>
    BY DEF SignupInsert, Handling, Called
<1>3. SetsSession(req[r]) /\ req[r].email \in Emails /\ req[r].client \in Clients
    BY <1>1, <1>2 DEF RecordOK, Ordered, Grounded, SetsSession, Calls
<1>4. ASSUME users' = users, Return(r, "error") \/ (Return(r, "conflict") /\ Taken(req[r].email))
      PROVE  PipelineInv'
    BY <1>2, <1>4, ReturnKeeps DEF Calls, Public, Statuses, accountVars
<1>5. ASSUME NEW id \in UserIds, InsertUser(id, req[r].email, req[r].client),
             \/ req' = [req EXCEPT ![r].pc = "enter", ![r].user = id]
             \/ Return(r, "error")
      PROVE  PipelineInv'
    <2>1. /\ AccountsTypeOK' /\ AccountsOK' /\ users \subseteq users'
          /\ [id |-> id, email |-> req[r].email, secret |-> req[r].client] \in users'
        BY <1>2, <1>3, <1>5, InsertKeeps
    <2>2. TablesGrow
        BY <1>2, <2>1 DEF TablesGrow
    <2>3. PICK q \in Request : /\ req' = [req EXCEPT ![r] = q]
                               /\ \/ q = [req[r] EXCEPT !.pc = "enter", !.user = id]
                                  \/ q = [req[r] EXCEPT !.pc = "finalize", !.status = "error"]
        <3>1. [req[r] EXCEPT !.pc = "enter", !.user = id] \in Request
            BY <1>1 DEF Request
        <3>2. [req[r] EXCEPT !.pc = "finalize", !.status = "error"] \in Request
            BY ZenonT(60), <1>1 DEF Request, Statuses
        <3> QED BY <1>5, <3>1, <3>2 DEF Return, PipelineInv, PipelineTypeOK
    <2>4. PipelineTypeOK'
        BY <1>2, <2>1, <2>3 DEF PipelineInv, PipelineTypeOK, LifecycleTypeOK, lifecycleVars
    <2>5. req'[r] = q /\ \A p \in Requests \ {r} : req'[p] = req[p]
        BY <2>3 DEF PipelineInv, PipelineTypeOK
    <2>6. Grounded(q)'
        <3>1. /\ q.pc \in {"enter", "finalize"} /\ q.view = "kept"
              /\ q.client = req[r].client /\ q.email = req[r].email
              /\ q.sid = req[r].sid /\ q.jar = req[r].jar
              /\ IF q.pc = "enter" THEN q.user = id ELSE q.user = req[r].user
            BY ZenonT(60), <1>1, <1>2, <2>3 DEF RecordOK, Ordered, Request
        <3>2. HasRow(q)' \/ q.pc = "finalize"
            BY <2>1, <3>1 DEF HasRow
        <3>3. Held(q.sid, q.client)' /\ \A s \in q.jar : Held(s, q.client)'
            BY <1>1, <1>2, <3>1 DEF RecordOK, Grounded, Held
        <3>4. q.user # NoUser => \E u \in users' : u.id = q.user
            BY <1>1, <2>1, <3>1 DEF RecordOK, Grounded
        <3> QED BY <1>3, <3>1, <3>2, <3>3, <3>4 DEF Grounded
    <2>7. Ordered(q) /\ Answered(q)' /\ CheckedFirst(q)
        BY ZenonT(60), <1>1, <1>2, <1>3, <2>3
        DEF RecordOK, Ordered, SetsSession, Answered, CheckedFirst, Calls, Public, Request
    <2>8. RequestInv(r)'
        BY <2>5, <2>6, <2>7
        DEF RequestInv, Grounded, Held, HasRow, Ordered, SetsSession, Answered, Taken, UserIn, CheckedFirst
    <2> QED BY <1>2, <2>1, <2>2, <2>4, <2>5, <2>8, OneRequestMoves
<1> QED BY <1>4, <1>5 DEF SignupInsert

\* A new session id belongs to nobody's session yet.
LEMMA IssueKeeps ==
    ASSUME PipelineInv, NEW s \in SessionIds, NEW c \in Clients, Issue(s, c)
    PROVE  /\ holder' \in [SessionIds -> Clients \cup {NoClient}]
           /\ holder'[s] = c /\ sessions[s] = NoUser
           /\ \A t \in SessionIds \ {s} : holder'[t] = holder[t]
           /\ \A t \in SessionIds : holder[t] # NoClient => holder'[t] = holder[t]
<1>1. sessions[s] = NoUser
    <2> SUFFICES ASSUME sessions[s] # NoUser PROVE FALSE
        OBVIOUS
    <2>1. PICK u \in users : u.secret = holder[s]
        BY DEF PipelineInv, AccountsOK, SessionOwned
    <2>2. u.secret \in Clients
        BY DEF PipelineInv, PipelineTypeOK, AccountsTypeOK, User
    <2> QED BY <2>1, <2>2, NamesAssumption DEF Issue
<1> QED BY <1>1, NamesAssumption DEF Issue, PipelineInv, PipelineTypeOK, AccountsTypeOK

\* What may happen to the tables when a session id is given out.
LEMMA HolderMoves ==
    ASSUME PipelineInv, NEW s \in SessionIds, NEW c \in Clients, Issue(s, c),
           UNCHANGED <<users, sessions, cookie, ended>>
    PROVE  /\ AccountsTypeOK' /\ AccountsOK' /\ TablesGrow
           /\ holder'[s] = c
<1>1. /\ holder' \in [SessionIds -> Clients \cup {NoClient}]
      /\ holder'[s] = c /\ sessions[s] = NoUser
      /\ \A t \in SessionIds \ {s} : holder'[t] = holder[t]
      /\ \A t \in SessionIds : holder[t] # NoClient => holder'[t] = holder[t]
    BY IssueKeeps
<1>2. AccountsTypeOK'
    BY <1>1 DEF PipelineInv, PipelineTypeOK, AccountsTypeOK
<1>3. (\A t \in SessionIds : SessionOwned(t))'
    BY <1>1 DEF PipelineInv, AccountsOK, SessionOwned
<1>4. CookiesHeld'
    BY <1>1, NamesAssumption DEF PipelineInv, PipelineTypeOK, AccountsTypeOK, AccountsOK, CookiesHeld, Held
<1>5. UsersUnique'
    BY DEF PipelineInv, AccountsOK, UsersUnique
<1>6. TablesGrow
    BY <1>1 DEF TablesGrow
<1> QED BY <1>1, <1>2, <1>3, <1>4, <1>5, <1>6 DEF AccountsOK

\* When the session of a request whose user has a row is stored.
LEMMA EnterMoves ==
    ASSUME PipelineInv, NEW r \in Requests, NEW s \in SessionIds, StoredUnder(r, s),
           Enter(s, req[r].user), HasRow(req[r]), req[r].client \in Clients,
           Held(req[r].sid, req[r].client),
           UNCHANGED <<users, cookie, ended>>
    PROVE  /\ AccountsTypeOK' /\ AccountsOK' /\ TablesGrow
           /\ holder'[s] = req[r].client /\ sessions'[s] # NoUser
<1>1. /\ holder' \in [SessionIds -> Clients \cup {NoClient}]
      /\ holder'[s] = req[r].client
      /\ \A t \in SessionIds \ {s} : holder'[t] = holder[t]
      /\ \A t \in SessionIds : holder[t] # NoClient => holder'[t] = holder[t]
    BY IssueKeeps, NamesAssumption
    DEF StoredUnder, Held, PipelineInv, PipelineTypeOK, AccountsTypeOK
<1>2. PICK u \in users : u.id = req[r].user /\ u.secret = req[r].client
    BY DEF HasRow
<1>3. req[r].user \in UserIds /\ req[r].user # NoUser
    BY <1>2, NamesAssumption DEF PipelineInv, PipelineTypeOK, AccountsTypeOK, User
<1>4. /\ sessions'[s] = req[r].user
      /\ \A t \in SessionIds \ {s} : sessions'[t] = sessions[t]
      /\ sessions' \in [SessionIds -> UserIds \cup {NoUser}]
    BY <1>3 DEF Enter, PipelineInv, PipelineTypeOK, AccountsTypeOK
<1>5. AccountsTypeOK'
    BY <1>1, <1>4 DEF PipelineInv, PipelineTypeOK, AccountsTypeOK
<1>6. (\A t \in SessionIds : SessionOwned(t))'
    BY <1>1, <1>2, <1>4 DEF PipelineInv, AccountsOK, SessionOwned
<1>7. CookiesHeld'
    BY <1>1, NamesAssumption DEF PipelineInv, PipelineTypeOK, AccountsTypeOK, AccountsOK, CookiesHeld, Held
<1>8. UsersUnique'
    BY DEF PipelineInv, AccountsOK, UsersUnique
<1>9. TablesGrow
    BY <1>1, <1>3, <1>4 DEF TablesGrow
<1> QED BY <1>1, <1>3, <1>4, <1>5, <1>6, <1>7, <1>8, <1>9 DEF AccountsOK

\* When a session ends.
LEMMA ForgetMoves ==
    ASSUME PipelineInv, NEW s \in SessionIds \cup {NoSession}, Forget(s),
           ended' = ended \cup ({s} \ {NoSession}),
           UNCHANGED <<users, cookie, holder>>
    PROVE  AccountsTypeOK' /\ AccountsOK' /\ TablesGrow
<1>1. \A t \in SessionIds : sessions'[t] = IF t = s THEN NoUser ELSE sessions[t]
    BY DEF Forget
<1>2. sessions' \in [SessionIds -> UserIds \cup {NoUser}]
    BY DEF Forget, PipelineInv, PipelineTypeOK, AccountsTypeOK
<1>3. AccountsTypeOK'
    BY <1>2 DEF PipelineInv, PipelineTypeOK, AccountsTypeOK
<1>4. (\A t \in SessionIds : SessionOwned(t))'
    BY <1>1 DEF PipelineInv, AccountsOK, SessionOwned
<1>5. CookiesHeld' /\ UsersUnique'
    BY DEF PipelineInv, AccountsOK, CookiesHeld, Held, UsersUnique
<1>6. TablesGrow
    BY <1>1, NamesAssumption DEF TablesGrow
<1> QED BY <1>3, <1>4, <1>5, <1>6 DEF AccountsOK

\* What finalize_session needs of the tables: it changes holder and sessions,
\* gives out ids of the request's client only, and forgets none but what ended.
LEMMA FinalizeMove ==
    ASSUME PipelineInv, NEW r \in Requests, NEW status \in Statuses,
           NEW jar \in SUBSET (SessionIds \cup {NoSession}),
           req[r].pc = "finalize", Finalized(r, status, jar),
           status = req[r].status \/ status = "error",
           TablesGrow, AccountsTypeOK', AccountsOK', ended' \subseteq SessionIds,
           \A s \in jar : s # NoSession => holder'[s] = req[r].client,
           req[r].view = "set" /\ status = "ok" =>
               \E s \in jar : s \in SessionIds /\ sessions'[s] # NoUser,
           UNCHANGED <<users, cookie, lifecycleVars, served>>
    PROVE  PipelineInv'
<1>1. req[r] \in Request /\ RecordOK(req[r])
    BY RecordFacts
<1>2. PICK q \in Request : q = [req[r] EXCEPT !.pc = "inject", !.status = status, !.jar = jar]
    BY <1>1 DEF Request
<1>3. req' = [req EXCEPT ![r] = q]
    BY <1>2 DEF Finalized, PipelineInv, PipelineTypeOK
<1>4. PipelineTypeOK'
    BY <1>2, <1>3 DEF PipelineInv, PipelineTypeOK, LifecycleTypeOK, lifecycleVars
<1>5. req'[r] = q /\ \A p \in Requests \ {r} : req'[p] = req[p]
    BY <1>3 DEF PipelineInv, PipelineTypeOK
<1>6. /\ q.pc = "inject" /\ q.client = req[r].client /\ q.route = req[r].route
      /\ q.email = req[r].email /\ q.user = req[r].user /\ q.sid = req[r].sid
      /\ q.view = req[r].view /\ q.jar = jar /\ q.status = status
    BY <1>1, <1>2 DEF Request
<1>7. q.client \in Clients
    BY <1>1, <1>6 DEF RecordOK, Grounded
<1>8. Held(q.sid, q.client)'
    <2>1. Held(q.sid, q.client)
        BY <1>1, <1>6 DEF RecordOK, Grounded
    <2>2. CASE q.sid = NoSession
        BY <2>2 DEF Held
    <2>3. CASE q.sid \in SessionIds
        BY <1>7, <2>1, <2>3, NamesAssumption DEF Held, TablesGrow
    <2> QED BY <1>2, <2>2, <2>3 DEF Request
<1>9. Grounded(q)'
    <2>1. q.user # NoUser => \E u \in users' : u.id = q.user
        BY <1>1, <1>6 DEF RecordOK, Grounded
    <2>2. q.view = "set" => HasRow(q)'
        BY <1>1, <1>6 DEF RecordOK, Grounded, HasRow
    <2>3. \A s \in q.jar : Held(s, q.client)'
        BY <1>6 DEF Held
    <2> QED BY <1>6, <1>7, <1>8, <2>1, <2>2, <2>3 DEF Grounded
<1>10. Ordered(q)' /\ CheckedFirst(q)'
    BY <1>1, <1>6 DEF RecordOK, Ordered, SetsSession, CheckedFirst
<1>11. Answered(q)'
    <2>1. q.status = "conflict" => Taken(q.email)'
        BY <1>1, <1>6 DEF RecordOK, Answered, Taken
    <2>2. ASSUME q.view = "set", q.status = "ok"
          PROVE  \E s \in q.jar : s \in ended' \/ UserIn(s)' # NoUser
        <3>1. PICK s \in q.jar : s \in SessionIds /\ sessions'[s] # NoUser
            BY <1>6, <2>2
        <3> QED BY <3>1, NamesAssumption DEF UserIn
    <2> QED BY <2>1, <2>2 DEF Answered
<1>12. RequestInv(r)'
    BY <1>5, <1>9, <1>10, <1>11
    DEF RequestInv, Grounded, Held, HasRow, Ordered, SetsSession, Answered, Taken, UserIn, CheckedFirst
<1> QED BY <1>4, <1>5, <1>12, OneRequestMoves

LEMMA FinalizeKeptKeeps ==
    ASSUME PipelineInv, NEW r \in Requests, LateBadCookies(r) \/ FinalizeKept(r)
    PROVE  PipelineInv'
<1>1. req[r] \in Request /\ RecordOK(req[r]) /\ req[r].pc = "finalize"
    BY RecordFacts DEF LateBadCookies, FinalizeKept
<1>2. CASE LateBadCookies(r)
    <2>1. ~Route[req[r].route].wraps /\ req[r].route \in RouteIds
        BY <1>1, <1>2 DEF LateBadCookies, Request
    <2>2. Calls(r) \in Public \ {"signin", "signup"}
        BY <2>1, RoutesChecked DEF Calls
    <2> QED BY <1>1, <1>2, <2>2, FinalizedKeeps DEF LateBadCookies, Statuses
<1>3. CASE /\ FinalizeKept(r)
           /\ \E status \in {req[r].status, "error"} : Finalized(r, status, {})
           /\ UNCHANGED holder
    BY <1>1, <1>3, FinalizedKeeps DEF FinalizeKept, Request, Statuses, accountVars
<1>4. ASSUME FinalizeKept(r), NEW s \in SessionIds, Issue(s, req[r].client),
             Finalized(r, req[r].status, {s})
      PROVE  PipelineInv'
    <2>1. UNCHANGED <<users, sessions, cookie, lifecycleVars, served, ended>>
        BY <1>4 DEF FinalizeKept
    <2>2. req[r].client \in Clients /\ req[r].status \in Statuses /\ req[r].view = "kept"
        BY <1>1, <1>4 DEF RecordOK, Grounded, Request, FinalizeKept
    <2>3. /\ AccountsTypeOK' /\ AccountsOK' /\ TablesGrow /\ holder'[s] = req[r].client
        BY <1>4, <2>1, <2>2, HolderMoves
    <2>4. ended' \subseteq SessionIds
        BY <2>1 DEF PipelineInv, PipelineTypeOK
    <2> QED BY <1>1, <1>4, <2>1, <2>2, <2>3, <2>4, FinalizeMove
<1> QED BY <1>2, <1>3, <1>4 DEF FinalizeKept

\* What finalize_session stores is the session of the request's own user.
LEMMA FinalizeSetKeeps ==
    ASSUME PipelineInv, NEW r \in Requests, FinalizeSet(r)
    PROVE  PipelineInv'
<1>1. req[r] \in Request /\ RecordOK(req[r])
    BY RecordFacts
<1>2. /\ req[r].pc = "finalize" /\ req[r].view = "set"
      /\ UNCHANGED <<users, cookie, lifecycleVars, served, ended>>
    BY DEF FinalizeSet
<1>3. CASE Finalized(r, "error", {}) /\ UNCHANGED <<sessions, holder>>
    BY <1>2, <1>3, FinalizedKeeps DEF Statuses, accountVars
<1>4. ASSUME NEW s \in SessionIds, StoredUnder(r, s), Enter(s, req[r].user),
             Finalized(r, req[r].status, {s}) \/ Finalized(r, "error", {})
      PROVE  PipelineInv'
    <2>1. /\ HasRow(req[r]) /\ req[r].client \in Clients /\ req[r].status \in Statuses
          /\ Held(req[r].sid, req[r].client)
        BY <1>1, <1>2 DEF RecordOK, Grounded, Request
    <2>2. /\ AccountsTypeOK' /\ AccountsOK' /\ TablesGrow
          /\ holder'[s] = req[r].client /\ sessions'[s] # NoUser
        BY <1>2, <1>4, <2>1, EnterMoves
    <2>3. ended' \subseteq SessionIds
        BY <1>2 DEF PipelineInv, PipelineTypeOK
    <2>4. CASE Finalized(r, req[r].status, {s})
        BY <1>2, <2>1, <2>2, <2>3, <2>4, FinalizeMove
    <2>5. CASE Finalized(r, "error", {})
        BY <1>2, <2>1, <2>2, <2>3, <2>5, FinalizeMove DEF Statuses
    <2> QED BY <1>4, <2>4, <2>5
<1> QED BY <1>3, <1>4 DEF FinalizeSet

LEMMA FinalizeLeftKeeps ==
    ASSUME PipelineInv, NEW r \in Requests, FinalizeLeft(r)
    PROVE  PipelineInv'
<1>1. req[r] \in Request /\ RecordOK(req[r])
    BY RecordFacts
<1>2. /\ req[r].pc = "finalize" /\ req[r].view = "left"
      /\ UNCHANGED <<users, cookie, holder, lifecycleVars, served>>
    BY DEF FinalizeLeft
<1>3. CASE Finalized(r, "error", {}) /\ UNCHANGED <<sessions, ended>>
    BY <1>2, <1>3, FinalizedKeeps DEF Statuses, accountVars
<1>4. ASSUME Forget(req[r].sid), ended' = ended \cup ({req[r].sid} \ {NoSession}),
             Finalized(r, req[r].status, {NoSession}) \/ Finalized(r, "error", {})
      PROVE  PipelineInv'
    <2>1. req[r].sid \in SessionIds \cup {NoSession} /\ req[r].status \in Statuses
        BY <1>1 DEF Request
    <2>2. AccountsTypeOK' /\ AccountsOK' /\ TablesGrow
        BY <1>2, <1>4, <2>1, ForgetMoves
    <2>3. ended' \subseteq SessionIds
        BY <1>4, <2>1 DEF PipelineInv, PipelineTypeOK
    <2>4. CASE Finalized(r, req[r].status, {NoSession})
        BY <1>2, <2>1, <2>2, <2>3, <2>4, FinalizeMove
    <2>5. CASE Finalized(r, "error", {})
        BY <1>2, <2>1, <2>2, <2>3, <2>5, FinalizeMove DEF Statuses
    <2> QED BY <1>4, <2>4, <2>5
<1> QED BY <1>3, <1>4 DEF FinalizeLeft

\* A request that has ended has nothing to be wrong about.
LEMMA Ended ==
    ASSUME NEW r \in Requests, req'[r] = NoRequest
    PROVE  RequestInv(r)'
<1>1. Route[0].calls = "default_fallback"
    BY DEF Route, RouteIds, route_0
<1>2. /\ NoRequest.pc = "idle" /\ NoRequest.route = 0 /\ NoRequest.sid = NoSession
      /\ NoRequest.jar = {} /\ NoRequest.user = NoUser /\ NoRequest.view = "kept"
      /\ NoRequest.status = "none"
    BY DEF NoRequest
<1>3. Grounded(req[r])'
    BY <1>2 DEF Grounded, Held
<1>4. (Ordered(req[r]) /\ Answered(req[r]) /\ CheckedFirst(req[r]))'
    BY <1>1, <1>2 DEF Ordered, SetsSession, Answered, CheckedFirst
<1> QED BY <1>3, <1>4 DEF RequestInv

\* A cookie that a client receives was issued for this client.
LEMMA InjectKeeps ==
    ASSUME PipelineInv, NEW r \in Requests, Inject(r)
    PROVE  PipelineInv'
<1>1. req[r] \in Request /\ RecordOK(req[r])
    BY RecordFacts
<1>2. /\ req[r].pc = "inject" /\ req' = [req EXCEPT ![r] = NoRequest]
      /\ UNCHANGED <<users, sessions, holder, lifecycleVars, served, ended>>
    BY DEF Inject
<1>3. /\ req[r].client \in Clients
      /\ \A s \in req[r].jar : Held(s, req[r].client) /\ s \in SessionIds \cup {NoSession}
    BY <1>1, <1>2 DEF RecordOK, Grounded, Request
<1>4. cookie' \in [Clients -> SessionIds \cup {NoSession}] /\ CookiesHeld'
    BY <1>2, <1>3 DEF Inject, CookiesHeld, Held, PipelineInv, PipelineTypeOK, AccountsTypeOK, AccountsOK
<1>5. AccountsTypeOK' /\ AccountsOK'
    BY <1>2, <1>4 DEF PipelineInv, PipelineTypeOK, AccountsTypeOK, AccountsOK, UsersUnique, SessionOwned
<1>6. NoRequest \in Request
    BY DEF NoRequest, Request, RouteIds, Methods, Statuses
<1>7. PipelineTypeOK'
    BY <1>2, <1>5, <1>6 DEF PipelineInv, PipelineTypeOK, LifecycleTypeOK, lifecycleVars
<1>8. req'[r] = NoRequest /\ \A p \in Requests \ {r} : req'[p] = req[p]
    BY <1>2 DEF PipelineInv, PipelineTypeOK
<1>9. RequestInv(r)'
    BY <1>8, Ended
<1>10. TablesGrow
    BY <1>2 DEF TablesGrow
<1> QED BY <1>2, <1>5, <1>7, <1>8, <1>9, <1>10, OneRequestMoves

-----------------------------------------------------------------------------
(* The steps that are not those of a request.                              *)

LEMMA ExpireKeeps ==
    ASSUME PipelineInv, NEW s \in SessionIds, Expire(s)
    PROVE  PipelineInv'
<1>1. Forget(s) /\ ended' = ended \cup {s} /\ UNCHANGED <<users, cookie, holder, lifecycleVars, req, served>>
    BY DEF Expire
<1>2. AccountsTypeOK' /\ AccountsOK' /\ TablesGrow
    BY <1>1, ForgetMoves, NamesAssumption
<1>3. PipelineTypeOK'
    BY <1>1, <1>2 DEF PipelineInv, PipelineTypeOK, LifecycleTypeOK, lifecycleVars
<1>4. \A p \in Requests : RequestInv(p)'
    BY <1>1, <1>2, OthersKept DEF PipelineInv
<1>5. ServerOK'
    BY <1>1 DEF PipelineInv, ServerOK, lifecycleVars
<1> QED BY <1>2, <1>3, <1>4, <1>5 DEF PipelineInv

\* No request outlives the process.
LEMMA ServerExitsKeeps ==
    ASSUME PipelineInv, ServerExits
    PROVE  PipelineInv'
<1>1. /\ Exit /\ req' = [r \in Requests |-> NoRequest]
      /\ UNCHANGED <<users, sessions, cookie, holder, served, ended>>
    BY DEF ServerExits, accountVars
<1>2. AccountsTypeOK' /\ AccountsOK'
    BY <1>1 DEF PipelineInv, PipelineTypeOK, AccountsTypeOK, AccountsOK, UsersUnique, SessionOwned,
                CookiesHeld, Held
<1>3. LifecycleTypeOK'
    BY <1>1 DEF Exit, PipelineInv, PipelineTypeOK, LifecycleTypeOK, Phases
<1>4. NoRequest \in Request
    BY DEF NoRequest, Request, RouteIds, Methods, Statuses
<1>5. PipelineTypeOK'
    BY <1>1, <1>2, <1>3, <1>4 DEF PipelineInv, PipelineTypeOK
<1>6. \A p \in Requests : RequestInv(p)'
    BY <1>1, Ended
<1>7. ServerOK'
    BY <1>1 DEF Exit, ServerOK, NoRequest
<1> QED BY <1>2, <1>5, <1>6, <1>7 DEF PipelineInv

\* A start completes both schemas before anything else runs.
LEMMA ServerStartsKeeps ==
    ASSUME PipelineInv, ServerStarts
    PROVE  PipelineInv'
<1>1. StartUp /\ UNCHANGED <<users, sessions, cookie, holder, req, served, ended>>
    BY DEF ServerStarts, accountVars
<1>2. AccountsTypeOK' /\ AccountsOK'
    BY <1>1 DEF PipelineInv, PipelineTypeOK, AccountsTypeOK, AccountsOK, UsersUnique, SessionOwned,
                CookiesHeld, Held
<1>3. LifecycleTypeOK' /\ ServerOK'
    <2> USE <1>1 DEF PipelineInv, PipelineTypeOK, LifecycleTypeOK, Phases, ServerOK
    <2>1. CASE Bind
        BY <2>1, LifecycleAssumption DEF Bind
    <2>2. CASE GetPool
        BY <2>2 DEF GetPool
    <2>3. CASE SessionStore
        BY <2>3 DEF SessionStore
    <2>4. CASE SpawnTimerLoop
        BY <2>4, LifecycleAssumption DEF SpawnTimerLoop
    <2>5. CASE Run
        BY <2>5 DEF Run
    <2> QED BY <2>1, <2>2, <2>3, <2>4, <2>5 DEF StartUp
<1>4. PipelineTypeOK'
    BY <1>1, <1>2, <1>3 DEF PipelineInv, PipelineTypeOK
<1>5. TablesGrow
    BY <1>1 DEF TablesGrow
<1>6. \A p \in Requests : RequestInv(p)'
    BY <1>1, <1>5, OthersKept DEF PipelineInv
<1> QED BY <1>2, <1>3, <1>4, <1>6 DEF PipelineInv

LEMMA PipelineStart == Init => PipelineInv
<1> SUFFICES ASSUME Init PROVE PipelineInv
    OBVIOUS
<1>1. AccountsTypeOK /\ AccountsOK
    <2>1. /\ users = {}
          /\ sessions = [s \in SessionIds |-> NoUser]
          /\ cookie = [c \in Clients |-> NoSession]
          /\ holder = [s \in SessionIds |-> NoClient]
        BY DEF Init, AccountsInit
    <2>2. AccountsTypeOK
        BY <2>1 DEF AccountsTypeOK
    <2>3. UsersUnique
        BY <2>1 DEF UsersUnique
    <2>4. (\A s \in SessionIds : SessionOwned(s)) /\ CookiesHeld
        BY <2>1 DEF SessionOwned, CookiesHeld, Held
    <2> QED BY <2>2, <2>3, <2>4 DEF AccountsOK
<1>2. LifecycleTypeOK /\ ServerOK
    <2>1. phase = "down" /\ migrated = {} /\ ~loop /\ loop \in BOOLEAN /\ starts = 0
        BY DEF Init, LifecycleInit
    <2>2. \A r \in Requests : req[r].pc = "idle"
        BY DEF Init, NoRequest
    <2> QED BY <2>1, <2>2, LifecycleAssumption DEF LifecycleTypeOK, Phases, ServerOK
<1>3. NoRequest \in Request
    BY DEF NoRequest, Request, RouteIds, Methods, Statuses
<1>4. PipelineTypeOK
    BY <1>1, <1>2, <1>3, PipelineAssumption DEF Init, PipelineTypeOK
<1>5. Route[0].calls = "default_fallback"
    BY DEF Route, RouteIds, route_0
<1>6. RecordOK(NoRequest)
    BY <1>5 DEF RecordOK, Grounded, Held, HasRow, Ordered, SetsSession, Answered, CheckedFirst, NoRequest
<1>7. \A r \in Requests : RequestInv(r)
    BY <1>6 DEF Init, RecordOK, RequestInv
<1> QED BY <1>1, <1>2, <1>4, <1>7 DEF PipelineInv

LEMMA PipelineStep == PipelineInv /\ [Next]_pipelineVars => PipelineInv'
<1> SUFFICES ASSUME PipelineInv, [Next]_pipelineVars PROVE PipelineInv'
    OBVIOUS
<1>1. ASSUME NEW r \in Requests, RequestStep(r) PROVE PipelineInv'
    BY <1>1, CheckInKeeps, InputKeeps, SigninKeeps, SignupInsertKeeps, InsertUserIdKeeps, HandlerKeeps,
       FinalizeKeptKeeps, FinalizeSetKeeps, FinalizeLeftKeeps, InjectKeeps, DisconnectKeeps
    DEF RequestStep
<1>2. CASE UNCHANGED pipelineVars
    <2>1. UNCHANGED <<users, sessions, cookie, holder, phase, migrated, loop, starts, req, served, ended>>
        BY <1>2 DEF pipelineVars, accountVars, lifecycleVars
    <2>2. PipelineTypeOK' /\ AccountsOK' /\ ServerOK'
        BY <2>1 DEF PipelineInv, PipelineTypeOK, AccountsTypeOK, LifecycleTypeOK, AccountsOK,
                    UsersUnique, SessionOwned, CookiesHeld, Held, ServerOK
    <2>3. \A p \in Requests : RequestInv(p)'
        BY <2>1, OthersKept DEF PipelineInv, TablesGrow
    <2> QED BY <2>2, <2>3 DEF PipelineInv
<1> QED BY <1>1, <1>2, AcceptKeeps, ExpireKeeps, ServerExitsKeeps, ServerStartsKeeps DEF Next

\* Between any two statements of any requests, starts and stops.
LEMMA PipelineSafe == Spec => []PipelineInv
BY PipelineStart, PipelineStep, PTL DEF Spec

-----------------------------------------------------------------------------
(* What it gives.                                                          *)

\* Every variable of the pipeline keeps its type.
THEOREM PipelineTypeCorrect == Spec => []PipelineTypeOK
<1>1. PipelineInv => PipelineTypeOK
    BY DEF PipelineInv
<1> QED BY <1>1, PipelineSafe, PTL

\* Whatever requests of signup and signin race, fail halfway or are dropped, a
\* session is only that of a user whose password its holder chose.
THEOREM SessionsAreOwn == Spec => []SignedInAsOwn
<1>1. ASSUME PipelineInv PROVE SignedInAsOwn
    <2>1. \A r \in Requests : req[r].user # NoUser => \E u \in users : u.id = req[r].user
        BY <1>1, RecordFacts DEF RecordOK, Grounded
    <2> QED BY <1>1, <2>1 DEF PipelineInv, AccountsOK, SessionOwned, SignedInAsOwn
<1> QED BY <1>1, PipelineSafe, PTL

\* A signup that is told "ok" has the only row of its email and, like a signin
\* that is told "ok", a stored session; "conflict" means that the email has a row.
THEOREM AnswersAreTrue == Spec => []AnswersTrue
<1>1. ASSUME PipelineInv PROVE AnswersTrue
    <2> SUFFICES ASSUME NEW r \in Requests, req[r].pc = "inject", Calls(r) \in {"signin", "signup"}
                 PROVE  /\ req[r].status = "ok" =>
                             /\ \E s \in req[r].jar : s \in ended \/ UserIn(s) # NoUser
                             /\ {u \in users : u.email = req[r].email} =
                                  {[id |-> req[r].user, email |-> req[r].email, secret |-> req[r].client]}
                        /\ req[r].status = "conflict" => Taken(req[r].email)
        BY DEF AnswersTrue
    <2>1. RecordOK(req[r])
        BY <1>1, RecordFacts
    <2>2. req[r].status = "conflict" => Taken(req[r].email)
        BY <2>1 DEF RecordOK, Answered
    <2>3. ASSUME req[r].status = "ok"
          PROVE  \E s \in req[r].jar : s \in ended \/ UserIn(s) # NoUser
        BY <2>1, <2>3 DEF RecordOK, Ordered, Answered, SetsSession, Calls
    <2>4. ASSUME req[r].status = "ok"
          PROVE  {u \in users : u.email = req[r].email} =
                    {[id |-> req[r].user, email |-> req[r].email, secret |-> req[r].client]}
        <3> DEFINE row == [id |-> req[r].user, email |-> req[r].email, secret |-> req[r].client]
        <3>1. row \in users
            BY <2>1, <2>4 DEF RecordOK, Ordered, Grounded, HasRow, SetsSession, Calls
        <3>2. \A u \in users : u.email = row.email => u = row
            BY <1>1, <3>1 DEF PipelineInv, AccountsOK, UsersUnique
        <3>3. row.email = req[r].email
            OBVIOUS
        <3> QED BY <3>1, <3>2, <3>3
    <2> QED BY <2>2, <2>3, <2>4
<1> QED BY <1>1, PipelineSafe, PTL

\* Nothing is looked at or done for a request without a checked-in user, unless
\* its handler is public.
THEOREM CheckedBeforeAnything == Spec => []NothingBeforeCheckIn
<1>1. ASSUME PipelineInv PROVE NothingBeforeCheckIn
    BY <1>1, RecordFacts DEF RecordOK, CheckedFirst, NothingBeforeCheckIn, InFlight, Calls
<1> QED BY <1>1, PipelineSafe, PTL

\* Whatever the path: one row answers, and "method not allowed" names exactly the
\* methods that some module serves there.
THEOREM RoutesAreExact == Spec => []DispatchExact
<1>1. DispatchExact
    BY PathExact, OneRow DEF DispatchExact
<1> QED BY <1>1, PTL

\* However often the server is started, killed or fails to start, no request and
\* no timer loop meets a database whose schemas are not complete.
THEOREM TablesAreReady == Spec => []TablesReady
<1>1. ASSUME PipelineInv PROVE TablesReady
    BY <1>1 DEF PipelineInv, PipelineTypeOK, LifecycleTypeOK, ServerOK, TablesReady, InFlight
<1> QED BY <1>1, PipelineSafe, PTL

\* The accounts and sessions do nothing but what Membership promises.
THEOREM MembersKept == Spec => KeepsMembership
<1>1. Init => M!Init
    BY DEF Init, AccountsInit, M!Init
<1>2. ASSUME PipelineInv, [Next]_pipelineVars
      PROVE  [M!Next]_(M!memberVars)
    <2> USE DEF M!memberVars
    <2>1. ASSUME NEW s \in SessionIds \cup {NoSession}, Forget(s), UNCHANGED <<users, holder>>
          PROVE  [M!Next]_(M!memberVars)
        <3>1. CASE s = NoSession
            <4>1. sessions' = sessions
                BY <1>2, <2>1, <3>1, NamesAssumption DEF Forget, PipelineInv, PipelineTypeOK, AccountsTypeOK
            <4> QED BY <2>1, <4>1
        <3>2. CASE s \in SessionIds
            <4>1. sessions' = [sessions EXCEPT ![s] = NoUser]
                BY <1>2, <2>1, <3>2 DEF Forget, PipelineInv, PipelineTypeOK, AccountsTypeOK
            <4> QED BY <2>1, <3>2, <4>1 DEF M!Next, M!Leave
        <3> QED BY <3>1, <3>2
    <2>2. ASSUME NEW r \in Requests, RequestStep(r)
          PROVE  [M!Next]_(M!memberVars)
        <3>1. req[r] \in Request /\ RecordOK(req[r])
            BY <1>2, RecordFacts
        <3>2. CASE SignupInsert(r)
            <4>1. req[r].email \in Emails /\ req[r].client \in Clients
                BY <3>1, <3>2 DEF SignupInsert, Handling, Called, RecordOK, Ordered, SetsSession,
                                  Grounded, Calls
            <4>2. UNCHANGED <<sessions, holder>>
                BY <3>2 DEF SignupInsert
            <4>3. ASSUME NEW id \in UserIds, InsertUser(id, req[r].email, req[r].client)
                  PROVE  M!Join(id, req[r].email, req[r].client)
                BY <4>2, <4>3 DEF InsertUser, Taken, M!Join
            <4> QED BY <3>2, <4>1, <4>2, <4>3 DEF SignupInsert, M!Next
        <3>3. CASE FinalizeKept(r)
            <4>1. req[r].client \in Clients /\ UNCHANGED <<users, sessions>>
                BY <3>1, <3>3 DEF FinalizeKept, RecordOK, Grounded
            <4>2. ASSUME NEW s \in SessionIds, Issue(s, req[r].client)
                  PROVE  M!Open(s, req[r].client)
                BY <4>1, <4>2 DEF Issue, M!Open
            <4> QED BY <3>3, <4>1, <4>2 DEF FinalizeKept, M!Next
        <3>4. CASE FinalizeSet(r)
            <4>1. /\ req[r].client \in Clients /\ HasRow(req[r]) /\ UNCHANGED users
                  /\ Held(req[r].sid, req[r].client)
                BY <3>1, <3>4 DEF FinalizeSet, RecordOK, Grounded
            <4>2. ASSUME NEW s \in SessionIds, StoredUnder(r, s), Enter(s, req[r].user)
                  PROVE  M!Enter(s, req[r].client)
                <5>1. /\ holder[s] \in {NoClient, req[r].client}
                      /\ holder' = [holder EXCEPT ![s] = req[r].client]
                    BY <1>2, <4>1, <4>2, NamesAssumption
                    DEF StoredUnder, Held, Issue, PipelineInv, PipelineTypeOK, AccountsTypeOK
                <5>2. \E u \in users : u.secret = req[r].client
                                       /\ sessions' = [sessions EXCEPT ![s] = u.id]
                    BY <4>1, <4>2 DEF HasRow, Enter
                <5> QED BY <4>1, <5>1, <5>2 DEF M!Enter
            <4> QED BY <3>4, <4>1, <4>2 DEF FinalizeSet, M!Next
        <3>5. CASE FinalizeLeft(r)
            BY <2>1, <3>1, <3>5 DEF FinalizeLeft, Request
        <3>6. CASE ~(SignupInsert(r) \/ FinalizeKept(r) \/ FinalizeSet(r) \/ FinalizeLeft(r))
            BY <2>2, <3>6
            DEF RequestStep, CheckIn, ExtractTheme, ExtractInput, SigninLookup, SigninVerify,
                InsertUserId, Logout, Fallback, OtherHandler, LateBadCookies, Inject, Disconnect,
                accountVars
        <3> QED BY <3>2, <3>3, <3>4, <3>5, <3>6
    <2>3. ASSUME NEW s \in SessionIds, Expire(s)
          PROVE  [M!Next]_(M!memberVars)
        BY <2>1, <2>3 DEF Expire
    <2>4. ASSUME ServerStarts \/ ServerExits \/ UNCHANGED pipelineVars
          PROVE  [M!Next]_(M!memberVars)
        BY <2>4 DEF ServerStarts, ServerExits, pipelineVars, accountVars
    <2>5. ASSUME NEW r \in Requests, NEW c, NEW e, NEW t, Accept(r, c, t, e)
          PROVE  [M!Next]_(M!memberVars)
        BY <2>5 DEF Accept, accountVars
    <2> QED BY <1>2, <2>2, <2>3, <2>4, <2>5 DEF Next
<1> QED BY <1>1, <1>2, PipelineSafe, PTL DEF Spec, KeepsMembership, M!Spec
=============================================================================
