-------------------------- MODULE TimerMovesProofs --------------------------
(***************************************************************************)
(* Proofs about what the timer service does to tokens: each token moves at *)
(* most once, no task is marked advanced while its token waits, and the    *)
(* service as a whole implements the alarms of module Alarms.              *)
(*                                                                         *)
(* The engine saves the whole token set of an instance as it loaded it, so *)
(* they hold only if nobody else saves that instance in between:           *)
(* either a definition never has two tokens in one instance (NoSplit), or  *)
(* there is one server (OneServer).  With neither, the run split_lost_move *)
(* shows the lost update.                                                  *)
(***************************************************************************)
EXTENDS TimerServiceProofs

\* No parallel gateway: a token that leaves a node arrives at one node.
NoSplit ==
    /\ \A n \in Nodes : \A m1, m2 \in Flow[n] : m1 = m2
    /\ \A m1, m2 \in First : m1 = m2
    /\ \A k, m \in Parked : k.inst = m.inst => k = m

OneServer == \A s1, s2 \in Servers : s1 = s2

Waits(t, toks) == TokenIn(t, toks, {"Waiting"})

\* The tokens in the table and in the copies of the engine calls.
Known == tokens \cup UNION {eng[p].snap.toks : p \in Procs}

\* A server calls the engine for the task it holds the lock of; any other call
\* starts an instance and has loaded nothing.
CallInv ==
    \A p \in Procs : ~Off(p) =>
        \/ p \notin Servers /\ eng[p].id = NoId /\ eng[p].snap.toks = {}
        \/ p \in Servers /\ srv[p].pc = "engine" /\ eng[p].id = Cur(p)

\* A call has a copy of its instance's tokens just before it saves, with the
\* token it is about to move.
SnapInv ==
    \A p \in Procs :
        /\ \A k \in eng[p].snap.toks : k.inst = eng[p].inst
        /\ eng[p].pc # "save" => eng[p].snap.toks = {}
        /\ eng[p].pc = "save" /\ eng[p].id # NoId => Movable(p, eng[p].snap.toks) # {}

\* An identifier stays with one instance and one node, in the tables and in
\* every copy; only a running instance has waiting tokens.
TokenInv ==
    /\ \A k \in Known : k.id \in used /\ tasks[k.id].inst \in {NoInstance, k.inst}
    /\ \A k, m \in Known : k.id = m.id => k.inst = m.inst /\ k.node = m.node
    /\ \A k \in Known, p \in Procs : k.id \in eng[p].made => k.inst = eng[p].inst
    /\ \A k \in tokens : k.status = "Waiting" => inst[k.inst] = "Running"

SingleInv ==
    /\ \A k, m \in tokens : k.inst = m.inst => k = m
    /\ \A p \in Procs : \A k, m \in eng[p].snap.toks : k = m

\* A token that waits, in the table or in a copy, has never moved, and its
\* task is not marked.
FireInv ==
    /\ \A t \in Ids : fired[t] <= 1 /\ (t \notin used => fired[t] = 0)
    /\ \A k \in Known : k.status = "Waiting" => fired[k.id] = 0 /\ ~tasks[k.id].advanced

\* Who is about to mark a task has seen that its token does not wait.
MarkInv ==
    \A s \in Servers :
        \/ srv[s].pc = "mark"
        \/ srv[s].pc = "tokens" /\ srv[s].seen # "Running"
        => ~Waits(Cur(s), tokens)

DataInv == SnapInv /\ TokenInv /\ FireInv /\ (NoSplit => SingleInv)
MoveInv == DataInv /\ CallInv /\ MarkInv

-----------------------------------------------------------------------------
(* The data, step by step.                                                 *)

\* Statements that neither mark a task nor give a row another instance.
RowsQuiet ==
    \A t \in Ids :
        /\ tasks'[t].inst = tasks[t].inst
        /\ tasks'[t].advanced => tasks[t].advanced

\* A call goes on, begins or ends without a copy of any token.
CallQuiet(p) ==
    /\ eng'[p].snap.toks = {}
    /\ eng'[p].made \subseteq eng[p].made
    /\ eng'[p].made # {} => eng'[p].inst = eng[p].inst
    /\ eng'[p].pc = "save" => eng'[p].id = NoId

CallsQuiet == \A p \in Procs : eng'[p] = eng[p] \/ CallQuiet(p)

LEMMA KnownTyped ==
    ASSUME EngineOK
    PROVE  Known \subseteq Token /\ \A k \in Known : k.id \in Ids /\ k.inst \in Instances
<1>1. \A p \in Procs : eng[p].snap.toks \subseteq Token
  BY DEF EngineOK, Call, Snapshot
<1>2. Known \subseteq Token
  BY <1>1 DEF Known, EngineOK, StoreTypeOK
<1> QED  BY <1>2 DEF Token

\* Tokens disappear from the table and copies are dropped, instances stop.
LEMMA QuietData ==
    ASSUME EngineOK, DataInv, RowsQuiet, CallsQuiet,
           tokens' \subseteq tokens, UNCHANGED <<used, fired>>,
           \A k \in tokens' : inst'[k.inst] = inst[k.inst]
    PROVE  DataInv'
<1>1. \A p \in Procs : eng'[p].snap.toks \subseteq eng[p].snap.toks
  BY DEF CallsQuiet, CallQuiet
<1>2. Known' \subseteq Known
  BY <1>1 DEF Known
<1>3. \A k \in Known : k.id \in Ids
  BY KnownTyped
<1>4. SnapInv'
  <2>1. ASSUME NEW p \in Procs, eng'[p] = eng[p]
        PROVE  /\ \A k \in eng'[p].snap.toks : k.inst = eng'[p].inst
               /\ eng'[p].pc # "save" => eng'[p].snap.toks = {}
               /\ eng'[p].pc = "save" /\ eng'[p].id # NoId
                  => Movable(p, eng[p].snap.toks)' # {}
    BY <2>1 DEF DataInv, SnapInv, Movable
  <2>2. ASSUME NEW p \in Procs, CallQuiet(p)
        PROVE  /\ \A k \in eng'[p].snap.toks : k.inst = eng'[p].inst
               /\ eng'[p].pc # "save" => eng'[p].snap.toks = {}
               /\ eng'[p].pc = "save" /\ eng'[p].id # NoId
                  => Movable(p, eng[p].snap.toks)' # {}
    BY <2>2 DEF CallQuiet
  <2> QED  BY <2>1, <2>2 DEF SnapInv, CallsQuiet
<1>5. TokenInv'
  <2>1. \A k \in Known' : k.id \in used' /\ tasks'[k.id].inst \in {NoInstance, k.inst}
    BY <1>2, <1>3 DEF DataInv, TokenInv, RowsQuiet
  <2>2. \A k, m \in Known' : k.id = m.id => k.inst = m.inst /\ k.node = m.node
    BY <1>2 DEF DataInv, TokenInv
  <2>3. \A k \in Known', p \in Procs : k.id \in eng'[p].made => k.inst = eng'[p].inst
    BY <1>2 DEF DataInv, TokenInv, CallsQuiet, CallQuiet
  <2>4. \A k \in tokens' : k.status = "Waiting" => inst'[k.inst] = "Running"
    BY DEF DataInv, TokenInv
  <2> QED  BY <2>1, <2>2, <2>3, <2>4 DEF TokenInv
<1>6. FireInv'
  BY <1>2, <1>3 DEF DataInv, FireInv, RowsQuiet
<1>7. NoSplit => SingleInv'
  BY <1>1 DEF DataInv, SingleInv
<1> QED  BY <1>4, <1>5, <1>6, <1>7 DEF DataInv

\* The engine takes its copy of the instance's tokens.
LEMMA LoadedData ==
    ASSUME EngineOK, DataInv, NEW p \in Procs, EngineLoadTokens(p)
    PROVE  DataInv'
<1> DEFINE toks == TokensOf(eng[p].inst)
<1>1. eng[p] \in Call /\ eng \in [Procs -> Call]
  BY DEF EngineOK
<1>2. CASE Return(p)
  <2>1. CallsQuiet
    BY <1>1, <1>2 DEF CallsQuiet, CallQuiet, Return, NoCall, NoSnapshot
  <2> QED  BY <2>1, QuietData DEF EngineLoadTokens, RowsQuiet
<1>3. CASE Movable(p, toks) # {} /\ eng' = [eng EXCEPT ![p].pc = "save", ![p].snap.toks = toks]
  <2>1. toks \subseteq tokens /\ \A k \in toks : k.inst = eng[p].inst
    BY DEF TokensOf
  <2> HIDE DEF toks
  <2>2. /\ eng'[p].pc = "save" /\ eng'[p].id = eng[p].id /\ eng'[p].inst = eng[p].inst
        /\ eng'[p].snap.toks = toks /\ eng'[p].made = eng[p].made
        /\ \A q \in Procs : q # p => eng'[q] = eng[q]
    BY <1>1, <1>3 DEF Call, Snapshot
  <2>3. Known' \subseteq Known
    BY <2>1, <2>2 DEF Known, EngineLoadTokens
  <2>4. SnapInv'
    <3>1. Movable(p, eng[p].snap.toks)' # {}
      BY <1>3, <2>2 DEF Movable
    <3>2. ASSUME NEW q \in Procs, q # p
          PROVE  /\ \A k \in eng'[q].snap.toks : k.inst = eng'[q].inst
                 /\ eng'[q].pc # "save" => eng'[q].snap.toks = {}
                 /\ eng'[q].pc = "save" /\ eng'[q].id # NoId
                    => Movable(q, eng[q].snap.toks)' # {}
      BY <2>2, <3>2 DEF DataInv, SnapInv, Movable
    <3> QED  BY <2>1, <2>2, <3>1, <3>2 DEF SnapInv
  <2>5. \A q \in Procs : eng'[q].made = eng[q].made /\ eng'[q].inst = eng[q].inst
    BY <2>2
  <2>6. TokenInv' /\ FireInv'
    BY <2>3, <2>5 DEF DataInv, TokenInv, FireInv, EngineLoadTokens
  <2>7. NoSplit => SingleInv'
    BY <2>1, <2>2 DEF DataInv, SingleInv, EngineLoadTokens
  <2> QED  BY <2>4, <2>6, <2>7 DEF DataInv
<1> QED  BY <1>2, <1>3 DEF EngineLoadTokens

\* create: the row gets the instance of the token it is for.
LEMMA CreatedData ==
    ASSUME EngineOK, DataInv, NEW p \in Procs, EngineCreate(p)
    PROVE  DataInv'
<1>1. eng[p] \in Call /\ eng \in [Procs -> Call]
  BY DEF EngineOK
<1>2. CASE inst[eng[p].inst] = "none"
  <2>1. CallsQuiet
    BY <1>1, <1>2 DEF CallsQuiet, CallQuiet, EngineCreate, Return, NoCall, NoSnapshot
  <2> QED  BY <1>2, <2>1, QuietData DEF EngineCreate, RowsQuiet
<1>3. CASE inst[eng[p].inst] # "none"
  <2>1. PICK t \in eng[p].made :
            Create(t, eng[p].inst) /\ eng' = [eng EXCEPT ![p].made = @ \ {t}]
    BY <1>3 DEF EngineCreate
  <2>2. t \in Ids
    BY <1>1, <2>1 DEF Call
  <2>3. NewRow(eng[p].inst).inst = eng[p].inst /\ ~NewRow(eng[p].inst).advanced
    BY DEF NewRow, NoRow
  <2>4. \A u \in Ids : IF u = t THEN tasks'[u] = NewRow(eng[p].inst)
                                ELSE tasks'[u] = tasks[u]
    BY <2>1, <2>2 DEF Create, EngineOK, RowsInv, TasksTypeOK
  <2>5. /\ eng'[p].pc = eng[p].pc /\ eng'[p].id = eng[p].id /\ eng'[p].inst = eng[p].inst
        /\ eng'[p].snap = eng[p].snap /\ eng'[p].made \subseteq eng[p].made
        /\ \A q \in Procs : q # p => eng'[q] = eng[q]
    BY <1>1, <2>1 DEF Call
  <2>6. \A q \in Procs :
            /\ eng'[q].pc = eng[q].pc /\ eng'[q].id = eng[q].id /\ eng'[q].inst = eng[q].inst
            /\ eng'[q].snap = eng[q].snap /\ eng'[q].made \subseteq eng[q].made
    BY <2>5
  <2>7. UNCHANGED <<tokens, inst, used, fired>> /\ Known' = Known
    BY <2>6 DEF EngineCreate, Known
  <2>8. \A k \in Known : k.id \in Ids
    BY KnownTyped
  <2>9. SnapInv'
    <3>1. \A q \in Procs : Movable(q, eng[q].snap.toks)' = Movable(q, eng[q].snap.toks)
      BY <2>6 DEF Movable
    <3> QED  BY <2>6, <3>1 DEF DataInv, SnapInv
  <2>10. TokenInv'
    <3>1. \A k \in Known : tasks'[k.id].inst \in {NoInstance, k.inst}
      BY <2>1, <2>3, <2>4, <2>8 DEF DataInv, TokenInv
    <3> QED  BY <2>6, <2>7, <3>1 DEF DataInv, TokenInv
  <2>11. FireInv'
    BY <2>3, <2>4, <2>7, <2>8 DEF DataInv, FireInv
  <2>12. NoSplit => SingleInv'
    BY <2>6, <2>7 DEF DataInv, SingleInv
  <2> QED  BY <2>9, <2>10, <2>11, <2>12 DEF DataInv
<1> QED  BY <1>2, <1>3

-----------------------------------------------------------------------------
(* Save and mark: here it matters that nobody else has a copy.             *)

\* Inside the lock's transaction for a task, no other call has a copy of its
\* token: without splits a call's copy is the token the caller holds the lock
\* of, and a single server has no other call.
LEMMA NoOtherCopy ==
    ASSUME NoSplit \/ OneServer, IndInv, MoveInv,
           NEW s \in Servers, srv[s].pc \in Holding,
           NEW q \in Procs, q # s, NEW k \in eng[q].snap.toks
    PROVE  k.id # Cur(s)
<1>1. eng[q].pc = "save" /\ ~Off(q)
  BY DEF MoveInv, DataInv, SnapInv, Off
<1>2. q \in Servers /\ srv[q].pc = "engine" /\ eng[q].id = Cur(q)
  BY <1>1 DEF MoveInv, CallInv
<1>3. NoSplit
  BY <1>2 DEF OneServer
<1>4. Cur(q) \in Ids
  BY <1>2 DEF IndInv, LoopInv, Done, Holding
<1>5. Movable(q, eng[q].snap.toks) # {}
  BY <1>1, <1>2, <1>4, NoIdAssumption DEF MoveInv, DataInv, SnapInv
<1>6. k.id = eng[q].id
  BY <1>3, <1>5 DEF MoveInv, DataInv, SingleInv, Movable
<1>7. Cur(q) # Cur(s)
  BY <1>2, ServersAssumption DEF IndInv, LockInv, Key, Holding
<1> QED  BY <1>2, <1>6, <1>7

\* What EngineSave(p) does, with fresh identifiers f for the tokens arriving.
Saves(p, f) ==
    /\ eng[p].pc = "save"
    /\ f \in [Targets(p) -> Ids \ used]
    /\ Fresh(f)
    /\ Save(eng[p].inst, Moved(p, f))
    /\ used' = used \cup {f[n] : n \in Targets(p)}
    /\ eng' = [eng EXCEPT ![p].pc = "create",
                          ![p].snap = NoSnapshot,
                          ![p].made = {f[n] : n \in Targets(p) \cap Timers}]
    /\ fired' = [id \in Ids |-> IF id = eng[p].id THEN fired[id] + 1 ELSE fired[id]]
    /\ UNCHANGED tasks

\* Who saves: a request that starts an instance, or the server that holds the
\* lock of the task, with the token of the task in its copy.
LEMMA SaverHolds ==
    ASSUME IndInv, MoveInv, NEW p \in Procs, eng[p].pc = "save",
           NEW M, M = Movable(p, eng[p].snap.toks)
    PROVE  \/ eng[p].id = NoId /\ p \notin Servers /\ eng[p].snap.toks = {}
           \/ /\ p \in Servers /\ srv[p].pc = "engine" /\ eng[p].id = Cur(p)
              /\ Cur(p) \in Ids /\ M # {}
              /\ \A k \in M : k.id = eng[p].id /\ k.status = "Waiting" /\ k.node \notin Stuck
<1>1. CASE p \notin Servers
  BY <1>1 DEF Off, MoveInv, CallInv
<1>2. CASE p \in Servers
  <2>1. srv[p].pc = "engine" /\ eng[p].id = Cur(p)
    BY <1>2 DEF Off, MoveInv, CallInv
  <2>2. Cur(p) \in Ids
    BY <1>2, <2>1 DEF IndInv, LoopInv, Done, Holding
  <2> QED  BY <1>2, <2>1, <2>2, NoIdAssumption DEF MoveInv, DataInv, SnapInv, Movable
<1> QED  BY <1>1, <1>2

LEMMA SavesSomewhere == \A p : EngineSave(p) => \E f : Saves(p, f)
  BY DEF EngineSave, Saves

\* The tokens of the copy that stay.
Left(p) == eng[p].snap.toks \ Movable(p, eng[p].snap.toks)

\* Where the tokens of the new state come from.
LEMMA SavedTokens ==
    ASSUME EngineOK, NEW p \in Procs, NEW f, Saves(p, f)
    PROVE  /\ tokens' = (tokens \ TokensOf(eng[p].inst)) \cup Left(p) \cup Arrive(eng[p].inst, f)
           /\ inst' = [inst EXCEPT ![eng[p].inst] =
                         IF Left(p) \cup Arrive(eng[p].inst, f) = {} THEN "Completed" ELSE "Running"]
           /\ Known' \subseteq (tokens \ TokensOf(eng[p].inst)) \cup Left(p)
                 \cup Arrive(eng[p].inst, f)
                 \cup UNION {eng[q].snap.toks : q \in Procs \ {p}}
           /\ eng'[p].pc = "create" /\ eng'[p].snap.toks = {} /\ eng'[p].inst = eng[p].inst
           /\ eng'[p].made = {f[n] : n \in Targets(p) \cap Timers}
           /\ \A q \in Procs : q # p => eng'[q] = eng[q]
<1>1. eng[p] \in Call /\ eng \in [Procs -> Call]
  BY DEF EngineOK
<1>2. /\ tokens' = (tokens \ TokensOf(eng[p].inst)) \cup Left(p) \cup Arrive(eng[p].inst, f)
      /\ inst' = [inst EXCEPT ![eng[p].inst] =
                    IF Left(p) \cup Arrive(eng[p].inst, f) = {} THEN "Completed" ELSE "Running"]
  BY DEF Saves, Save, Moved, Left
<1>3. /\ eng'[p].pc = "create" /\ eng'[p].snap.toks = {} /\ eng'[p].inst = eng[p].inst
      /\ eng'[p].made = {f[n] : n \in Targets(p) \cap Timers}
      /\ \A q \in Procs : q # p => eng'[q] = eng[q]
  BY <1>1 DEF Saves, Call, NoSnapshot
<1>4. Known' \subseteq (tokens \ TokensOf(eng[p].inst)) \cup Left(p)
                 \cup Arrive(eng[p].inst, f)
                 \cup UNION {eng[q].snap.toks : q \in Procs \ {p}}
  BY <1>2, <1>3 DEF Known
<1> QED  BY <1>2, <1>3, <1>4

\* The tokens that arrive have identifiers nobody has used, one each.
LEMMA ArrivingTokens ==
    ASSUME EngineOK, NEW p \in Procs, NEW f, Saves(p, f)
    PROVE  /\ \A k \in Arrive(eng[p].inst, f) :
                 /\ k.inst = eng[p].inst /\ k.id \in Ids \ used /\ k.id \in used'
                 /\ k.status = "Waiting" /\ k.node \in Targets(p) /\ f[k.node] = k.id
                 /\ Unborn(k.id)
           /\ \A k, m \in Arrive(eng[p].inst, f) : k.id = m.id => k = m
           /\ used \subseteq used'
           /\ {f[n] : n \in Targets(p) \cap Timers} \subseteq Ids \ used
<1>1. /\ f \in [Targets(p) -> Ids \ used] /\ Fresh(f)
      /\ used' = used \cup {f[n] : n \in Targets(p)}
  BY DEF Saves
<1>2. \A t \in Ids \ used : Unborn(t)
  BY DEF EngineOK, EngineInv
<1>3. \A k \in Arrive(eng[p].inst, f) : \E n \in Targets(p) :
          k = [inst |-> eng[p].inst, id |-> f[n], node |-> n, status |-> "Waiting"]
  BY <1>1 DEF Arrive
<1>4. \A k \in Arrive(eng[p].inst, f) :
                 /\ k.inst = eng[p].inst /\ k.id \in Ids \ used /\ k.id \in used'
                 /\ k.status = "Waiting" /\ k.node \in Targets(p) /\ f[k.node] = k.id
  BY <1>1, <1>3
<1>5. ASSUME NEW k \in Arrive(eng[p].inst, f), NEW m \in Arrive(eng[p].inst, f), k.id = m.id
      PROVE  k = m
  <2>1. PICK n \in Targets(p) :
          k = [inst |-> eng[p].inst, id |-> f[n], node |-> n, status |-> "Waiting"]
    BY <1>3
  <2>2. PICK o \in Targets(p) :
          m = [inst |-> eng[p].inst, id |-> f[o], node |-> o, status |-> "Waiting"]
    BY <1>3
  <2>3. n = o
    BY <1>1, <1>5, <2>1, <2>2 DEF Fresh
  <2> QED  BY <2>1, <2>2, <2>3
<1> QED  BY <1>1, <1>2, <1>4, <1>5

\* Without splits the token that leaves is the only one of the copy, and at
\* most one arrives.
LEMMA OneArrives ==
    ASSUME NoSplit, IndInv, MoveInv, NEW p \in Procs, NEW f, Saves(p, f)
    PROVE  /\ Left(p) = {}
           /\ \A k, m \in Arrive(eng[p].inst, f) : k = m
<1> DEFINE M == Movable(p, eng[p].snap.toks)
<1>1. \A k, m \in eng[p].snap.toks : k = m
  BY DEF MoveInv, DataInv, SingleInv
<1>2. M \subseteq eng[p].snap.toks
  BY DEF Movable
<1>3. eng[p].snap.toks = {} \/ M # {}
  BY SaverHolds DEF Saves
<1>4. Left(p) = {}
  BY <1>1, <1>2, <1>3 DEF Left
<1>5. \A n, o \in Targets(p) : n = o
  <2>1. CASE eng[p].id = NoId
    BY <2>1 DEF Targets, NoSplit
  <2>2. CASE eng[p].id # NoId
    <3>1. eng[p].snap.toks \subseteq Token
      BY DEF IndInv, TypeOK, EngineTypeOK, Call, Snapshot
    <3>2. \A k \in M : k.node \in Nodes
      BY <1>2, <3>1 DEF Token
    <3>3. ASSUME NEW n \in Targets(p), NEW o \in Targets(p) PROVE n = o
      <4>1. Targets(p) = UNION {Flow[k.node] : k \in M}
        BY <2>2 DEF Targets
      <4> HIDE DEF M
      <4>2. PICK k \in M : n \in Flow[k.node]
        BY <4>1
      <4>3. PICK m \in M : o \in Flow[m.node]
        BY <4>1
      <4>4. k = m
        BY <1>1, <1>2
      <4> QED  BY <3>2, <4>2, <4>3, <4>4 DEF NoSplit
    <3> QED  BY <3>3
  <2> QED  BY <2>1, <2>2
<1>6. ASSUME NEW k \in Arrive(eng[p].inst, f), NEW m \in Arrive(eng[p].inst, f) PROVE k = m
  <2>1. k.id = m.id
    BY <1>5, ArrivingTokens, IndInvParts
  <2> QED  BY <2>1, ArrivingTokens, IndInvParts
<1> QED  BY <1>4, <1>6

LEMMA SavedData ==
    ASSUME NoSplit \/ OneServer, IndInv, MoveInv, NEW p \in Procs, EngineSave(p)
    PROVE  DataInv'
<1>0. EngineOK
  BY IndInvParts
<1>1. PICK f : Saves(p, f)
  BY SavesSomewhere
<1>2. PICK i, A, M, L, O :
        /\ i = eng[p].inst
        /\ A = Arrive(eng[p].inst, f)
        /\ M = Movable(p, eng[p].snap.toks)
        /\ L = Left(p)
        /\ O = UNION {eng[q].snap.toks : q \in Procs \ {p}}
  OBVIOUS
<1>3. /\ tokens' = (tokens \ TokensOf(i)) \cup L \cup A
      /\ inst' = [inst EXCEPT ![i] = IF L \cup A = {} THEN "Completed" ELSE "Running"]
      /\ Known' \subseteq (tokens \ TokensOf(i)) \cup L \cup A \cup O
      /\ eng'[p].pc = "create" /\ eng'[p].snap.toks = {} /\ eng'[p].inst = i
      /\ eng'[p].made = {f[n] : n \in Targets(p) \cap Timers}
      /\ \A q \in Procs : q # p => eng'[q] = eng[q]
  BY SMTT(30), <1>0, <1>1, <1>2, SavedTokens
<1>4. /\ \A k \in A : /\ k.inst = i /\ k.id \in Ids \ used /\ k.id \in used'
                      /\ k.status = "Waiting" /\ Unborn(k.id)
      /\ \A k, m \in A : k.id = m.id => k = m
      /\ used \subseteq used'
  BY <1>0, <1>1, <1>2, ArrivingTokens
<1>5. /\ L \subseteq eng[p].snap.toks /\ M \subseteq eng[p].snap.toks
      /\ eng[p].snap.toks \subseteq Known /\ O \subseteq Known
      /\ \A k \in eng[p].snap.toks : k.inst = i
      /\ i \in Instances
  BY <1>0, <1>1, <1>2
     DEF Known, Movable, Left, MoveInv, DataInv, SnapInv, EngineOK, EngineInv, Saves, Off
<1>6. /\ \A k \in Known : k.id \in Ids /\ k.inst \in Instances
      /\ UNCHANGED tasks
      /\ fired' = [id \in Ids |-> IF id = eng[p].id THEN fired[id] + 1 ELSE fired[id]]
      /\ fired \in [Ids -> Nat]
  BY <1>0, <1>1, KnownTyped DEF Saves, EngineOK
<1>7. \A k \in Known' : k \in Known \/ k \in A
  BY <1>3, <1>5 DEF Known
<1>8. SnapInv'
  <2>1. ASSUME NEW q \in Procs, q # p
        PROVE  /\ \A k \in eng'[q].snap.toks : k.inst = eng'[q].inst
               /\ eng'[q].pc # "save" => eng'[q].snap.toks = {}
               /\ eng'[q].pc = "save" /\ eng'[q].id # NoId
                  => Movable(q, eng[q].snap.toks)' # {}
    BY <1>3, <2>1 DEF MoveInv, DataInv, SnapInv, Movable
  <2> QED  BY <1>3, <2>1 DEF SnapInv
<1>9. TokenInv'
  <2>1. \A k \in Known' : k.id \in used' /\ tasks'[k.id].inst \in {NoInstance, k.inst}
    BY <1>4, <1>6, <1>7 DEF MoveInv, DataInv, TokenInv, Unborn
  <2>2. \A k, m \in Known' : k.id = m.id => k.inst = m.inst /\ k.node = m.node
    <3>1. \A k \in Known : k.id \in used
      BY DEF MoveInv, DataInv, TokenInv
    <3> QED  BY <1>4, <1>7, <3>1 DEF MoveInv, DataInv, TokenInv
  <2>3. ASSUME NEW k \in Known', NEW q \in Procs, k.id \in eng'[q].made
        PROVE  k.inst = eng'[q].inst
    <3>1. CASE q = p
      <4>1. k.id \notin used
        BY <1>0, <1>1, <1>3, <2>3, <3>1, ArrivingTokens
      <4> QED  BY <1>3, <1>4, <1>7, <3>1, <4>1 DEF MoveInv, DataInv, TokenInv
    <3>2. CASE q # p
      <4>1. eng'[q] = eng[q] /\ k.id \in used
        BY <1>0, <1>3, <2>3, <3>2 DEF EngineOK, EngineInv
      <4> QED  BY <1>4, <1>7, <2>3, <4>1 DEF MoveInv, DataInv, TokenInv
    <3> QED  BY <3>1, <3>2
  <2>4. ASSUME NEW k \in tokens', k.status = "Waiting" PROVE inst'[k.inst] = "Running"
    <3>1. CASE k \in tokens \ TokensOf(i)
      <4>1. k.inst # i /\ inst[k.inst] = "Running" /\ k.inst \in Instances
        BY <1>6, <2>4, <3>1 DEF TokensOf, MoveInv, DataInv, TokenInv, Known
      <4> QED  BY <1>0, <1>3, <4>1 DEF EngineOK, StoreTypeOK
    <3>2. CASE k \in L \cup A
      BY <1>0, <1>3, <1>4, <1>5, <3>2 DEF EngineOK, StoreTypeOK
    <3> QED  BY <1>3, <3>1, <3>2
  <2> QED  BY <2>1, <2>2, <2>3, <2>4 DEF TokenInv
<1>10. \/ eng[p].id = NoId /\ p \notin Servers
       \/ /\ p \in Servers /\ srv[p].pc = "engine" /\ eng[p].id = Cur(p)
          /\ Cur(p) \in Ids /\ M # {}
          /\ \A k \in M : k.id = eng[p].id /\ k.status = "Waiting" /\ k.node \notin Stuck
  BY <1>1, <1>2, SaverHolds DEF Saves
\* Nothing that still waits has the identifier of the token that moved.
<1>11. \A k \in Known' : k.status = "Waiting" => k.id # eng[p].id
  <2>1. CASE eng[p].id = NoId
    BY <1>4, <1>6, <1>7, <2>1, NoIdAssumption
  <2>2. CASE eng[p].id # NoId
    <3>1. PICK m \in M : m.id = eng[p].id /\ m.status = "Waiting" /\ m.node \notin Stuck
      BY <1>10, <2>2
    <3>2. m \in Known /\ m.inst = i /\ m.id \in used
      BY <1>5, <3>1 DEF MoveInv, DataInv, TokenInv
    <3>3. ASSUME NEW k \in Known', k.status = "Waiting", k.id = eng[p].id PROVE FALSE
      <4>1. k \notin A
        BY <1>4, <3>1, <3>2, <3>3
      <4>2. k \in Known /\ k.inst = i /\ k.node = m.node
        BY <1>7, <3>1, <3>2, <3>3, <4>1 DEF MoveInv, DataInv, TokenInv
      <4>3. k \notin tokens \ TokensOf(i)
        BY <4>2 DEF TokensOf
      <4>4. k \notin L
        BY <1>2, <3>1, <3>3, <4>2 DEF Movable, Left
      <4>5. k \notin O
        <5>1. ASSUME NEW q \in Procs \ {p}, k \in eng[q].snap.toks PROVE FALSE
          BY <1>10, <2>2, <3>3, <5>1, NoOtherCopy DEF Holding
        <5> QED  BY <1>2, <5>1
      <4> QED  BY <1>3, <4>1, <4>3, <4>4, <4>5
    <3> QED  BY <3>3
  <2> QED  BY <2>1, <2>2
<1>12. FireInv'
  <2>1. eng[p].id \in Ids => fired[eng[p].id] = 0 /\ eng[p].id \in used
    <3>1. ASSUME eng[p].id \in Ids PROVE \E m \in M : m.id = eng[p].id /\ m.status = "Waiting"
      BY <1>10, <3>1, NoIdAssumption
    <3> QED  BY <1>5, <3>1 DEF MoveInv, DataInv, FireInv, TokenInv
  <2>2. ASSUME NEW t \in Ids PROVE fired'[t] <= 1 /\ (t \notin used' => fired'[t] = 0)
    <3>1. fired[t] <= 1 /\ (t \notin used => fired[t] = 0)
      BY DEF MoveInv, DataInv, FireInv
    <3>2. CASE t = eng[p].id
      BY <1>4, <1>6, <2>1, <3>2
    <3>3. CASE t # eng[p].id
      BY <1>4, <1>6, <3>1, <3>3
    <3> QED  BY <3>2, <3>3
  <2>3. ASSUME NEW k \in Known', k.status = "Waiting"
        PROVE  fired'[k.id] = 0 /\ ~tasks'[k.id].advanced
    <3>1. CASE k \in Known
      BY <1>6, <1>11, <2>3, <3>1 DEF MoveInv, DataInv, FireInv
    <3>2. CASE k \in A
      <4>1. fired[k.id] = 0 /\ k.id \in Ids
        BY <1>4, <3>2 DEF MoveInv, DataInv, FireInv
      <4>2. RowOK(tasks[k.id]) /\ tasks[k.id].inst \notin Instances /\ tasks[k.id] \in Row
        BY <1>0, <1>4, <3>2, <4>1, NoInstanceAssumption
           DEF EngineOK, RowsInv, RowsConsistent, TasksTypeOK, Unborn
      <4>3. ~tasks[k.id].advanced
        BY <4>2 DEF RowOK
      <4> QED  BY <1>6, <1>11, <2>3, <4>1, <4>3
    <3> QED  BY <1>7, <3>1, <3>2
  <2> QED  BY <2>2, <2>3 DEF FireInv
<1>13. NoSplit => SingleInv'
  <2>1. ASSUME NoSplit PROVE SingleInv'
    <3>1. L = {} /\ \A k, m \in A : k = m
      BY <1>0, <1>1, <1>2, <2>1, OneArrives
    <3>2. ASSUME NEW k \in tokens', NEW m \in tokens', k.inst = m.inst PROVE k = m
      <4>1. CASE k.inst = i
        <5>1. k \in A /\ m \in A
          BY <1>3, <3>1, <3>2, <4>1 DEF TokensOf
        <5> QED  BY <3>1, <5>1
      <4>2. CASE k.inst # i
        <5>1. k \in tokens /\ m \in tokens
          BY <1>3, <1>4, <3>1, <3>2, <4>2
        <5> QED  BY <2>1, <3>2, <5>1 DEF MoveInv, DataInv, SingleInv
      <4> QED  BY <4>1, <4>2
    <3>3. \A q \in Procs : \A k, m \in eng'[q].snap.toks : k = m
      BY <1>3, <2>1 DEF MoveInv, DataInv, SingleInv
    <3> QED  BY <3>2, <3>3 DEF SingleInv
  <2> QED  BY <2>1
<1> QED  BY <1>8, <1>9, <1>12, <1>13 DEF DataInv

\* The mark, by a server that has seen that the token does not wait.
LEMMA MarkedData ==
    ASSUME NoSplit \/ OneServer, IndInv, MoveInv,
           NEW s \in Servers, srv[s].pc = "mark", MarkAdvanced(Cur(s)),
           UNCHANGED <<inst, tokens, used, fired, eng>>
    PROVE  DataInv'
<1>1. /\ tasks \in [Ids -> Row]
      /\ \A u \in Ids : tasks'[u].inst = tasks[u].inst
      /\ \A u \in Ids : u # Cur(s) => tasks'[u] = tasks[u]
  BY DEF MarkAdvanced, Update, IndInv, TypeOK, EngineTypeOK, TasksTypeOK, Row
<1>2. \A p \in Procs : Movable(p, eng[p].snap.toks)' = Movable(p, eng[p].snap.toks)
  BY DEF Movable
<1>3. Known' = Known /\ \A k \in Known : k.id \in Ids
  BY KnownTyped, IndInvParts DEF Known
<1>4. SnapInv'
  BY <1>2 DEF MoveInv, DataInv, SnapInv
<1>5. TokenInv'
  BY <1>1, <1>3 DEF MoveInv, DataInv, TokenInv
<1>6. \A k \in Known : k.status = "Waiting" => k.id # Cur(s)
  <2>1. \A k \in tokens : k.status = "Waiting" => k.id # Cur(s)
    BY DEF MoveInv, MarkInv, Waits, TokenIn
  <2>2. ASSUME NEW q \in Procs, NEW k \in eng[q].snap.toks PROVE k.id # Cur(s)
    <3>1. CASE q = s
      BY <3>1, ServersAssumption DEF MoveInv, CallInv, DataInv, SnapInv, Off
    <3>2. CASE q # s
      BY <3>2, NoOtherCopy DEF Holding
    <3> QED  BY <3>1, <3>2
  <2> QED  BY <2>1, <2>2 DEF Known
<1>7. FireInv'
  BY <1>1, <1>3, <1>6 DEF MoveInv, DataInv, FireInv
<1>8. NoSplit => SingleInv'
  BY DEF MoveInv, DataInv, SingleInv
<1> QED  BY <1>4, <1>5, <1>7, <1>8 DEF DataInv

-----------------------------------------------------------------------------
(* The loops.                                                              *)

\* No statement but mark_advanced marks a row, and none moves a row to another
\* instance.
LEMMA QuietStatements ==
    ASSUME tasks \in [Ids -> Row],
           \/ UNCHANGED tasks
           \/ ReclaimExpired
           \/ \E w, S : LockReady(w, S)
           \/ \E t \in Ids : Complete(t)
           \/ \E t, w : Fail(t, w)
           \/ \E t \in Ids : BecomesDue(t) \/ LockExpires(t) \/ Settles(t)
    PROVE  RowsQuiet
<1>1. \A t \in Ids : tasks[t] \in Row
  OBVIOUS
<1>2. CASE UNCHANGED tasks
  BY <1>2 DEF RowsQuiet
<1>3. CASE ReclaimExpired
  BY <1>1, <1>3 DEF RowsQuiet, ReclaimExpired, Update, Row
<1>4. CASE \E w, S : LockReady(w, S)
  <2>1. PICK w, S : tasks' = [u \in Ids |->
                                IF u \in S
                                THEN [tasks[u] EXCEPT !.state = "LOCKED", !.owner = w,
                                                      !.expired = FALSE]
                                ELSE tasks[u]]
    BY <1>4 DEF LockReady, Update
  <2>2. \A r \in Row : LET l == [r EXCEPT !.state = "LOCKED", !.owner = w, !.expired = FALSE]
                       IN  l.inst = r.inst /\ l.advanced = r.advanced
    BY DEF Row
  <2> QED  BY <1>1, <2>1, <2>2 DEF RowsQuiet
<1>5. CASE \E t \in Ids : Complete(t)
  <2>1. PICK t, U :
          /\ t \in Ids
          /\ tasks' = [tasks EXCEPT ![t].state = "COMPLETED", ![t].older = U]
    BY <1>5 DEF Complete
  <2> QED  BY <1>1, <2>1 DEF RowsQuiet, Row
<1>6. CASE \E t, w : Fail(t, w)
  <2>1. PICK F : tasks' = [u \in Ids |-> IF u \in F THEN Failed(tasks[u]) ELSE tasks[u]]
    BY <1>6 DEF Fail, Update
  <2>2. \A r \in Row : Failed(r).inst = r.inst /\ Failed(r).advanced = r.advanced
    BY DEF Row, Failed
  <2> QED  BY <1>1, <2>1, <2>2 DEF RowsQuiet
<1>7. CASE \E t \in Ids : BecomesDue(t) \/ LockExpires(t) \/ Settles(t)
  BY <1>1, <1>7 DEF RowsQuiet, BecomesDue, LockExpires, Settles, Row
<1> QED  BY <1>2, <1>3, <1>4, <1>5, <1>6, <1>7

LEMMA RowsOnlyData ==
    ASSUME EngineOK, DataInv, RowsQuiet, UNCHANGED <<tables, eng>>
    PROVE  DataInv'
  BY QuietData DEF CallsQuiet, tables

\* A loop that does not work with the engine goes on.
LEMMA LoopGoesOn ==
    ASSUME MoveInv, srv \in [Servers -> Loop], NEW s \in Servers, srv[s].pc # "engine" \/ Off(s),
           \A r \in Servers : r # s => srv'[r] = srv[r],
           UNCHANGED <<tokens, eng>>,
           \/ srv'[s].pc = "mark"
           \/ srv'[s].pc = "tokens" /\ srv'[s].seen # "Running"
           => ~Waits(srv'[s].cur, tokens)
    PROVE  CallInv' /\ MarkInv'
<1>1. \A p \in Procs : p \in Servers /\ ~Off(p) => srv'[p] = srv[p]
  BY DEF MoveInv, CallInv
<1>2. CallInv'
  BY <1>1 DEF MoveInv, CallInv, Off, Cur
<1>3. MarkInv'
  BY DEF MoveInv, MarkInv, Waits, TokenIn, Cur
<1> QED  BY <1>2, <1>3

\* Nothing happens to the loops, and the calls are as before.
LEMMA LoopsWait ==
    ASSUME MoveInv, UNCHANGED <<tokens, eng, srv>>
    PROVE  CallInv' /\ MarkInv'
  BY DEF MoveInv, CallInv, MarkInv, Off, Cur, Waits, TokenIn

LEMMA GotoOther ==
    ASSUME srv \in [Servers -> Loop], NEW s \in Servers, NEW label, Goto(s, label)
    PROVE  /\ srv'[s].pc = label /\ srv'[s].cur = Cur(s) /\ srv'[s].seen = srv[s].seen
           /\ \A r \in Servers : r # s => srv'[r] = srv[r]
  BY DEF Goto, Loop, Cur

LEMMA NextTaskOther ==
    ASSUME srv \in [Servers -> Loop], NEW s \in Servers, NextTask(s)
    PROVE  srv'[s].pc = "next" /\ \A r \in Servers : r # s => srv'[r] = srv[r]
  BY DEF NextTask, Loop

LEMMA PollMoves ==
    ASSUME IndInv, MoveInv, NEW s \in Servers,
           \/ Reclaim(s) \/ LockDueTimers(s) \/ CompleteTask(s) \/ GetTask(s)
           \/ FailTask(s) \/ SelectUnadvanced(s) \/ Reconcile(s) \/ EndPoll(s)
    PROVE  MoveInv'
<1>1. /\ srv \in [Servers -> Loop] /\ EngineOK /\ tasks \in [Ids -> Row]
      /\ srv[s].todo \subseteq Ids
  BY IndInvParts DEF IndInv, TypeOK, EngineTypeOK, TasksTypeOK, Loop
<1>2. RowsQuiet /\ UNCHANGED <<tables, eng>>
  <2>1. \/ UNCHANGED tasks
        \/ ReclaimExpired
        \/ \E w, S : LockReady(w, S)
        \/ \E t \in Ids : Complete(t)
        \/ \E t, w : Fail(t, w)
    BY <1>1 DEF Reclaim, LockDueTimers, CompleteTask, GetTask, FailTask, SelectUnadvanced,
                Reconcile, EndPoll
  <2> QED  BY <1>1, <2>1, QuietStatements
           DEF Reclaim, LockDueTimers, CompleteTask, GetTask, FailTask, SelectUnadvanced,
               Reconcile, EndPoll
<1>3. srv[s].pc # "engine" /\ srv'[s].pc \notin {"mark", "tokens"}
      /\ \A r \in Servers : r # s => srv'[r] = srv[r]
  <2>1. CASE Reclaim(s) \/ GetTask(s)
    BY <1>1, <2>1, GotoOther DEF Reclaim, GetTask
  <2>2. CASE FailTask(s)
    BY <1>1, <2>2, NextTaskOther DEF FailTask
  <2>3. CASE LockDueTimers(s)
    <3>1. PICK S : srv' = [srv EXCEPT ![s].pc = "next", ![s].phase = "fire", ![s].todo = S]
      BY <2>3 DEF LockDueTimers
    <3>2. srv[s].pc # "engine" /\ srv[s] \in Loop
      BY <1>1, <2>3 DEF LockDueTimers
    <3> QED  BY <1>1, <3>1, <3>2 DEF Loop
  <2>4. CASE CompleteTask(s) \/ Reconcile(s)
    <3>1. PICK t, label : /\ label \in {"get", "fail", "try"}
                          /\ srv' = [srv EXCEPT ![s].pc = label, ![s].cur = t,
                                                ![s].todo = @ \ {t}]
      BY <2>4 DEF CompleteTask, Reconcile
    <3>2. srv[s].pc # "engine" /\ srv[s] \in Loop
      BY <1>1, <2>4 DEF CompleteTask, Reconcile
    <3> QED  BY <1>1, <3>1, <3>2 DEF Loop
  <2>6. CASE SelectUnadvanced(s)
    <3>1. PICK S : srv' = [srv EXCEPT ![s].phase = "reconcile", ![s].todo = S]
      BY <2>6 DEF SelectUnadvanced
    <3> QED  BY <1>1, <2>6, <3>1 DEF SelectUnadvanced, Loop
  <2>5. CASE EndPoll(s)
    BY <1>1, <2>5 DEF EndPoll, IdleLoop
  <2> QED  BY <2>1, <2>2, <2>3, <2>4, <2>5, <2>6
<1>4. DataInv'
  BY <1>1, <1>2, RowsOnlyData DEF MoveInv
<1>5. CallInv' /\ MarkInv'
  BY <1>1, <1>2, <1>3, LoopGoesOn DEF tables
<1> QED  BY <1>4, <1>5 DEF MoveInv

\* A token of the loop's task belongs to the task's instance.
LEMMA TokenOfTask ==
    ASSUME IndInv, MoveInv, NEW s \in Servers, srv[s].pc \in Holding,
           NEW k \in tokens, k.id = Cur(s)
    PROVE  k.inst = InstanceOf(Cur(s)) /\ k \in TokensOf(InstanceOf(Cur(s)))
<1>1. tasks[Cur(s)].inst \in Instances
  BY DEF IndInv, LoopInv, Done
<1>2. tasks[Cur(s)].inst \in {NoInstance, k.inst}
  BY DEF MoveInv, DataInv, TokenInv, Known
<1> QED  BY <1>1, <1>2, NoInstanceAssumption DEF InstanceOf, TokensOf

\* An engine step, of a loop or of a request.
LEMMA EngineMoves ==
    ASSUME NoSplit \/ OneServer, IndInv, MoveInv, NEW p \in Procs,
           EngineStep(p) \/ EngineError(p), UNCHANGED srv
    PROVE  MoveInv'
<1>1. EngineOK /\ eng[p] \in Call /\ eng \in [Procs -> Call]
  BY IndInvParts DEF EngineOK
<1>2. NoCall.snap.toks = {} /\ NoCall.made = {} /\ NoCall.pc = "off"
  BY DEF NoCall, NoSnapshot
<1>3. CASE EngineLoadRow(p)
  <2>1. /\ \A q \in Procs : q # p => eng'[q] = eng[q]
        /\ \/ eng'[p] = NoCall
           \/ /\ eng'[p].pc = "tokens" /\ eng'[p].id = eng[p].id
              /\ eng'[p].snap.toks = eng[p].snap.toks /\ eng'[p].made = eng[p].made
              /\ eng'[p].inst = eng[p].inst
    BY <1>1, <1>3 DEF EngineLoadRow, Return, Call, Snapshot
  <2>2. eng[p].snap.toks = {} /\ ~Off(p) /\ UNCHANGED <<tasks, inst, tokens, used, fired>>
    BY <1>3 DEF EngineLoadRow, MoveInv, DataInv, SnapInv, Off
  <2>3. DataInv'
    <3>1. CallsQuiet
      BY <1>2, <2>1, <2>2 DEF CallsQuiet, CallQuiet
    <3> QED  BY <1>1, <2>2, <3>1, QuietData DEF RowsQuiet, MoveInv
  <2>4. CallInv'
    BY <1>2, <2>1, <2>2 DEF MoveInv, CallInv, Off, Cur
  <2>5. MarkInv'
    BY <2>2 DEF MoveInv, MarkInv, Cur, Waits, TokenIn
  <2> QED  BY <2>3, <2>4, <2>5 DEF MoveInv
<1>4. CASE EngineLoadTokens(p)
  <2>1. DataInv'
    BY <1>1, <1>4, LoadedData DEF MoveInv
  <2>2. /\ \A q \in Procs : q # p => eng'[q] = eng[q]
        /\ \/ eng'[p] = NoCall
           \/ /\ eng'[p].id = eng[p].id /\ ~Off(p)
              /\ Movable(p, TokensOf(eng[p].inst)) # {}
    BY <1>1, <1>4 DEF EngineLoadTokens, Return, Call, Snapshot, Off
  <2>3. eng'[p] = NoCall \/ p \in Servers
    <3>1. \A k \in tokens : k.id # NoId
      BY <1>1, KnownTyped, NoIdAssumption DEF Known
    <3> QED  BY <2>2, <3>1 DEF MoveInv, CallInv, Movable, TokensOf
  <2>4. CallInv'
    BY <1>2, <2>2, <2>3 DEF MoveInv, CallInv, Off, Cur
  <2>5. MarkInv'
    BY <1>4 DEF EngineLoadTokens, MoveInv, MarkInv, Cur, Waits, TokenIn
  <2> QED  BY <2>1, <2>4, <2>5 DEF MoveInv
<1>5. CASE EngineSave(p)
  <2>1. DataInv'
    BY <1>5, SavedData
  <2>2. PICK f : Saves(p, f)
    BY <1>5, SavesSomewhere
  <2>3. /\ \A q \in Procs : q # p => eng'[q] = eng[q]
        /\ eng'[p].id = eng[p].id /\ eng'[p].snap.toks = {} /\ ~Off(p)
    BY <1>1, <2>2 DEF Saves, Call, NoSnapshot, Off
  <2>4. CallInv'
    BY <2>3 DEF MoveInv, CallInv, Off, Cur
  <2>5. MarkInv'
    <3>1. tokens' = (tokens \ TokensOf(eng[p].inst)) \cup Left(p) \cup Arrive(eng[p].inst, f)
      BY <1>1, <2>2, SavedTokens
    <3>2. ASSUME NEW s \in Servers,
                 \/ srv[s].pc = "mark"
                 \/ srv[s].pc = "tokens" /\ srv[s].seen # "Running",
                 NEW k \in tokens', k.id = Cur(s), k.status = "Waiting"
          PROVE  FALSE
      <4>1. ~Waits(Cur(s), tokens) /\ srv[s].pc \in Holding
        BY <3>2 DEF MoveInv, MarkInv, Holding
      <4>2. k \notin tokens
        BY <3>2, <4>1 DEF Waits, TokenIn
      <4>3. Cur(s) \in used
        <5>1. Done(Cur(s))
          BY <4>1 DEF IndInv, LoopInv
        <5> QED  BY <5>1, InstanceDistinct DEF IndInv, EngineInv, Done
      <4>4. k \notin Arrive(eng[p].inst, f)
        BY <1>1, <2>2, <3>2, <4>3, ArrivingTokens
      <4>5. k \in Left(p)
        BY <3>1, <4>2, <4>4
      <4>6. p \in Servers /\ srv[p].pc = "engine" /\ ~NoSplit
        <5>1. eng[p].snap.toks # {} /\ eng[p].pc = "save"
          BY <2>2, <4>5 DEF Left, Saves
        <5>2. ~NoSplit
          BY <2>2, <4>5, OneArrives
        <5> QED  BY <5>1, <5>2, SaverHolds
      <4> QED  BY <3>2, <4>6 DEF OneServer
    <3> QED  BY <3>2 DEF MarkInv, Waits, TokenIn, Cur
  <2> QED  BY <2>1, <2>4, <2>5 DEF MoveInv
<1>6. CASE EngineCreate(p)
  <2>1. DataInv'
    BY <1>1, <1>6, CreatedData DEF MoveInv
  <2>2. /\ \A q \in Procs : q # p => eng'[q] = eng[q]
        /\ \/ eng'[p] = NoCall
           \/ eng'[p].id = eng[p].id /\ eng'[p].snap = eng[p].snap /\ ~Off(p)
    BY <1>1, <1>6 DEF EngineCreate, Return, Call, Off
  <2>3. CallInv'
    BY <1>2, <2>2 DEF MoveInv, CallInv, Off, Cur
  <2>4. MarkInv'
    BY <1>6 DEF EngineCreate, MoveInv, MarkInv, Cur, Waits, TokenIn
  <2> QED  BY <2>1, <2>3, <2>4 DEF MoveInv
<1>7. CASE EngineReturn(p) \/ EngineError(p)
  <2>1. /\ \A q \in Procs : q # p => eng'[q] = eng[q]
        /\ eng'[p] = NoCall
        /\ UNCHANGED <<tasks, inst, tokens, used, fired>>
    BY <1>1, <1>7 DEF EngineReturn, EngineError, Return
  <2>2. DataInv'
    <3>1. CallsQuiet
      BY <1>2, <2>1 DEF CallsQuiet, CallQuiet
    <3> QED  BY <1>1, <2>1, <3>1, QuietData DEF RowsQuiet, MoveInv
  <2>3. CallInv'
    BY <1>2, <2>1 DEF MoveInv, CallInv, Off, Cur
  <2>4. MarkInv'
    BY <2>1 DEF MoveInv, MarkInv, Cur, Waits, TokenIn
  <2> QED  BY <2>2, <2>3, <2>4 DEF MoveInv
<1> QED  BY <1>3, <1>4, <1>5, <1>6, <1>7 DEF EngineStep

\* A call begins or ends; no copy is taken.
LEMMA CallData ==
    ASSUME EngineOK, DataInv, NEW p \in Procs, UNCHANGED <<tables, tasks>>,
           \/ Return(p)
           \/ \E i, id : CallCompleted(p, i, id)
           \/ UNCHANGED eng
    PROVE  DataInv'
<1>1. eng \in [Procs -> Call] /\ NoCall.snap.toks = {} /\ NoCall.made = {} /\ NoCall.pc = "off"
  BY DEF EngineOK, NoCall, NoSnapshot
<1>2. CallsQuiet
  <2>1. CASE Return(p)
    BY <1>1, <2>1 DEF Return, CallsQuiet, CallQuiet
  <2>2. CASE \E i, id : CallCompleted(p, i, id)
    <3>1. PICK i, id : CallCompleted(p, i, id)
      BY <2>2
    <3> QED  BY <1>1, <3>1 DEF CallCompleted, CallsQuiet, CallQuiet, NoCall, NoSnapshot
  <2> QED  BY <2>1, <2>2 DEF CallsQuiet
<1> QED  BY <1>2, QuietData DEF tables, RowsQuiet

\* Inside advance_after_task.
LEMMA AdvanceMoves ==
    ASSUME NoSplit \/ OneServer, IndInv, MoveInv, NEW s \in Servers, AdvanceStep(s)
    PROVE  MoveInv'
<1>1. /\ srv \in [Servers -> Loop] /\ EngineOK /\ s \in Procs /\ EngineOK /\ DataInv
      /\ eng \in [Procs -> Call]
  BY IndInvParts, ServersAssumption DEF IndInv, TypeOK, EngineOK, MoveInv
<1>2. CASE TryAdvisoryLock(s)
  <2>1. /\ srv'[s].pc \in {"check", "next"} /\ srv[s].pc # "engine"
        /\ \A r \in Servers : r # s => srv'[r] = srv[r]
    BY <1>1, <1>2, GotoOther, NextTaskOther DEF TryAdvisoryLock
  <2>2. CallInv' /\ MarkInv'
    BY <1>1, <1>2, <2>1, LoopGoesOn DEF TryAdvisoryLock, tables
  <2> QED  BY <1>1, <1>2, <2>2, CallData DEF TryAdvisoryLock, MoveInv
<1>3. CASE CheckAdvanced(s)
  <2>1. /\ srv'[s].pc \in {"row", "next"} /\ srv[s].pc # "engine"
        /\ \A r \in Servers : r # s => srv'[r] = srv[r]
    BY <1>1, <1>3, GotoOther, NextTaskOther DEF CheckAdvanced, LeaveAdvance
  <2>2. CallInv' /\ MarkInv'
    BY <1>1, <1>3, <2>1, LoopGoesOn DEF CheckAdvanced, tables
  <2> QED  BY <1>1, <1>3, <2>2, CallData DEF CheckAdvanced, MoveInv
<1>4. CASE LoadRow(s)
  <2> DEFINE state == InstanceRow(InstanceOf(Cur(s)))
  <2>1. /\ srv'[s].pc = IF state = "none" THEN "mark" ELSE "tokens"
        /\ srv'[s].seen = state /\ srv'[s].cur = Cur(s) /\ srv[s].pc = "row"
        /\ \A r \in Servers : r # s => srv'[r] = srv[r]
    BY <1>1, <1>4 DEF LoadRow, Loop, Cur
  <2>2. state # "Running" => ~Waits(Cur(s), tokens)
    <3>1. ASSUME NEW k \in tokens, k.id = Cur(s), k.status = "Waiting" PROVE state = "Running"
      <4>1. k.inst = InstanceOf(Cur(s))
        BY <2>1, <3>1, TokenOfTask DEF Holding
      <4> QED  BY <3>1, <4>1 DEF MoveInv, DataInv, TokenInv, InstanceRow
    <3> QED  BY <3>1 DEF Waits, TokenIn
  <2> HIDE DEF state
  <2>3. CallInv' /\ MarkInv'
    BY <1>1, <1>4, <2>1, <2>2, LoopGoesOn DEF LoadRow, tables
  <2> QED  BY <1>1, <1>4, <2>3, CallData DEF LoadRow, MoveInv
<1>5. CASE LoadTokens(s)
  <2> DEFINE i == InstanceOf(Cur(s))
  <2>1. srv[s].pc = "tokens" /\ Off(s) /\ UNCHANGED <<tables, tasks>>
    BY <1>1, <1>5 DEF LoadTokens, MoveInv, CallInv
  <2>2. DataInv'
    BY <1>1, <1>5, <2>1, CallData DEF LoadTokens
  <2>3. CASE Goto(s, "engine") /\ CallCompleted(s, i, Cur(s))
    <3>1. /\ srv'[s].pc = "engine" /\ srv'[s].cur = Cur(s)
          /\ \A r \in Servers : r # s => srv'[r] = srv[r]
      BY <1>1, <2>3, GotoOther
    <3>2. eng'[s].id = Cur(s) /\ \A q \in Procs : q # s => eng'[q] = eng[q]
      BY <1>1, <2>3 DEF CallCompleted, NoCall
    <3>3. CallInv'
      BY <3>1, <3>2 DEF MoveInv, CallInv, Off, Cur
    <3>4. MarkInv'
      BY <2>1, <3>1 DEF MoveInv, MarkInv, Cur, Waits, TokenIn, tables
    <3> QED  BY <2>2, <3>3, <3>4 DEF MoveInv
  <2>4. CASE /\ ~(srv[s].seen = "Running" /\ TokenIn(Cur(s), TokensOf(i), {"Waiting"}))
             /\ Goto(s, "mark") /\ UNCHANGED eng
    <3>1. /\ srv'[s].pc = "mark" /\ srv'[s].cur = Cur(s)
          /\ \A r \in Servers : r # s => srv'[r] = srv[r]
      BY <1>1, <2>4, GotoOther
    <3>2. ~Waits(Cur(s), tokens)
      <4>1. CASE srv[s].seen # "Running"
        BY <2>1, <4>1 DEF MoveInv, MarkInv
      <4>2. CASE ~TokenIn(Cur(s), TokensOf(i), {"Waiting"})
        BY <2>1, <4>2, TokenOfTask DEF Waits, TokenIn, Holding
      <4> QED  BY <2>4, <4>1, <4>2
    <3>3. CallInv' /\ MarkInv'
      BY <1>1, <2>1, <2>4, <3>1, <3>2, LoopGoesOn DEF tables
    <3> QED  BY <2>2, <3>3 DEF MoveInv
  <2> QED  BY <1>5, <2>3, <2>4 DEF LoadTokens
<1>6. CASE EngineStep(s) /\ UNCHANGED <<srv, advisory, faults>>
  BY <1>1, <1>6, EngineMoves
<1>7. CASE VerifyRow(s)
  <2>1. /\ srv'[s].pc = IF InstanceRow(InstanceOf(Cur(s))) = "none"
                        THEN "mark" ELSE "verifyTokens"
        /\ srv'[s].cur = Cur(s) /\ srv[s].pc = "engine"
        /\ \A r \in Servers : r # s => srv'[r] = srv[r]
    BY <1>1, <1>7, GotoOther DEF VerifyRow
  <2>2. srv'[s].pc = "mark" => ~Waits(Cur(s), tokens)
    BY <2>1, TokenOfTask
       DEF Waits, TokenIn, MoveInv, DataInv, TokenInv, InstanceRow, Holding
  <2>3. srv'[s].pc # "tokens"
    BY <2>1
  <2>4. CallInv' /\ MarkInv'
    BY <1>1, <1>7, <2>1, <2>2, <2>3, LoopGoesOn DEF VerifyRow, tables
  <2> QED  BY <1>1, <1>7, <2>4, CallData DEF VerifyRow, MoveInv
<1>8. CASE VerifyTokens(s)
  <2> DEFINE moved == ~TokenIn(Cur(s), TokensOf(InstanceOf(Cur(s))), {"Waiting", "Terminated"})
  <2>1. /\ srv'[s].pc = IF moved THEN "mark" ELSE "next"
        /\ moved => srv'[s].cur = Cur(s)
        /\ srv[s].pc = "verifyTokens"
        /\ \A r \in Servers : r # s => srv'[r] = srv[r]
    BY <1>1, <1>8, GotoOther, NextTaskOther DEF VerifyTokens, LeaveAdvance
  <2>2. moved => ~Waits(Cur(s), tokens)
    BY <2>1, TokenOfTask DEF Waits, TokenIn, Holding
  <2> HIDE DEF moved
  <2>3. CallInv' /\ MarkInv'
    BY <1>1, <1>8, <2>1, <2>2, LoopGoesOn DEF VerifyTokens, tables
  <2> QED  BY <1>1, <1>8, <2>3, CallData DEF VerifyTokens, MoveInv
<1>9. CASE Mark(s)
  <2>1. srv'[s].pc = "commit" /\ srv[s].pc = "mark"
        /\ \A r \in Servers : r # s => srv'[r] = srv[r]
    BY <1>1, <1>9, GotoOther DEF Mark
  <2>2. CallInv' /\ MarkInv'
    BY <1>1, <1>9, <2>1, LoopGoesOn DEF Mark, tables
  <2>3. DataInv'
    BY <1>9, MarkedData DEF Mark, tables
  <2> QED  BY <2>2, <2>3 DEF MoveInv
<1>10. CASE Commit(s)
  <2>1. /\ srv'[s].pc = "next" /\ srv[s].pc # "engine"
        /\ \A r \in Servers : r # s => srv'[r] = srv[r]
    BY <1>1, <1>10, NextTaskOther DEF Commit, LeaveAdvance
  <2>2. CallInv' /\ MarkInv'
    BY <1>1, <1>10, <2>1, LoopGoesOn DEF Commit, tables
  <2> QED  BY <1>1, <1>10, <2>2, CallData DEF Commit, MoveInv
<1> QED
  BY <1>2, <1>3, <1>4, <1>5, <1>6, <1>7, <1>8, <1>9, <1>10 DEF AdvanceStep

LEMMA FaultMoves ==
    ASSUME NoSplit \/ OneServer, IndInv, MoveInv, NEW s \in Servers, ServerFault(s)
    PROVE  MoveInv'
<1>1. /\ srv \in [Servers -> Loop] /\ EngineOK /\ s \in Procs /\ DataInv
      /\ eng \in [Procs -> Call] /\ tasks \in [Ids -> Row] /\ srv[s].todo \subseteq Ids
  BY IndInvParts, ServersAssumption
     DEF IndInv, TypeOK, EngineTypeOK, TasksTypeOK, EngineOK, MoveInv, Loop
<1>2. CASE Crash(s)
  <2>1. /\ \A r \in Servers : r # s => srv'[r] = srv[r]
        /\ srv'[s].pc = "idle"
        /\ \A q \in Procs : q # s => eng'[q] = eng[q]
        /\ eng'[s].pc = "off"
    BY <1>1, <1>2 DEF Crash, Return, NoCall, IdleLoop
  <2>2. CallInv'
    BY <2>1 DEF MoveInv, CallInv, Off, Cur
  <2>3. MarkInv'
    BY <1>2, <2>1 DEF Crash, MoveInv, MarkInv, Cur, Waits, TokenIn, tables
  <2>4. DataInv'
    BY <1>1, <1>2, CallData DEF Crash
  <2> QED  BY <2>2, <2>3, <2>4 DEF MoveInv
<1>3. CASE PollFails(s) \/ GetFails(s) \/ FailFails(s) \/ AdvanceFails(s)
  <2>1. /\ \A r \in Servers : r # s => srv'[r] = srv[r]
        /\ srv'[s].pc \in {"idle", "fail", "next"}
        /\ srv[s].pc # "engine" \/ Off(s)
    <3>1. CASE PollFails(s)
      BY <1>1, <3>1 DEF PollFails, IdleLoop
    <3>2. CASE GetFails(s)
      BY <1>1, <3>2, GotoOther DEF GetFails
    <3>3. CASE FailFails(s) \/ AdvanceFails(s)
      BY <1>1, <3>3, NextTaskOther DEF FailFails, AdvanceFails, LeaveAdvance
    <3> QED  BY <1>3, <3>1, <3>2, <3>3
  <2>2. UNCHANGED <<tables, tasks, eng>>
    BY <1>3 DEF PollFails, GetFails, FailFails, AdvanceFails
  <2>3. CallInv' /\ MarkInv'
    BY <1>1, <2>1, <2>2, LoopGoesOn DEF tables
  <2> QED  BY <1>1, <2>2, <2>3, CallData DEF MoveInv
<1>4. CASE CompleteFails(s)
  <2>1. PICK t \in srv[s].todo :
          /\ srv' = [srv EXCEPT ![s].pc = "fail", ![s].cur = t, ![s].todo = @ \ {t}]
          /\ \/ Complete(t)
             \/ UNCHANGED tasks
    BY <1>4 DEF CompleteFails
  <2>2. /\ \A r \in Servers : r # s => srv'[r] = srv[r]
        /\ srv'[s].pc = "fail" /\ srv[s].pc # "engine"
    BY <1>1, <1>4, <2>1 DEF CompleteFails, Loop
  <2>3. CallInv' /\ MarkInv'
    BY <1>1, <1>4, <2>2, LoopGoesOn DEF CompleteFails, tables
  <2>4. RowsQuiet
    BY <1>1, <2>1, QuietStatements
  <2> QED  BY <1>1, <1>4, <2>3, <2>4, RowsOnlyData DEF CompleteFails, MoveInv
<1>5. CASE EngineFails(s)
  BY <1>1, <1>5, EngineMoves DEF EngineFails
<1> QED  BY <1>2, <1>3, <1>4, <1>5 DEF ServerFault

LEMMA TimeMoves ==
    ASSUME IndInv, MoveInv, NEW t \in Ids, SlowHolder(t) \/ Time(t)
    PROVE  MoveInv'
<1>1. /\ BecomesDue(t) \/ LockExpires(t) \/ Settles(t)
      /\ UNCHANGED <<tables, eng, srv>>
  BY DEF SlowHolder, Time, AbandonedLockExpires, TimerDue, RowSettles
<1>2. RowsQuiet
  BY <1>1, QuietStatements DEF IndInv, TypeOK, EngineTypeOK, TasksTypeOK
<1>3. CallInv' /\ MarkInv'
  BY <1>1, LoopsWait DEF tables
<1> QED  BY <1>1, <1>2, <1>3, IndInvParts, RowsOnlyData DEF MoveInv

\* Every step of the timer service keeps MoveInv.
LEMMA MoveInvStep ==
    ASSUME NoSplit \/ OneServer, IndInv, MoveInv, TimerNext
    PROVE  MoveInv'
<1>1. ASSUME NEW s \in Servers, ServerStep(s) PROVE MoveInv'
  BY <1>1, PollMoves, AdvanceMoves DEF ServerStep
<1>2. ASSUME NEW s \in Servers, ServerFault(s) PROVE MoveInv'
  BY <1>2, FaultMoves
<1>3. ASSUME NEW t \in Ids, SlowHolder(t) \/ Time(t) PROVE MoveInv'
  BY <1>3, TimeMoves
<1> QED  BY <1>1, <1>2, <1>3 DEF TimerNext

LEMMA MoveInvUnchanged ==
    ASSUME IndInv, MoveInv, UNCHANGED vars
    PROVE  MoveInv'
<1>1. UNCHANGED <<tables, tasks, eng, srv>>
  BY DEF vars, engineVars, tables
<1>2. RowsQuiet
  BY <1>1 DEF RowsQuiet
<1>3. CallInv' /\ MarkInv'
  BY <1>1, LoopsWait DEF tables
<1> QED  BY <1>1, <1>2, <1>3, IndInvParts, RowsOnlyData DEF MoveInv

LEMMA MoveInvInit == Init => MoveInv
<1> SUFFICES ASSUME Init PROVE MoveInv
  OBVIOUS
<1>0. IndInv /\ EngineOK
  BY IndInvInit, IndInvParts
<1>1. NoCall.snap.toks = {} /\ NoCall.made = {} /\ NoCall.pc = "off"
  BY DEF NoCall, NoSnapshot
<1>2. \A p \in Procs : eng[p] = NoCall
  BY DEF Init
<1>3. Known = Parked
  BY <1>1, <1>2 DEF Known, Init
<1>4. SnapInv
  BY <1>1, <1>2 DEF SnapInv
<1>5. \A k \in Parked : /\ k \in Token /\ k.id \in Ids /\ k.inst \in Instances
                        /\ k.status = "Waiting"
  BY ParkedAssumption DEF Token
<1>6. \A k \in Parked : /\ tasks[k.id].inst \in {NoInstance, k.inst}
                        /\ ~tasks[k.id].advanced
  <2>1. ASSUME NEW k \in Parked
        PROVE  tasks[k.id] = NoRow \/ tasks[k.id] = NewRow(k.inst)
    BY <1>5, ParkedAssumption DEF Init
  <2>2. NoRow.inst = NoInstance /\ NoRow.advanced = FALSE
    BY DEF NoRow
  <2>3. \A i \in Instances : NewRow(i).inst = i /\ NewRow(i).advanced = FALSE
    BY DEF NewRow, NoRow
  <2> QED  BY <1>5, <2>1, <2>2, <2>3
<1>7. TokenInv
  <2>1. \A k \in tokens : inst[k.inst] = "Running"
    BY <1>5 DEF Init, TokensOf
  <2>2. \A k \in Parked : k.id \in used
    BY DEF Init
  <2> QED  BY <1>1, <1>2, <1>3, <1>6, <2>1, <2>2, ParkedAssumption DEF TokenInv
<1>8. FireInv
  BY <1>3, <1>5, <1>6 DEF FireInv, Init
<1>9. NoSplit => SingleInv
  BY <1>1, <1>2 DEF NoSplit, SingleInv, Init
<1>10. CallInv
  BY <1>1, <1>2 DEF CallInv, Off
<1>11. MarkInv
  BY DEF MarkInv, Init, IdleLoop
<1> QED  BY <1>4, <1>7, <1>8, <1>9, <1>10, <1>11 DEF MoveInv, DataInv

-----------------------------------------------------------------------------
\* Without splits, or with one server, MoveInv is an invariant.
THEOREM MoveInvariance ==
    ASSUME NoSplit \/ OneServer
    PROVE  Spec => []MoveInv
<1>1. Init => MoveInv
  BY MoveInvInit
<1>2. IndInv /\ MoveInv /\ [TimerNext]_vars => MoveInv'
  BY MoveInvStep, MoveInvUnchanged
<1> QED  BY <1>1, <1>2, Invariance, PTL DEF Spec

\* The engine moves a token at most once, though complete_and_advance and the
\* reconciler of every server may try: for any number of servers if no
\* definition splits, for any definition if there is one server, and whatever
\* crashes, statements fail, locks expire or hashes collide.
THEOREM TokensMoveOnce ==
    ASSUME NoSplit \/ OneServer
    PROVE  Spec => []FiredAtMostOnce
<1>1. MoveInv => FiredAtMostOnce
  BY DEF MoveInv, DataInv, FireInv, FiredAtMostOnce
<1> QED  BY <1>1, MoveInvariance, PTL

\* mark_advanced comes after the move: under the same conditions no token of
\* a running instance waits at a task that is marked.
THEOREM MarkedTasksHaveMoved ==
    ASSUME NoSplit \/ OneServer
    PROVE  Spec => []AdvancedMeansMoved
<1>1. MoveInv => AdvancedMeansMoved
  BY DEF MoveInv, DataInv, FireInv, Known, AdvancedMeansMoved
<1> QED  BY <1>1, MoveInvariance, PTL

-----------------------------------------------------------------------------
(* The alarms (module Alarms) that the rows and tokens stand for.          *)

\* A row that is locked or done has been due; an absent one has no instance.
RowRang(r) ==
    /\ r.state \in {"LOCKED", "COMPLETED"} => r.due
    /\ r.state = "absent" => r.inst = NoInstance

AlarmRows == \A t \in Ids : RowRang(tasks[t])

\* A row's token waits or has moved, it waits until the row is created, and
\* who is about to save has the tokens as they are in the table.
AlarmTokens ==
    /\ \A t \in Ids : Present(t) => Waits(t, tokens) \/ fired[t] > 0
    /\ \A p \in Procs : \A t \in eng[p].made : Waits(t, tokens)
    /\ \A p \in Procs :
         eng[p].pc = "save" /\ eng[p].id # NoId => eng[p].snap.toks = TokensOf(eng[p].inst)

AlarmInv == AlarmRows /\ AlarmTokens

\* What a statement does to the alarms.
Steady == \A u \in Ids : AlarmOf(tasks'[u]) = AlarmOf(tasks[u])
Unmarked == \A u \in Ids : tasks'[u].advanced <=> tasks[u].advanced

Turns(t, from, to) ==
    /\ AlarmOf(tasks[t]) = from
    /\ AlarmOf(tasks'[t]) = to
    /\ \A u \in Ids : u # t => AlarmOf(tasks'[u]) = AlarmOf(tasks[u])

AlarmTurns ==
    \/ Unmarked /\ Steady
    \/ Unmarked /\ \E t \in Ids :
          \/ Turns(t, "set", "due") \/ Turns(t, "due", "rung")
          \/ Turns(t, "due", "set") \/ Turns(t, "due", "dead")
    \/ Unmarked /\ \E p \in Procs : \E t \in eng[p].made : t \in Ids /\ Turns(t, "none", "set")
    \/ Steady /\ \E s \in Servers :
          /\ srv[s].pc = "mark"
          /\ Done(Cur(s))
          /\ \A u \in Ids : tasks'[u].advanced <=> tasks[u].advanced \/ u = Cur(s)

LEMMA LockedAlarm ==
    ASSUME NEW r \in Row, RowRang(r), r.state = "READY", r.due, NEW w,
           NEW l, l = [r EXCEPT !.state = "LOCKED", !.owner = w, !.expired = FALSE]
    PROVE  RowRang(l) /\ AlarmOf(l) = AlarmOf(r) /\ l.advanced = r.advanced
  BY DEF Row, RowRang, AlarmOf

LEMMA ReclaimedAlarm ==
    ASSUME NEW r \in Row, RowRang(r), r.state = "LOCKED",
           NEW l, l = [r EXCEPT !.state = "READY", !.owner = NoWorker, !.expired = FALSE]
    PROVE  RowRang(l) /\ AlarmOf(l) = AlarmOf(r) /\ l.advanced = r.advanced
  BY DEF Row, RowRang, AlarmOf

LEMMA CompletedAlarm ==
    ASSUME NEW r \in Row, RowRang(r), r.state = "LOCKED", NEW U,
           NEW l, l = [r EXCEPT !.state = "COMPLETED", !.older = U]
    PROVE  /\ RowRang(l) /\ l.advanced = r.advanced
           /\ AlarmOf(r) = "due" /\ AlarmOf(l) = "rung"
  BY DEF Row, RowRang, AlarmOf

LEMMA FailedAlarm ==
    ASSUME NEW r \in Row, RowRang(r), r.state = "LOCKED", NEW l, l = Failed(r)
    PROVE  /\ RowRang(l) /\ l.advanced = r.advanced
           /\ AlarmOf(r) = "due" /\ AlarmOf(l) \in {"set", "dead"}
<1>1. PICK left : left = r.retries - 1
  OBVIOUS
<1>2. l = [r EXCEPT !.retries = left,
                    !.state   = IF left > 0 THEN "READY" ELSE "FAILED",
                    !.due     = IF left > 0 THEN FALSE ELSE r.due,
                    !.owner   = NoWorker,
                    !.expired = FALSE]
  BY <1>1 DEF Failed
<1>3. CASE left > 0
  BY <1>2, <1>3 DEF Row, RowRang, AlarmOf
<1>4. CASE ~(left > 0)
  BY <1>2, <1>4 DEF Row, RowRang, AlarmOf
<1> QED  BY <1>3, <1>4

LEMMA StatementTurns ==
    ASSUME IndInv, AlarmRows, TaskStatement
    PROVE  AlarmRows' /\ AlarmTurns
<1>1. tasks \in [Ids -> Row] /\ \A u \in Ids : tasks[u] \in Row /\ RowRang(tasks[u])
  BY DEF IndInv, TypeOK, EngineTypeOK, TasksTypeOK, AlarmRows
<1>2. CASE UNCHANGED tasks
  BY <1>1, <1>2 DEF AlarmRows, AlarmTurns, Unmarked, Steady
<1>3. CASE ReclaimExpired
  <2>1. tasks' = [u \in Ids |-> IF u \in Expired
                                THEN [tasks[u] EXCEPT !.state = "READY", !.owner = NoWorker,
                                                      !.expired = FALSE]
                                ELSE tasks[u]]
    BY <1>3 DEF ReclaimExpired, Update
  <2>2. \A u \in Expired : tasks[u].state = "LOCKED"
    BY DEF Expired
  <2>3. ASSUME NEW u \in Ids
        PROVE  /\ RowRang(tasks'[u]) /\ AlarmOf(tasks'[u]) = AlarmOf(tasks[u])
               /\ tasks'[u].advanced = tasks[u].advanced
    <3>1. CASE u \in Expired
      <4>1. tasks'[u] = [tasks[u] EXCEPT !.state = "READY", !.owner = NoWorker,
                                         !.expired = FALSE]
        BY <2>1, <3>1
      <4> QED  BY <1>1, <2>2, <3>1, <4>1, ReclaimedAlarm
    <3>2. CASE u \notin Expired
      BY <1>1, <2>1, <3>2
    <3> QED  BY <3>1, <3>2
  <2> QED  BY <2>3 DEF AlarmRows, AlarmTurns, Unmarked, Steady
<1>4. CASE \E S \in SUBSET Lockable : LockReady(Worker, S)
  <2>1. PICK S \in SUBSET Lockable :
           tasks' = [u \in Ids |-> IF u \in S
                                   THEN [tasks[u] EXCEPT !.state = "LOCKED", !.owner = Worker,
                                                         !.expired = FALSE]
                                   ELSE tasks[u]]
    BY <1>4 DEF LockReady, Update
  <2>2. \A u \in S : tasks[u].state = "READY" /\ tasks[u].due
    BY DEF Lockable
  <2>3. ASSUME NEW u \in Ids
        PROVE  /\ RowRang(tasks'[u]) /\ AlarmOf(tasks'[u]) = AlarmOf(tasks[u])
               /\ tasks'[u].advanced = tasks[u].advanced
    <3>1. CASE u \in S
      <4>1. tasks'[u] = [tasks[u] EXCEPT !.state = "LOCKED", !.owner = Worker,
                                         !.expired = FALSE]
        BY <2>1, <3>1
      <4> QED  BY <1>1, <2>2, <3>1, <4>1, LockedAlarm
    <3>2. CASE u \notin S
      BY <1>1, <2>1, <3>2
    <3> QED  BY <3>1, <3>2
  <2> QED  BY <2>3 DEF AlarmRows, AlarmTurns, Unmarked, Steady
<1>5. CASE \E t \in Ids : Completable(t, Worker) /\ Complete(t)
  <2>1. PICK t \in Ids : Completable(t, Worker) /\ Complete(t)
    BY <1>5
  <2>2. PICK U : U = Unadvanced
    OBVIOUS
  <2>3. /\ tasks'[t] = [tasks[t] EXCEPT !.state = "COMPLETED", !.older = U]
        /\ \A u \in Ids : u # t => tasks'[u] = tasks[u]
        /\ tasks[t].state = "LOCKED"
    BY <1>1, <2>1, <2>2 DEF Complete, Completable
  <2>4. /\ RowRang(tasks'[t]) /\ tasks'[t].advanced = tasks[t].advanced
        /\ AlarmOf(tasks[t]) = "due" /\ AlarmOf(tasks'[t]) = "rung"
    <3>1. PICK r, l : r = tasks[t] /\ l = tasks'[t]
      OBVIOUS
    <3>2. r \in Row /\ RowRang(r) /\ r.state = "LOCKED"
      BY <1>1, <2>1, <2>3, <3>1
    <3>3. l = [r EXCEPT !.state = "COMPLETED", !.older = U]
      BY <2>3, <3>1
    <3>4. /\ RowRang(l) /\ l.advanced = r.advanced
          /\ AlarmOf(r) = "due" /\ AlarmOf(l) = "rung"
      BY ONLY <3>2, <3>3, CompletedAlarm
    <3> QED  BY <3>1, <3>4
  <2>5. AlarmRows' /\ Unmarked
    BY <1>1, <2>3, <2>4 DEF AlarmRows, Unmarked
  <2>6. Turns(t, "due", "rung")
    BY <2>3, <2>4 DEF Turns
  <2> QED  BY <2>5, <2>6 DEF AlarmTurns
<1>6. CASE \E t \in Ids \cup {NoId} : Fail(t, Worker)
  <2>1. PICK t : Fail(t, Worker)
    BY <1>6
  <2>2. tasks' = [u \in Ids |-> IF u = t /\ Failable(u, Worker)
                                THEN Failed(tasks[u]) ELSE tasks[u]]
    BY <2>1 DEF Fail, Update
  <2>3. CASE t \in Ids /\ Failable(t, Worker)
    <3>1. /\ tasks'[t] = Failed(tasks[t]) /\ tasks[t].state = "LOCKED"
          /\ \A u \in Ids : u # t => tasks'[u] = tasks[u]
      BY <2>2, <2>3 DEF Failable
    <3>2. /\ RowRang(tasks'[t]) /\ tasks'[t].advanced = tasks[t].advanced
          /\ AlarmOf(tasks[t]) = "due" /\ AlarmOf(tasks'[t]) \in {"set", "dead"}
      BY <1>1, <2>3, <3>1, FailedAlarm
    <3>3. AlarmRows' /\ Unmarked
      BY <1>1, <3>1, <3>2 DEF AlarmRows, Unmarked
    <3>4. Turns(t, "due", "set") \/ Turns(t, "due", "dead")
      BY <3>1, <3>2 DEF Turns
    <3> QED  BY <2>3, <3>3, <3>4 DEF AlarmTurns
  <2>4. CASE ~(t \in Ids /\ Failable(t, Worker))
    <3>1. \A u \in Ids : tasks'[u] = tasks[u]
      BY <2>2, <2>4
    <3> QED  BY <1>1, <3>1 DEF AlarmRows, AlarmTurns, Unmarked, Steady
  <2> QED  BY <2>3, <2>4
<1>7. CASE \E s \in Servers : srv[s].pc = "mark" /\ Done(Cur(s)) /\ MarkAdvanced(Cur(s))
  <2>1. PICK s \in Servers : srv[s].pc = "mark" /\ Done(Cur(s)) /\ MarkAdvanced(Cur(s))
    BY <1>7
  <2>2. PICK t : t = Cur(s)
    OBVIOUS
  <2>3. t \in Ids /\ tasks[t].state = "COMPLETED"
    BY <1>1, <2>1, <2>2, NoInstanceAssumption DEF Done, RowRang
  <2>4. tasks' = [u \in Ids |-> IF u = t THEN [tasks[u] EXCEPT !.advanced = TRUE]
                                         ELSE tasks[u]]
    BY <2>1, <2>2, <2>3 DEF MarkAdvanced, Update, Present
  <2>5. \A u \in Ids : u # t => tasks'[u] = tasks[u]
    BY <2>4
  <2>6. /\ RowRang(tasks'[t]) /\ tasks'[t].advanced
        /\ AlarmOf(tasks'[t]) = AlarmOf(tasks[t])
    <3>1. tasks'[t] = [tasks[t] EXCEPT !.advanced = TRUE]
      BY <2>3, <2>4
    <3> QED  BY <1>1, <2>3, <3>1 DEF Row, RowRang, AlarmOf
  <2>7. AlarmRows' /\ Steady
    BY <1>1, <2>5, <2>6 DEF AlarmRows, Steady
  <2>8. \A u \in Ids : tasks'[u].advanced <=> tasks[u].advanced \/ u = t
    BY <2>5, <2>6
  <2> QED  BY <2>1, <2>2, <2>7, <2>8 DEF AlarmTurns
<1>8. CASE \E t \in Ids : BecomesDue(t) \/ LockExpires(t) \/ Settles(t)
  <2>1. PICK t \in Ids : BecomesDue(t) \/ LockExpires(t) \/ Settles(t)
    BY <1>8
  <2>2. \A u \in Ids : u # t => tasks'[u] = tasks[u]
    BY <1>1, <2>1 DEF BecomesDue, LockExpires, Settles
  <2>3. CASE BecomesDue(t)
    <3>1. /\ tasks'[t] = [tasks[t] EXCEPT !.due = TRUE]
          /\ tasks[t].state = "READY" /\ ~tasks[t].due
      BY <1>1, <2>3 DEF BecomesDue
    <3>2. /\ RowRang(tasks'[t]) /\ tasks'[t].advanced = tasks[t].advanced
          /\ AlarmOf(tasks[t]) = "set" /\ AlarmOf(tasks'[t]) = "due"
      BY <1>1, <3>1 DEF Row, RowRang, AlarmOf
    <3>3. AlarmRows' /\ Unmarked
      BY <1>1, <2>2, <3>2 DEF AlarmRows, Unmarked
    <3>4. Turns(t, "set", "due")
      BY <2>2, <3>2 DEF Turns
    <3> QED  BY <3>3, <3>4 DEF AlarmTurns
  <2>4. CASE LockExpires(t) \/ Settles(t)
    <3>1. \/ tasks'[t] = [tasks[t] EXCEPT !.expired = TRUE]
          \/ tasks'[t] = [tasks[t] EXCEPT !.settled = TRUE]
      BY <1>1, <2>4 DEF LockExpires, Settles
    <3>2. /\ RowRang(tasks'[t]) /\ tasks'[t].advanced = tasks[t].advanced
          /\ AlarmOf(tasks[t]) = AlarmOf(tasks'[t])
      BY <1>1, <3>1 DEF Row, RowRang, AlarmOf
    <3> QED  BY <1>1, <2>2, <3>2 DEF AlarmRows, AlarmTurns, Unmarked, Steady
  <2> QED  BY <2>1, <2>3, <2>4
<1>9. CASE \E p \in Procs : \E t \in eng[p].made : Create(t, eng[p].inst)
  <2>1. PICK p \in Procs : \E t \in eng[p].made : Create(t, eng[p].inst)
    BY <1>9
  <2>2. PICK t \in eng[p].made : Create(t, eng[p].inst)
    BY <2>1
  <2>3. t \in Ids /\ tasks[t].inst = NoInstance
    BY DEF IndInv, EngineInv, Unborn
  <2>4. RowOK(tasks[t])
    BY <2>3 DEF IndInv, RowsConsistent
  <2>5. tasks[t].state = "absent"
    BY <2>3, <2>4, NoInstanceAssumption DEF RowOK
  <2>6. ~tasks[t].advanced
    BY <2>4, <2>5 DEF RowOK
  <2>7. /\ tasks'[t] = NewRow(eng[p].inst)
        /\ \A u \in Ids : u # t => tasks'[u] = tasks[u]
    BY <1>1, <2>2, <2>3 DEF Create
  <2>8. /\ RowRang(tasks'[t]) /\ ~tasks'[t].advanced
        /\ AlarmOf(tasks'[t]) = "set" /\ AlarmOf(tasks[t]) = "none"
    BY <2>5, <2>7 DEF NewRow, NoRow, RowRang, AlarmOf
  <2>9. AlarmRows' /\ Unmarked
    BY <1>1, <2>6, <2>7, <2>8 DEF AlarmRows, Unmarked
  <2>10. Turns(t, "none", "set")
    BY <2>7, <2>8 DEF Turns
  <2> QED  BY <2>2, <2>3, <2>9, <2>10 DEF AlarmTurns
<1> QED
  BY <1>2, <1>3, <1>4, <1>5, <1>6, <1>7, <1>8, <1>9 DEF TaskStatement

\* A step that saves nothing: no call gets more rows to create, and who is
\* about to save has just loaded.
CallsKept ==
    \A p \in Procs :
        /\ eng'[p].made \subseteq eng[p].made
        /\ eng'[p].pc = "save" /\ eng'[p].id # NoId => eng'[p].snap.toks = TokensOf(eng'[p].inst)

LEMMA EngineCallsKept ==
    ASSUME EngineOK, AlarmTokens, NEW p \in Procs,
           \/ EngineLoadRow(p)
           \/ EngineLoadTokens(p)
           \/ EngineCreate(p)
           \/ Return(p)
           \/ \E i, id : CallCompleted(p, i, id)
    PROVE  CallsKept
<1>1. eng \in [Procs -> Call] /\ eng[p] \in Call /\ NoCall.made = {} /\ NoCall.pc = "off"
  BY DEF EngineOK, NoCall
<1>2. ASSUME \A q \in Procs : q # p => eng'[q] = eng[q],
             eng'[p].made \subseteq eng[p].made,
             eng'[p].pc = "save" /\ eng'[p].id # NoId
             => eng'[p].snap.toks = TokensOf(eng'[p].inst)
      PROVE  CallsKept
  BY <1>2 DEF CallsKept, AlarmTokens
<1>3. CASE Return(p)
  BY <1>1, <1>2, <1>3 DEF Return
<1>4. CASE EngineLoadRow(p)
  <2>1. CASE eng' = [eng EXCEPT ![p].pc = "tokens", ![p].snap.state = InstanceRow(eng[p].inst)]
    BY <1>1, <1>2, <2>1 DEF Call
  <2> QED  BY <1>3, <1>4, <2>1 DEF EngineLoadRow
<1>5. CASE EngineLoadTokens(p)
  <2>1. PICK T : T = TokensOf(eng[p].inst)
    OBVIOUS
  <2>2. CASE eng' = [eng EXCEPT ![p].pc = "save", ![p].snap.toks = T]
    <3>1. /\ eng'[p].made = eng[p].made /\ eng'[p].snap.toks = T
          /\ eng'[p].inst = eng[p].inst
          /\ \A q \in Procs : q # p => eng'[q] = eng[q]
      BY <1>1, <2>2 DEF Call, Snapshot
    <3> QED  BY <1>2, <2>1, <3>1
  <2> QED  BY <1>3, <1>5, <2>1, <2>2 DEF EngineLoadTokens
<1>6. CASE EngineCreate(p)
  <2>1. CASE \E id : eng' = [eng EXCEPT ![p].made = @ \ {id}]
    <3>1. /\ eng'[p].made \subseteq eng[p].made /\ eng'[p].pc # "save"
          /\ \A q \in Procs : q # p => eng'[q] = eng[q]
      BY <1>1, <1>6, <2>1 DEF Call, EngineCreate
    <3> QED  BY <1>2, <3>1
  <2> QED  BY <1>3, <1>6, <2>1 DEF EngineCreate
<1>7. CASE \E i, id : CallCompleted(p, i, id)
  <2>1. PICK i, id : eng' = [eng EXCEPT ![p] = [NoCall EXCEPT !.pc = "row", !.inst = i, !.id = id]]
    BY <1>7 DEF CallCompleted
  <2>2. /\ eng'[p].made = {} /\ eng'[p].pc = "row"
        /\ \A q \in Procs : q # p => eng'[q] = eng[q]
    BY <1>1, <2>1 DEF NoCall
  <2> QED  BY <1>2, <2>2
<1> QED  BY <1>3, <1>4, <1>5, <1>6, <1>7

\* A step saves, or leaves the tokens and the calls' copies alone.
LEMMA SavesOrKeeps ==
    ASSUME IndInv, AlarmTokens, [TimerNext]_vars
    PROVE  \/ \E s \in Servers : EngineSave(s)
           \/ UNCHANGED <<tokens, used, fired>> /\ CallsKept
<1>1. EngineOK /\ Servers \subseteq Procs
  BY IndInvParts, ServersAssumption
<1>2. ASSUME UNCHANGED eng PROVE CallsKept
  BY <1>2 DEF CallsKept, AlarmTokens
<1>3. ASSUME NEW s \in Servers, ServerStep(s)
      PROVE  \/ EngineSave(s)
             \/ UNCHANGED <<tokens, used, fired>> /\ CallsKept
  <2>1. CASE \/ Reclaim(s) \/ LockDueTimers(s) \/ CompleteTask(s) \/ GetTask(s)
             \/ FailTask(s) \/ SelectUnadvanced(s) \/ Reconcile(s) \/ EndPoll(s)
    BY <1>2, <2>1 DEF Reclaim, LockDueTimers, CompleteTask, GetTask, FailTask,
                      SelectUnadvanced, Reconcile, EndPoll, tables
  <2>2. CASE \/ TryAdvisoryLock(s) \/ CheckAdvanced(s) \/ LoadRow(s)
             \/ VerifyRow(s) \/ VerifyTokens(s) \/ Mark(s) \/ Commit(s)
    BY <1>2, <2>2 DEF TryAdvisoryLock, CheckAdvanced, LoadRow, VerifyRow, VerifyTokens,
                      Mark, Commit, tables
  <2>3. CASE LoadTokens(s)
    BY <1>1, <1>2, <2>3, EngineCallsKept DEF LoadTokens, tables
  <2>4. CASE EngineLoadRow(s) \/ EngineLoadTokens(s) \/ EngineCreate(s) \/ EngineReturn(s)
    <3>1. UNCHANGED <<tokens, used, fired>>
      BY <2>4 DEF EngineLoadRow, EngineLoadTokens, EngineCreate, EngineReturn
    <3>2. EngineReturn(s) => Return(s)
      BY DEF EngineReturn
    <3>3. s \in Procs
      BY <1>1
    <3>4. CallsKept
      BY <1>1, <2>4, <3>2, <3>3, EngineCallsKept
    <3> QED  BY <3>1, <3>4
  <2> QED  BY <1>3, <2>1, <2>2, <2>3, <2>4 DEF ServerStep, AdvanceStep, EngineStep
<1>4. ASSUME NEW s \in Servers, ServerFault(s)
      PROVE  UNCHANGED <<tokens, used, fired>> /\ CallsKept
  <2>1. CASE Crash(s)
    BY <1>1, <2>1, EngineCallsKept DEF Crash, tables
  <2>2. CASE EngineFails(s)
    BY <1>1, <2>2, EngineCallsKept DEF EngineFails, EngineError
  <2>3. CASE PollFails(s) \/ CompleteFails(s) \/ GetFails(s) \/ FailFails(s) \/ AdvanceFails(s)
    BY <1>2, <2>3 DEF PollFails, CompleteFails, GetFails, FailFails, AdvanceFails, tables
  <2> QED  BY <1>4, <2>1, <2>2, <2>3 DEF ServerFault
<1>5. ASSUME NEW t \in Ids, SlowHolder(t) \/ Time(t)
      PROVE  UNCHANGED <<tokens, used, fired>> /\ CallsKept
  BY <1>2, <1>5 DEF SlowHolder, Time, AbandonedLockExpires, TimerDue, RowSettles, tables
<1>6. CASE UNCHANGED vars
  BY <1>2, <1>6 DEF vars, engineVars
<1> QED  BY <1>3, <1>4, <1>5, <1>6 DEF TimerNext

\* A step that saves nothing leaves tokens waiting for the rows to come.
LEMMA KeptTokens ==
    ASSUME IndInv, AlarmInv, AlarmTurns, AlarmRows',
           UNCHANGED <<tokens, fired>>, CallsKept
    PROVE  AlarmTokens'
<1>1. \A p \in Procs : \A t \in eng'[p].made : Waits(t, tokens)
  BY DEF AlarmInv, AlarmTokens, CallsKept
<1>2. \A p \in Procs :
        eng'[p].pc = "save" /\ eng'[p].id # NoId => eng'[p].snap.toks = TokensOf(eng[p].inst)'
  BY DEF CallsKept, TokensOf
<1>3. ASSUME NEW t \in Ids, tasks'[t].state # "absent" PROVE Waits(t, tokens) \/ fired[t] > 0
  <2>1. CASE tasks[t].state # "absent"
    BY <2>1 DEF AlarmInv, AlarmTokens, Present
  <2>2. CASE tasks[t].state = "absent"
    <3>1. AlarmOf(tasks[t]) = "none"
      BY <2>2 DEF AlarmOf
    <3>2. tasks[t] \in Row /\ AlarmOf(tasks'[t]) # "none"
      BY <1>3 DEF AlarmOf, IndInv, TypeOK, EngineTypeOK, TasksTypeOK
    <3>3. \E p \in Procs : t \in eng[p].made
      BY <3>1, <3>2 DEF AlarmTurns, Steady, Turns
    <3> QED  BY <3>3 DEF AlarmInv, AlarmTokens
  <2> QED  BY <2>1, <2>2
<1> QED  BY <1>1, <1>2, <1>3 DEF AlarmTokens, Waits, TokenIn, Present

\* Who saves, saves the table's tokens but for the one that moves.
LEMMA SavedExactly ==
    ASSUME IndInv, MoveInv, AlarmTokens, NEW s \in Servers, NEW f, Saves(s, f),
           NEW M, M = Movable(s, eng[s].snap.toks)
    PROVE  /\ srv[s].pc = "engine" /\ eng[s].id = Cur(s) /\ Done(Cur(s))
           /\ M # {} /\ M \subseteq tokens
           /\ \A k \in M : k.id = Cur(s) /\ k.inst = eng[s].inst /\ k.status = "Waiting"
           /\ \A k \in tokens : k.id = Cur(s) /\ k.status = "Waiting" => k \in M
           /\ tokens' = (tokens \ M) \cup Arrive(eng[s].inst, f)
<1>1. EngineOK /\ s \in Procs
  BY IndInvParts, ServersAssumption
<1>2. eng[s].pc = "save"
  BY DEF Saves
<1>3. /\ srv[s].pc = "engine" /\ eng[s].id = Cur(s) /\ Cur(s) \in Ids /\ M # {}
      /\ \A k \in M : k.id = Cur(s) /\ k.status = "Waiting" /\ k.node \notin Stuck
  BY <1>1, <1>2, SaverHolds
<1>4. Done(Cur(s))
  BY <1>3 DEF IndInv, LoopInv, Holding
<1>5. eng[s].snap.toks = TokensOf(eng[s].inst)
  BY <1>1, <1>2, <1>3, NoIdAssumption DEF AlarmTokens
<1>6. TokensOf(eng[s].inst) \subseteq tokens /\ \A k \in TokensOf(eng[s].inst) : k.inst = eng[s].inst
  BY DEF TokensOf
<1>7. M \subseteq TokensOf(eng[s].inst)
  BY <1>5 DEF Movable
<1>8. ASSUME NEW k \in tokens, k.id = Cur(s), k.status = "Waiting" PROVE k \in M
  <2>1. PICK m \in M : m.id = Cur(s) /\ m.node \notin Stuck
    BY <1>3
  <2>2. k.inst = m.inst /\ k.node = m.node
    BY <1>6, <1>7, <1>8, <2>1 DEF MoveInv, DataInv, TokenInv, Known
  <2>3. k \in TokensOf(eng[s].inst)
    BY <1>6, <1>7, <2>2 DEF TokensOf
  <2> QED  BY <1>3, <1>5, <1>8, <2>1, <2>2, <2>3 DEF Movable
<1>9. tokens' = (tokens \ M) \cup Arrive(eng[s].inst, f)
  <2>1. tokens' = (tokens \ TokensOf(eng[s].inst)) \cup Left(s) \cup Arrive(eng[s].inst, f)
    BY <1>1, SavedTokens
  <2>2. Left(s) = TokensOf(eng[s].inst) \ M
    BY <1>5 DEF Left
  <2> QED  BY <1>6, <1>7, <2>1, <2>2
<1> QED  BY <1>3, <1>4, <1>6, <1>7, <1>8, <1>9

LEMMA SavedAlarms ==
    ASSUME NoSplit \/ OneServer, IndInv, MoveInv, AlarmInv, NEW s \in Servers, EngineSave(s)
    PROVE  AlarmInv'
<1>1. PICK f : Saves(s, f)
  BY SavesSomewhere
<1>2. PICK M, A : M = Movable(s, eng[s].snap.toks) /\ A = Arrive(eng[s].inst, f)
  OBVIOUS
<1>3. EngineOK /\ s \in Procs
  BY IndInvParts, ServersAssumption
<1>4. /\ srv[s].pc = "engine" /\ eng[s].id = Cur(s) /\ Done(Cur(s)) /\ Cur(s) \in Ids
      /\ M # {} /\ M \subseteq tokens
      /\ \A k \in M : k.id = Cur(s) /\ k.inst = eng[s].inst /\ k.status = "Waiting"
      /\ tokens' = (tokens \ M) \cup A
  BY <1>1, <1>2, SavedExactly DEF AlarmInv, Done
<1>5. /\ eng'[s].pc = "create"
      /\ eng'[s].made = {f[n] : n \in Targets(s) \cap Timers}
      /\ \A q \in Procs : q # s => eng'[q] = eng[q]
  BY <1>1, <1>3, SavedTokens
<1>6. UNCHANGED tasks /\ fired' = [id \in Ids |-> IF id = eng[s].id THEN fired[id] + 1 ELSE fired[id]]
      /\ fired \in [Ids -> Nat]
  BY <1>1, <1>3 DEF Saves, EngineOK
<1>7. \A t : Waits(t, tokens) /\ t # Cur(s) => Waits(t, tokens')
  BY <1>4 DEF Waits, TokenIn
<1>8. ASSUME NEW t \in Ids, tasks'[t].state # "absent" PROVE Waits(t, tokens') \/ fired'[t] > 0
  <2>1. Waits(t, tokens) \/ fired[t] > 0
    BY <1>6, <1>8 DEF AlarmInv, AlarmTokens, Present
  <2>2. t = Cur(s) => fired'[t] > 0
    BY <1>4, <1>6
  <2>3. fired[t] > 0 => fired'[t] > 0
    BY <1>6
  <2> QED  BY <1>7, <2>1, <2>2, <2>3
<1>9. ASSUME NEW p \in Procs, NEW t \in eng'[p].made PROVE Waits(t, tokens')
  <2>1. CASE p = s
    <3>1. PICK n \in Targets(s) : t = f[n]
      BY <1>5, <1>9, <2>1
    <3>2. n \in DOMAIN f
      BY <1>1 DEF Saves
    <3>3. [inst |-> eng[s].inst, id |-> t, node |-> n, status |-> "Waiting"] \in A
      BY <1>2, <3>1, <3>2 DEF Arrive
    <3> QED  BY <1>4, <3>3 DEF Waits, TokenIn
  <2>2. CASE p # s
    <3>1. t \in eng[p].made /\ Waits(t, tokens)
      BY <1>5, <1>9, <2>2 DEF AlarmInv, AlarmTokens
    <3>2. t # Cur(s)
      BY <1>4, <3>1, InstanceDistinct DEF IndInv, EngineInv
    <3> QED  BY <1>7, <3>1, <3>2
  <2> QED  BY <2>1, <2>2
<1>10. ASSUME NEW p \in Procs, eng'[p].pc = "save", eng'[p].id # NoId
       PROVE  eng'[p].snap.toks = TokensOf(eng[p].inst)'
  <2>1. p # s /\ eng'[p] = eng[p]
    BY <1>5, <1>10
  <2>2. eng[p].snap.toks = TokensOf(eng[p].inst)
    BY <1>10, <2>1 DEF AlarmInv, AlarmTokens
  <2>3. /\ p \in Servers /\ srv[p].pc = "engine" /\ eng[p].id = Cur(p)
        /\ Movable(p, eng[p].snap.toks) # {}
    <3>1. PICK N : N = Movable(p, eng[p].snap.toks)
      OBVIOUS
    <3> QED  BY <1>10, <2>1, <3>1, SaverHolds
  <2>4. eng[p].inst # eng[s].inst
    <3>1. SUFFICES ASSUME eng[p].inst = eng[s].inst PROVE FALSE
      OBVIOUS
    <3>2. NoSplit
      BY <2>1, <2>3 DEF OneServer
    <3>3. PICK k \in eng[p].snap.toks : k.id = Cur(p)
      BY <2>3 DEF Movable
    <3>4. PICK m \in M : m.id = Cur(s)
      BY <1>4
    <3>5. k.inst = eng[s].inst /\ k \in tokens
      BY <2>2, <3>1, <3>3 DEF TokensOf
    <3>6. k = m
      BY <1>4, <3>2, <3>4, <3>5 DEF MoveInv, DataInv, SingleInv
    <3>7. Cur(p) = Cur(s)
      BY <3>3, <3>4, <3>6
    <3> QED  BY <1>4, <2>1, <2>3, <3>7, ServersAssumption DEF IndInv, LockInv, Key, Holding
  <2>5. \A k \in A : k.inst = eng[s].inst
    BY <1>1, <1>2, <1>3, ArrivingTokens
  <2>6. TokensOf(eng[p].inst)' = TokensOf(eng[p].inst)
    <3>1. TokensOf(eng[p].inst)' = {k \in tokens' : k.inst = eng[p].inst}
      BY <2>1 DEF TokensOf
    <3> QED  BY <1>4, <2>4, <2>5, <3>1 DEF TokensOf
  <2> QED  BY <2>1, <2>2, <2>6
<1>11. AlarmRows'
  BY <1>6 DEF AlarmInv, AlarmRows
<1>12. AlarmTokens'
  BY <1>8, <1>9, <1>10 DEF AlarmTokens, Waits, TokenIn, Present
<1> QED  BY <1>11, <1>12 DEF AlarmInv

-----------------------------------------------------------------------------
(* The refinement, step by step.                                           *)

Shown(toks) == {[id |-> k.id, node |-> k.node] : k \in {m \in toks : m.status = "Waiting"}}

LEMMA ShownWaits ==
    ASSUME NEW t, Waits(t, tokens)
    PROVE  \E w \in Shown(tokens) : w.id = t
<1>1. PICK k \in tokens : k.id = t /\ k.status = "Waiting"
  BY DEF Waits, TokenIn
<1>2. [id |-> k.id, node |-> k.node] \in Shown(tokens)
  BY <1>1 DEF Shown
<1> QED  BY <1>1, <1>2

\* A step that saves nothing is a stutter, sets an alarm, lets one tick, or
\* strikes one off.
LEMMA KeptSteps ==
    ASSUME IndInv, MoveInv, AlarmInv, AlarmTurns, UNCHANGED <<tokens, used, fired>>
    PROVE  [Alarm!Tock]_(Alarm!alarmVars)
<1> DEFINE alarm == [t \in Ids |-> AlarmOf(tasks[t])]
           moved == {t \in Ids : fired[t] > 0}
           struck == {t \in Ids : tasks[t].advanced}
<1>1. UNCHANGED <<Shown(tokens), moved>>
  BY DEF Shown
<1>2. Unmarked => UNCHANGED struck
  BY DEF Unmarked
<1>3. Steady => UNCHANGED alarm
  BY DEF Steady
<1>4. ASSUME NEW t \in Ids, NEW from, NEW to, Turns(t, from, to)
      PROVE  alarm[t] = from /\ alarm' = [alarm EXCEPT ![t] = to]
  BY <1>4 DEF Turns
<1>5. CASE Unmarked /\ Steady
  BY <1>1, <1>2, <1>3, <1>5 DEF Alarm!alarmVars, Shown
<1>6. CASE Unmarked /\ \E t \in Ids :
             \/ Turns(t, "set", "due") \/ Turns(t, "due", "rung")
             \/ Turns(t, "due", "set") \/ Turns(t, "due", "dead")
  <2>1. PICK t \in Ids :
             \/ Turns(t, "set", "due") \/ Turns(t, "due", "rung")
             \/ Turns(t, "due", "set") \/ Turns(t, "due", "dead")
    BY <1>6
  <2>2. \/ alarm[t] = "set" /\ alarm' = [alarm EXCEPT ![t] = "due"]
        \/ alarm[t] = "due" /\ alarm' = [alarm EXCEPT ![t] = "rung"]
        \/ alarm[t] = "due" /\ alarm' = [alarm EXCEPT ![t] = "set"]
        \/ alarm[t] = "due" /\ alarm' = [alarm EXCEPT ![t] = "dead"]
    BY <1>4, <2>1
  <2>3. UNCHANGED struck
    BY <1>2, <1>6
  <2> HIDE DEF alarm, moved, struck
  <2>4. Alarm!Tick(t)
    BY <1>1, <2>2, <2>3 DEF Alarm!Tick, Alarm!Becomes, Shown, alarm, moved, struck
  <2> QED  BY <2>4 DEF Alarm!Tock
<1>7. CASE Unmarked /\ \E p \in Procs : \E t \in eng[p].made : t \in Ids /\ Turns(t, "none", "set")
  <2>1. PICK p \in Procs : \E t \in eng[p].made : t \in Ids /\ Turns(t, "none", "set")
    BY <1>7
  <2>2. PICK t \in eng[p].made : t \in Ids /\ Turns(t, "none", "set")
    BY <2>1
  <2>3. alarm[t] = "none" /\ alarm' = [alarm EXCEPT ![t] = "set"]
    BY <1>4, <2>2
  <2>4. \E w \in Shown(tokens) : w.id = t
    BY <2>2, ShownWaits DEF AlarmInv, AlarmTokens
  <2>5. UNCHANGED struck
    BY <1>2, <1>7
  <2>6. Alarm!SetAlarm(t)
    BY <1>1, <2>3, <2>4, <2>5 DEF Alarm!SetAlarm, Alarm!Becomes, Shown
  <2> QED  BY <2>2, <2>6 DEF Alarm!Tock
<1>8. CASE Steady /\ \E s \in Servers :
             /\ srv[s].pc = "mark"
             /\ Done(Cur(s))
             /\ \A u \in Ids : tasks'[u].advanced <=> tasks[u].advanced \/ u = Cur(s)
  <2>1. PICK s \in Servers :
             /\ srv[s].pc = "mark"
             /\ Done(Cur(s))
             /\ \A u \in Ids : tasks'[u].advanced <=> tasks[u].advanced \/ u = Cur(s)
    BY <1>8
  <2>2. PICK t : t = Cur(s)
    OBVIOUS
  <2>3. t \in Ids /\ tasks[t].state = "COMPLETED"
    BY <2>1, <2>2, NoInstanceAssumption DEF Done, AlarmInv, AlarmRows, RowRang
  <2>4. alarm[t] = "rung"
    BY <2>3 DEF AlarmOf
  <2>5. t \in moved
    BY <2>1, <2>2, <2>3 DEF MoveInv, MarkInv, AlarmInv, AlarmTokens, Present
  <2>6. struck' = struck \cup {t}
    BY <2>1, <2>2, <2>3
  <2>7. UNCHANGED alarm
    BY <1>3, <1>8
  <2>8. Alarm!Strike(t)
    BY <1>1, <2>4, <2>5, <2>6, <2>7 DEF Alarm!Strike, Shown
  <2> QED  BY <2>3, <2>8 DEF Alarm!Tock
<1> QED  BY <1>5, <1>6, <1>7, <1>8 DEF AlarmTurns

\* A save moves one token along its arrows.
LEMMA SaveIsMove ==
    ASSUME IndInv, MoveInv, AlarmInv, NEW s \in Servers, EngineSave(s)
    PROVE  Alarm!Tock
<1> DEFINE moved == {t \in Ids : fired[t] > 0}
           alarm == [t \in Ids |-> AlarmOf(tasks[t])]
<1>1. PICK f : Saves(s, f)
  BY SavesSomewhere
<1>2. PICK M, A : M = Movable(s, eng[s].snap.toks) /\ A = Arrive(eng[s].inst, f)
  OBVIOUS
<1>3. EngineOK /\ s \in Procs
  BY IndInvParts, ServersAssumption
<1>4. /\ eng[s].id = Cur(s) /\ Done(Cur(s)) /\ Cur(s) \in Ids
      /\ M # {} /\ M \subseteq tokens
      /\ \A k \in M : k.id = Cur(s) /\ k.inst = eng[s].inst /\ k.status = "Waiting"
      /\ \A k \in tokens : k.id = Cur(s) /\ k.status = "Waiting" => k \in M
      /\ tokens' = (tokens \ M) \cup A
  BY <1>1, <1>2, SavedExactly DEF AlarmInv, Done
<1>5. PICK k \in M : TRUE
  BY <1>4
<1>6. PICK w : w = [id |-> k.id, node |-> k.node]
  OBVIOUS
<1>7. w.id = Cur(s) /\ w.node = k.node /\ k \in tokens /\ k.status = "Waiting"
  BY <1>4, <1>5, <1>6
<1>8. w \in Shown(tokens)
  BY <1>6, <1>7 DEF Shown
<1>9. \A m \in M : m.node = w.node
  BY <1>4, <1>5, <1>7 DEF MoveInv, DataInv, TokenInv, Known
<1>10. Targets(s) = Flow[w.node]
  <2>1. Targets(s) = UNION {Flow[m.node] : m \in M}
    BY <1>2, <1>4, NoIdAssumption DEF Targets
  <2> QED  BY <1>5, <1>9, <2>1
<1>11. /\ f \in [Flow[w.node] -> Ids \ used] /\ DOMAIN f = Flow[w.node]
       /\ \A m, n \in Flow[w.node] : f[m] = f[n] => m = n
  <2>1. f \in [Targets(s) -> Ids \ used] /\ Fresh(f)
    BY <1>1 DEF Saves
  <2>2. DOMAIN f = Targets(s)
    BY <2>1
  <2> QED  BY <1>10, <2>1, <2>2 DEF Fresh
<1>12. moved \cup {v.id : v \in Shown(tokens)} \subseteq used
  <2>1. moved \subseteq used
    BY DEF MoveInv, DataInv, FireInv
  <2>2. \A v \in Shown(tokens) : v.id \in used
    BY DEF Shown, MoveInv, DataInv, TokenInv, Known
  <2> QED  BY <2>1, <2>2
<1>13. f \in [Flow[w.node] -> Ids \ (moved \cup {v.id : v \in Shown(tokens)})]
  BY <1>11, <1>12
<1>14. Shown(tokens') = (Shown(tokens) \ {w}) \cup {[id |-> f[n], node |-> n] : n \in Flow[w.node]}
  <2>1. A = {[inst |-> eng[s].inst, id |-> f[n], node |-> n, status |-> "Waiting"] : n \in Flow[w.node]}
    BY <1>2, <1>11 DEF Arrive
  <2>2. Shown(A) = {[id |-> f[n], node |-> n] : n \in Flow[w.node]}
    <3>1. ASSUME NEW v \in Shown(A)
          PROVE  \E n \in Flow[w.node] : v = [id |-> f[n], node |-> n]
      <4>1. PICK m \in A : v = [id |-> m.id, node |-> m.node]
        BY <3>1 DEF Shown
      <4>2. PICK n \in Flow[w.node] :
              m = [inst |-> eng[s].inst, id |-> f[n], node |-> n, status |-> "Waiting"]
        BY <2>1, <4>1
      <4> QED  BY <4>1, <4>2
    <3>2. ASSUME NEW n \in Flow[w.node] PROVE [id |-> f[n], node |-> n] \in Shown(A)
      <4>1. PICK m : m = [inst |-> eng[s].inst, id |-> f[n], node |-> n, status |-> "Waiting"]
        OBVIOUS
      <4>2. m \in A /\ m.status = "Waiting" /\ [id |-> f[n], node |-> n] = [id |-> m.id, node |-> m.node]
        BY <2>1, <4>1
      <4> QED  BY <4>2 DEF Shown
    <3> QED  BY <3>1, <3>2
  <2>3. Shown(tokens') = Shown(tokens \ M) \cup Shown(A)
    BY <1>4 DEF Shown
  <2>4. Shown(tokens \ M) = Shown(tokens) \ {w}
    <3>1. ASSUME NEW v \in Shown(tokens \ M) PROVE v \in Shown(tokens) /\ v # w
      <4>1. PICK m \in tokens \ M : m.status = "Waiting" /\ v = [id |-> m.id, node |-> m.node]
        BY <3>1 DEF Shown
      <4>2. m.id # Cur(s)
        BY <1>4, <4>1
      <4> QED  BY <1>7, <4>1, <4>2 DEF Shown
    <3>2. ASSUME NEW v \in Shown(tokens), v # w PROVE v \in Shown(tokens \ M)
      <4>1. PICK m \in tokens : m.status = "Waiting" /\ v = [id |-> m.id, node |-> m.node]
        BY <3>2 DEF Shown
      <4>2. m \notin M
        BY <1>4, <1>6, <1>7, <1>9, <3>2, <4>1
      <4> QED  BY <4>1, <4>2 DEF Shown
    <3> QED  BY <3>1, <3>2
  <2> QED  BY <2>2, <2>3, <2>4
<1>15. moved' = moved \cup {w.id}
  <2>1. fired' = [id \in Ids |-> IF id = Cur(s) THEN fired[id] + 1 ELSE fired[id]]
        /\ fired \in [Ids -> Nat]
    BY <1>1, <1>3, <1>4 DEF Saves, EngineOK
  <2>2. \A t \in Ids : fired'[t] > 0 <=> fired[t] > 0 \/ t = Cur(s)
    BY <2>1
  <2> QED  BY <1>4, <1>7, <2>2
<1>16. UNCHANGED tasks
  BY <1>1 DEF Saves
<1>17. alarm[w.id] = "rung"
  <2>1. tasks[Cur(s)].state = "COMPLETED"
    BY <1>4, NoInstanceAssumption DEF Done, AlarmInv, AlarmRows, RowRang
  <2> QED  BY <1>4, <1>7, <2>1 DEF AlarmOf
<1>18. Alarm!Move(w)
  BY <1>8, <1>11, <1>13, <1>14, <1>15, <1>16, <1>17 DEF Alarm!Move, Shown
<1> QED  BY <1>8, <1>18 DEF Alarm!Tock, Shown

LEMMA AlarmStep ==
    ASSUME NoSplit \/ OneServer, IndInv, MoveInv, AlarmInv, [TimerNext]_vars
    PROVE  AlarmInv' /\ [Alarm!Tock]_(Alarm!alarmVars)
<1>1. CASE \E s \in Servers : EngineSave(s)
  BY <1>1, SavedAlarms, SaveIsMove
<1>2. CASE UNCHANGED <<tokens, used, fired>> /\ CallsKept
  <2>1. AlarmRows' /\ AlarmTurns
    BY StepIsStatement, StatementTurns DEF AlarmInv
  <2> QED  BY <1>2, <2>1, KeptTokens, KeptSteps DEF AlarmInv
<1> QED  BY <1>1, <1>2, SavesOrKeeps DEF AlarmInv

LEMMA AlarmInit == Init => AlarmInv /\ Alarm!Begun
<1> SUFFICES ASSUME Init PROVE AlarmInv /\ Alarm!Begun
  OBVIOUS
<1>1. /\ NoCall.made = {} /\ NoCall.pc = "off"
      /\ \A p \in Procs : eng[p] = NoCall
  BY DEF Init, NoCall
<1>2. ASSUME NEW t \in Ids
      PROVE  \/ tasks[t] = NoRow
             \/ Waits(t, tokens) /\ \E i \in Instances : tasks[t] = NewRow(i)
  <2>1. \A k \in Parked : k.status = "Waiting" /\ k.inst \in Instances
    BY ParkedAssumption DEF Token
  <2>2. CASE \E k \in Parked : k.id = t /\ tasks[t] = NewRow(k.inst)
    BY <2>1, <2>2 DEF Init, Waits, TokenIn
  <2> QED  BY <2>2 DEF Init
<1>3. /\ NoRow.state = "absent" /\ NoRow.inst = NoInstance /\ NoRow.advanced = FALSE
      /\ \A i \in Instances : /\ NewRow(i).state = "READY" /\ NewRow(i).due = FALSE
                              /\ NewRow(i).advanced = FALSE
  BY DEF NoRow, NewRow
<1>4. ASSUME NEW t \in Ids
      PROVE  /\ RowRang(tasks[t]) /\ ~tasks[t].advanced
             /\ AlarmOf(tasks[t]) \in {"none", "set"}
             /\ AlarmOf(tasks[t]) = "set" => Waits(t, tokens)
             /\ Present(t) => Waits(t, tokens)
  <2>1. CASE tasks[t] = NoRow
    BY <1>3, <2>1 DEF RowRang, AlarmOf, Present
  <2>2. CASE Waits(t, tokens) /\ \E i \in Instances : tasks[t] = NewRow(i)
    BY <1>3, <2>2 DEF RowRang, AlarmOf
  <2> QED  BY <1>2, <2>1, <2>2
<1>5. AlarmInv
  BY <1>1, <1>4 DEF AlarmInv, AlarmRows, AlarmTokens
<1>6. \A t \in Ids : fired[t] = 0
  BY DEF Init
<1>7. \A t \in Ids : AlarmOf(tasks[t]) = "set" => \E w \in Shown(tokens) : w.id = t
  BY <1>4, ShownWaits
<1>8. Alarm!Begun
  BY <1>4, <1>6, <1>7 DEF Alarm!Begun, Shown
<1> QED  BY <1>5, <1>8

\* Servers, locks, batches, retries, crashes and whole-set saves implement the
\* alarms of a diagram: no timer rings before it is due, moves its token before
\* it rings or twice, disturbs another token, or is struck off before its token
\* has left, with any number of servers if no definition splits, and for any
\* definition with one server.
THEOREM TimersKeepPromise ==
    ASSUME NoSplit \/ OneServer
    PROVE  Spec => KeepsAlarms
<1>1. Init => AlarmInv /\ Alarm!Begun
  BY AlarmInit
<1>2. IndInv /\ MoveInv /\ AlarmInv /\ [TimerNext]_vars
      => AlarmInv' /\ [Alarm!Tock]_(Alarm!alarmVars)
  BY AlarmStep
<1> QED  BY <1>1, <1>2, Invariance, MoveInvariance, PTL DEF Spec, KeepsAlarms, Alarm!Promise
=============================================================================
