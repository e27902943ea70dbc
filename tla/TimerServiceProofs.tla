------------------------- MODULE TimerServiceProofs -------------------------
(***************************************************************************)
(* Proofs about TimerService, for every number of servers, tasks,          *)
(* instances, retries and faults, and every process definition.            *)
(*                                                                         *)
(* First each statement on external_tasks keeps the rows consistent; then  *)
(* every step of the timer loops keeps the inductive invariant IndInv.     *)
(***************************************************************************)
EXTENDS TimerService, TLAPS

RowsInv == TasksTypeOK /\ RowsConsistent

\* What a statement other than an INSERT leaves as it was.
RowsKept ==
    \A t \in Ids :
        /\ tasks'[t].inst = tasks[t].inst
        /\ tasks[t].state \notin Open => tasks'[t].state = tasks[t].state

-----------------------------------------------------------------------------
(* The statements of ExternalTaskStore.                                    *)

\* A row that is not touched: nothing to do.
LEMMA RowsUnchanged ==
    ASSUME RowsInv, UNCHANGED tasks
    PROVE  RowsInv' /\ RowsKept
  BY DEF RowsInv, TasksTypeOK, RowsConsistent, RowsKept, Open

\* create inserts a consistent row.
LEMMA NewRowOK ==
    ASSUME NEW i \in Instances
    PROVE  NewRow(i) \in Row /\ RowOK(NewRow(i)) /\ NewRow(i).inst = i
<1>1. Retries \in 0 .. Retries /\ Retries > 0
  BY RetriesAssumption
<1>2. NewRow(i) \in Row
  BY <1>1 DEF NewRow, NoRow, Row, Open
<1>3. RowOK(NewRow(i)) /\ NewRow(i).inst = i
  BY <1>1 DEF NewRow, NoRow, RowOK, Open
<1> QED  BY <1>2, <1>3

\* fail spends a retry; an open row had one left, so none goes below zero.
LEMMA FailedRow ==
    ASSUME NEW r \in Row, RowOK(r), r.state \in Open
    PROVE  /\ Failed(r) \in Row /\ RowOK(Failed(r))
           /\ Failed(r).inst = r.inst
<1> DEFINE left == r.retries - 1
<1>1. left \in 0 .. Retries
  BY RetriesAssumption DEF Row, RowOK
<1>2. r.inst \in Instances /\ r.state \in {"READY", "LOCKED"}
  BY DEF Row, RowOK, Open
<1>3. r.settled = FALSE /\ r.advanced = FALSE
  BY <1>2 DEF Row, RowOK
<1> HIDE DEF left
<1>4. Failed(r) = [r EXCEPT !.retries = left,
                            !.state   = IF left > 0 THEN "READY" ELSE "FAILED",
                            !.due     = IF left > 0 THEN FALSE ELSE r.due,
                            !.owner   = NoWorker,
                            !.expired = FALSE]
  BY DEF Failed, left
<1>5. Failed(r) \in Row
  BY <1>1, <1>4 DEF Row, Open
<1>6. RowOK(Failed(r)) /\ Failed(r).inst = r.inst
  BY <1>1, <1>2, <1>3, <1>4 DEF Row, RowOK, Open
<1> QED BY <1>5, <1>6

LEMMA FailRows ==
    ASSUME RowsInv, NEW t, NEW w, Fail(t, w)
    PROVE  RowsInv' /\ RowsKept
<1> DEFINE F == {u \in {t} : Failable(u, w)}
<1>1. tasks' = [u \in Ids |-> IF u \in F THEN Failed(tasks[u]) ELSE tasks[u]]
  BY DEF Fail, Update
<1>2. \A u \in Ids : tasks[u] \in Row /\ RowOK(tasks[u])
  BY DEF RowsInv, TasksTypeOK, RowsConsistent
<1>3. \A u \in F : tasks[u].state = "LOCKED"
  BY DEF Failable
<1> HIDE DEF F
<1>4. ASSUME NEW u \in Ids
      PROVE  /\ tasks'[u] \in Row /\ RowOK(tasks'[u])
             /\ tasks'[u].inst = tasks[u].inst
             /\ u \in F \/ tasks'[u].state = tasks[u].state
  <2>1. CASE u \in F
    BY <1>1, <1>2, <1>3, <2>1, FailedRow DEF Open
  <2>2. CASE u \notin F
    BY <1>1, <1>2, <2>2
  <2> QED  BY <2>1, <2>2
<1> QED  BY <1>1, <1>3, <1>4 DEF RowsInv, TasksTypeOK, RowsConsistent, RowsKept, Open

\* A row gets its owner with its lock, and loses both together.
LEMMA LockedRow ==
    ASSUME NEW r \in Row, RowOK(r), r.state = "READY", NEW w \in Workers, NEW r2,
           r2 = [r EXCEPT !.state = "LOCKED", !.owner = w, !.expired = FALSE]
    PROVE  r2 \in Row /\ RowOK(r2) /\ r2.inst = r.inst
<1>1. r2 \in Row
  BY DEF Row, Open
<1>2. RowOK(r2) /\ r2.inst = r.inst
  BY NoWorkerAssumption DEF Row, RowOK, Open
<1> QED  BY <1>1, <1>2

LEMMA ReclaimedRow ==
    ASSUME NEW r \in Row, RowOK(r), r.state = "LOCKED", NEW r2,
           r2 = [r EXCEPT !.state = "READY", !.owner = NoWorker, !.expired = FALSE]
    PROVE  r2 \in Row /\ RowOK(r2) /\ r2.inst = r.inst
<1>1. r2 \in Row
  BY DEF Row, Open
<1>2. RowOK(r2) /\ r2.inst = r.inst
  BY DEF Row, RowOK, Open
<1> QED  BY <1>1, <1>2

LEMMA MarkedRow ==
    ASSUME NEW r \in Row, RowOK(r), r.state = "COMPLETED", NEW r2,
           r2 = [r EXCEPT !.advanced = TRUE]
    PROVE  /\ r2 \in Row /\ RowOK(r2)
           /\ r2.inst = r.inst /\ r2.state = "COMPLETED"
  BY DEF Row, RowOK, Open

\* lock_ready: a READY row gets an owner with its lock.
LEMMA LockReadyRows ==
    ASSUME RowsInv, NEW w \in Workers, NEW S, S \subseteq Lockable, LockReady(w, S)
    PROVE  RowsInv' /\ RowsKept
<1>1. tasks' = [u \in Ids |-> IF u \in S
                              THEN [tasks[u] EXCEPT !.state = "LOCKED", !.owner = w,
                                                    !.expired = FALSE]
                              ELSE tasks[u]]
  BY DEF LockReady, Update
<1>2. \A u \in Ids : tasks[u] \in Row /\ RowOK(tasks[u])
  BY DEF RowsInv, TasksTypeOK, RowsConsistent
<1>3. \A u \in S : u \in Ids /\ tasks[u].state = "READY"
  BY DEF Lockable
<1>4. ASSUME NEW u \in Ids
      PROVE  /\ tasks'[u] \in Row /\ RowOK(tasks'[u])
             /\ tasks'[u].inst = tasks[u].inst
             /\ u \in S \/ tasks'[u].state = tasks[u].state
  <2>1. CASE u \in S
    <3>1. PICK r : r = tasks[u]
      OBVIOUS
    <3>2. tasks'[u] = [r EXCEPT !.state = "LOCKED", !.owner = w, !.expired = FALSE]
      BY <1>1, <2>1, <3>1
    <3>3. r \in Row /\ RowOK(r) /\ r.state = "READY"
      BY <1>2, <1>3, <2>1, <3>1
    <3>4. PICK r2 : r2 = tasks'[u]
      OBVIOUS
    <3>5. r2 = [r EXCEPT !.state = "LOCKED", !.owner = w, !.expired = FALSE]
      BY <3>2, <3>4
    <3>6. r2 \in Row /\ RowOK(r2) /\ r2.inst = r.inst
      BY ONLY w \in Workers, <3>3, <3>5, LockedRow
    <3> QED  BY <2>1, <3>1, <3>4, <3>6
  <2>2. CASE u \notin S
    BY <1>1, <1>2, <2>2
  <2> QED  BY <2>1, <2>2
<1> QED  BY <1>1, <1>3, <1>4 DEF RowsInv, TasksTypeOK, RowsConsistent, RowsKept, Open

\* reclaim_expired_locks: a LOCKED row loses its owner.
LEMMA ReclaimRows ==
    ASSUME RowsInv, ReclaimExpired
    PROVE  RowsInv' /\ RowsKept
<1>1. tasks' = [u \in Ids |-> IF u \in Expired
                              THEN [tasks[u] EXCEPT !.state = "READY", !.owner = NoWorker,
                                                    !.expired = FALSE]
                              ELSE tasks[u]]
  BY DEF ReclaimExpired, Update
<1>2. \A u \in Ids : tasks[u] \in Row /\ RowOK(tasks[u])
  BY DEF RowsInv, TasksTypeOK, RowsConsistent
<1>3. \A u \in Expired : u \in Ids /\ tasks[u].state = "LOCKED"
  BY DEF Expired
<1>4. ASSUME NEW u \in Ids
      PROVE  /\ tasks'[u] \in Row /\ RowOK(tasks'[u])
             /\ tasks'[u].inst = tasks[u].inst
             /\ u \in Expired \/ tasks'[u].state = tasks[u].state
  <2>1. CASE u \in Expired
    <3>1. PICK r : r = tasks[u]
      OBVIOUS
    <3>2. tasks'[u] = [r EXCEPT !.state = "READY", !.owner = NoWorker, !.expired = FALSE]
      BY <1>1, <2>1, <3>1
    <3>3. r \in Row /\ RowOK(r) /\ r.state = "LOCKED"
      BY <1>2, <1>3, <2>1, <3>1
    <3> QED  BY <2>1, <3>1, <3>2, <3>3, ReclaimedRow
  <2>2. CASE u \notin Expired
    BY <1>1, <1>2, <2>2
  <2> QED  BY <2>1, <2>2
<1> QED  BY <1>1, <1>3, <1>4 DEF RowsInv, TasksTypeOK, RowsConsistent, RowsKept, Open

\* complete: a LOCKED row becomes COMPLETED, and so Done.
LEMMA CompleteRows ==
    ASSUME RowsInv, NEW t \in Ids, Completable(t, Worker), Complete(t)
    PROVE  RowsInv' /\ RowsKept /\ Done(t)'
<1>1. tasks \in [Ids -> Row] /\ \A u \in Ids : tasks[u] \in Row /\ RowOK(tasks[u])
  BY DEF RowsInv, TasksTypeOK, RowsConsistent
<1>2. tasks[t].state = "LOCKED" /\ tasks[t].inst \in Instances
  BY <1>1 DEF Completable, RowOK
<1>3. tasks' = [u \in Ids |-> IF u = t
                              THEN [tasks[u] EXCEPT !.state = "COMPLETED", !.older = Unadvanced]
                              ELSE tasks[u]]
  BY <1>1 DEF Complete
<1>4. Unadvanced \subseteq Ids /\ tasks[t].expired = FALSE
  BY <1>1 DEF Unadvanced, Completable, Row
<1>5. /\ tasks'[t] \in Row /\ RowOK(tasks'[t])
      /\ tasks'[t].inst = tasks[t].inst /\ tasks'[t].state = "COMPLETED"
  <2>1. PICK r : r = tasks[t]
    OBVIOUS
  <2>2. tasks'[t] = [r EXCEPT !.state = "COMPLETED", !.older = Unadvanced]
    BY <1>3, <2>1
  <2>3. r \in Row /\ RowOK(r) /\ r.state = "LOCKED" /\ r.expired = FALSE
    BY <1>1, <1>2, <1>4, <2>1
  <2>5. PICK U : U = Unadvanced
    OBVIOUS
  <2>6. U \subseteq Ids /\ tasks'[t] = [r EXCEPT !.state = "COMPLETED", !.older = U]
    BY <1>4, <2>2, <2>5
  <2>7. PICK r2 : r2 = tasks'[t]
    OBVIOUS
  <2>8. r2 = [r EXCEPT !.state = "COMPLETED", !.older = U]
    BY <2>6, <2>7
  <2>9. r2 \in Row /\ r2.inst = r.inst /\ r2.state = "COMPLETED"
    BY ONLY <2>3, <2>6, <2>8 DEF Row, Open
  <2>10. RowOK(r2)
    BY ONLY <2>3, <2>6, <2>8 DEF Row, RowOK, Open
  <2> QED  BY <2>1, <2>7, <2>9, <2>10
<1>6. \A u \in Ids : u # t => tasks'[u] = tasks[u]
  BY <1>3
<1> QED
  BY <1>1, <1>2, <1>3, <1>5, <1>6
     DEF RowsInv, TasksTypeOK, RowsConsistent, RowsKept, Done, Open

\* mark_advanced, on a row that is done.
LEMMA MarkRows ==
    ASSUME RowsInv, NEW t, Done(t), MarkAdvanced(t)
    PROVE  RowsInv' /\ RowsKept
<1> DEFINE M == {u \in {t} : Present(u)}
<1>1. tasks' = [u \in Ids |-> IF u \in M THEN [tasks[u] EXCEPT !.advanced = TRUE]
                              ELSE tasks[u]]
  BY DEF MarkAdvanced, Update
<1>2. \A u \in Ids : tasks[u] \in Row /\ RowOK(tasks[u])
  BY DEF RowsInv, TasksTypeOK, RowsConsistent
<1>3. \A u \in M : tasks[u].state = "COMPLETED"
  BY DEF Done, Present
<1> HIDE DEF M
<1>4. ASSUME NEW u \in Ids
      PROVE  /\ tasks'[u] \in Row /\ RowOK(tasks'[u])
             /\ tasks'[u].inst = tasks[u].inst
             /\ tasks'[u].state = tasks[u].state
  <2>1. CASE u \in M
    <3>1. PICK r : r = tasks[u]
      OBVIOUS
    <3>2. tasks'[u] = [r EXCEPT !.advanced = TRUE]
      BY <1>1, <2>1, <3>1
    <3> QED  BY <1>2, <1>3, <2>1, <3>1, <3>2, MarkedRow
  <2>2. CASE u \notin M
    BY <1>1, <1>2, <2>2
  <2> QED  BY <2>1, <2>2
<1> QED  BY <1>1, <1>4 DEF RowsInv, TasksTypeOK, RowsConsistent, RowsKept, Open

\* The passing of time changes one flag of one row.
LEMMA TimeRows ==
    ASSUME RowsInv, NEW t \in Ids, BecomesDue(t) \/ LockExpires(t) \/ Settles(t)
    PROVE  RowsInv' /\ RowsKept
<1>1. tasks \in [Ids -> Row] /\ \A u \in Ids : tasks[u] \in Row /\ RowOK(tasks[u])
  BY DEF RowsInv, TasksTypeOK, RowsConsistent
<1>2. \A u \in Ids : u # t => tasks'[u] = tasks[u]
  BY <1>1 DEF BecomesDue, LockExpires, Settles
<1>3. /\ tasks'[t] \in Row /\ RowOK(tasks'[t])
      /\ tasks'[t].inst = tasks[t].inst
      /\ tasks'[t].state = tasks[t].state
  <2>1. CASE BecomesDue(t)
    <3>1. tasks'[t] = [tasks[t] EXCEPT !.due = TRUE]
      BY <1>1, <2>1 DEF BecomesDue
    <3> QED  BY <1>1, <3>1 DEF Row, RowOK, Open
  <2>2. CASE LockExpires(t)
    <3>1. tasks'[t] = [tasks[t] EXCEPT !.expired = TRUE] /\ tasks[t].state = "LOCKED"
      BY <1>1, <2>2 DEF LockExpires
    <3> QED  BY <1>1, <3>1 DEF Row, RowOK, Open
  <2>3. CASE Settles(t)
    <3>1. tasks'[t] = [tasks[t] EXCEPT !.settled = TRUE] /\ tasks[t].state = "COMPLETED"
      BY <1>1, <2>3 DEF Settles, Unadvanced
    <3> QED  BY <1>1, <3>1 DEF Row, RowOK, Open
  <2> QED  BY <2>1, <2>2, <2>3
<1>4. DOMAIN tasks' = Ids /\ tasks' = [u \in Ids |-> tasks'[u]]
  BY <1>1 DEF BecomesDue, LockExpires, Settles
<1> QED
  BY <1>1, <1>2, <1>3, <1>4 DEF RowsInv, TasksTypeOK, RowsConsistent, RowsKept, Open

-----------------------------------------------------------------------------
(* The engine, whoever calls it.  EngineOK is the part of IndInv about it. *)

EngineOK ==
    /\ RowsInv
    /\ StoreTypeOK
    /\ eng \in [Procs -> Call]
    /\ used \subseteq Ids
    /\ fired \in [Ids -> Nat]
    /\ EngineInv

\* Rows that are done stay so: an INSERT takes an identifier not in use.
DoneKept == \A t \in Ids : Done(t) => Done(t)'

LEMMA RowsKeptDone == ASSUME RowsKept PROVE DoneKept
  BY DEF RowsKept, DoneKept, Done, Open

LEMMA InstanceDistinct == \A t : Unborn(t) => ~Done(t)
  BY NoInstanceAssumption DEF Unborn, Done

\* A step that keeps the rows, and changes no call, keeps EngineInv.
LEMMA EngineUntouched ==
    ASSUME EngineOK, RowsInv', RowsKept, UNCHANGED <<tables, eng>>
    PROVE  EngineOK'
  BY DEF EngineOK, tables, StoreTypeOK, EngineInv, Off, Unborn, RowsKept, Call

\* A call that begins: by then the previous one has returned.
LEMMA EngineCalled ==
    ASSUME EngineOK, UNCHANGED <<tables, tasks>>,
           NEW p \in Procs, NEW i \in Instances, NEW id \in Ids, CallCompleted(p, i, id)
    PROVE  EngineOK'
<1> DEFINE c == [NoCall EXCEPT !.pc = "row", !.inst = i, !.id = id]
<1>1. c \in Call /\ c.inst = i /\ c.made = {}
  BY DEF NoCall, Call, NoSnapshot, Snapshot
<1>2. eng' = [eng EXCEPT ![p] = c]
  BY DEF CallCompleted
<1> HIDE DEF c
<1>3. eng' \in [Procs -> Call]
  BY <1>1, <1>2 DEF EngineOK
<1>4. \A q \in Procs : IF q = p THEN eng'[q] = c ELSE eng'[q] = eng[q]
  BY <1>2 DEF EngineOK
<1>5. EngineInv'
  BY <1>1, <1>4 DEF EngineOK, EngineInv, tables, Off, Unborn
<1> QED  BY <1>3, <1>5 DEF EngineOK, RowsInv, TasksTypeOK, RowsConsistent, tables, StoreTypeOK

\* A call that ends, with or without an error.
LEMMA CallReturned ==
    ASSUME EngineOK, UNCHANGED <<tables, tasks>>, NEW p \in Procs, Return(p)
    PROVE  EngineOK'
<1>1. NoCall \in Call /\ NoCall.pc = "off" /\ NoCall.made = {}
  BY DEF NoCall, Call, NoSnapshot, Snapshot
<1>2. eng' \in [Procs -> Call]
  BY <1>1 DEF EngineOK, Return
<1>3. \A q \in Procs : IF q = p THEN eng'[q] = NoCall ELSE eng'[q] = eng[q]
  BY DEF EngineOK, Return
<1>4. EngineInv'
  BY <1>1, <1>3 DEF EngineOK, EngineInv, tables, Off, Unborn
<1> QED  BY <1>2, <1>4 DEF EngineOK, RowsInv, TasksTypeOK, RowsConsistent, tables, StoreTypeOK
\* save: the identifiers of the arriving tokens were not in use.
LEMMA EngineSaves ==
    ASSUME EngineOK, NEW p \in Procs, EngineSave(p)
    PROVE  EngineOK'
<1> DEFINE T == Targets(p)
           toks == eng[p].snap.toks
<1>1. eng[p] \in Call /\ eng[p].pc = "save" /\ eng[p].inst \in Instances
  BY DEF EngineOK, EngineInv, EngineSave, Off
<1>2. toks \subseteq Token
  BY <1>1 DEF Call, Snapshot
<1>3. Movable(p, toks) \subseteq toks
  BY DEF Movable
<1>4. T \subseteq Nodes
  <2>1. \A k \in Movable(p, toks) : k.node \in Nodes
    BY <1>2, <1>3 DEF Token
  <2> QED  BY <2>1, FlowAssumption DEF Targets
<1>5. PICK f \in [T -> Ids \ used] :
         /\ Fresh(f)
         /\ Save(eng[p].inst, Moved(p, f))
         /\ used' = used \cup {f[n] : n \in T}
         /\ eng' = [eng EXCEPT ![p].pc = "create",
                               ![p].snap = NoSnapshot,
                               ![p].made = {f[n] : n \in T \cap Timers}]
  BY DEF EngineSave
<1> DEFINE new == {f[n] : n \in T}
           made == {f[n] : n \in T \cap Timers}
<1>6. made \subseteq new /\ new \subseteq Ids \ used
  BY <1>5
<1> HIDE DEF T, toks, new, made
<1>7. Moved(p, f) \in Snapshot
  <2>1. Arrive(eng[p].inst, f) \subseteq Token
    BY <1>1, <1>4, <1>5 DEF Arrive, Token
  <2> QED  BY <1>2, <2>1 DEF Moved, Snapshot, InstanceStates, toks
<1>8. StoreTypeOK'
  <2>1. inst' = [inst EXCEPT ![eng[p].inst] = Moved(p, f).state]
    BY <1>5 DEF Save
  <2>2. tokens' = (tokens \ TokensOf(eng[p].inst)) \cup Moved(p, f).toks
    BY <1>5 DEF Save
  <2>3. Moved(p, f).state \in InstanceStates \cup {"none"} /\ Moved(p, f).toks \subseteq Token
    BY <1>7 DEF Snapshot
  <2> QED  BY <2>1, <2>2, <2>3 DEF EngineOK, StoreTypeOK
<1>9. /\ eng' \in [Procs -> Call]
      /\ eng'[p].inst = eng[p].inst /\ eng'[p].made = made
      /\ \A q \in Procs : q # p => eng'[q] = eng[q]
  <2> DEFINE c == [eng[p] EXCEPT !.pc = "create", !.snap = NoSnapshot, !.made = made]
  <2>1. eng' = [eng EXCEPT ![p] = c]
    BY <1>1, <1>5 DEF EngineOK, Call, made, T
  <2>2. c \in Call /\ c.inst = eng[p].inst /\ c.made = made
    BY <1>1, <1>6 DEF Call, NoSnapshot, Snapshot
  <2> HIDE DEF c
  <2> QED  BY <2>1, <2>2 DEF EngineOK
<1>10. used' = used \cup new /\ tasks' = tasks
  BY <1>5 DEF new, T, EngineSave
<1>11. EngineInv'
  <2>1. \A q \in Procs : ~Off(q)' => eng'[q].inst \in Instances
    BY <1>1, <1>9 DEF EngineOK, EngineInv, Off
  <2>2. \A t \in new : t \in Ids /\ t \notin used /\ Unborn(t)
    BY <1>6 DEF EngineOK, EngineInv
  <2>3. \A q \in Procs : \A t \in eng'[q].made : t \in used' /\ Unborn(t)'
    BY <1>6, <1>9, <1>10, <2>2 DEF EngineOK, EngineInv, Unborn
  <2>4. \A q, r \in Procs : q # r => eng'[q].made \cap eng'[r].made = {}
    BY <1>6, <1>9, <2>2 DEF EngineOK, EngineInv
  <2>5. \A t \in Ids \ used' : Unborn(t)'
    BY <1>10 DEF EngineOK, EngineInv, Unborn
  <2> QED  BY <2>1, <2>3, <2>4, <2>5 DEF EngineInv
<1>12. fired' \in [Ids -> Nat]
  BY DEF EngineSave, EngineOK
<1> QED
  BY <1>6, <1>8, <1>9, <1>10, <1>11, <1>12
     DEF EngineOK, RowsInv, TasksTypeOK, RowsConsistent

\* create: the row is not in use, so it is nobody's done row.
LEMMA EngineCreates ==
    ASSUME EngineOK, NEW p \in Procs, EngineCreate(p)
    PROVE  EngineOK' /\ DoneKept
<1>1. eng[p] \in Call /\ eng[p].inst \in Instances
  BY DEF EngineOK, EngineInv, EngineCreate, Off
<1>2. CASE inst[eng[p].inst] = "none"
  <2>1. Return(p) /\ UNCHANGED <<tables, tasks>>
    BY <1>2 DEF EngineCreate, tables
  <2> QED  BY <2>1, CallReturned DEF DoneKept, Done
<1>3. CASE inst[eng[p].inst] # "none"
  <2>1. PICK t \in eng[p].made :
            Create(t, eng[p].inst) /\ eng' = [eng EXCEPT ![p].made = @ \ {t}]
    BY <1>3 DEF EngineCreate
  <2>2. t \in Ids /\ t \in used /\ Unborn(t)
    BY <2>1 DEF EngineOK, EngineInv, Unborn
  <2>3. NewRow(eng[p].inst) \in Row /\ RowOK(NewRow(eng[p].inst))
        /\ NewRow(eng[p].inst).inst = eng[p].inst
    BY <1>1, NewRowOK
  <2>4. /\ tasks' \in [Ids -> Row]
        /\ \A u \in Ids : IF u = t THEN tasks'[u] = NewRow(eng[p].inst)
                                   ELSE tasks'[u] = tasks[u]
    BY <2>1, <2>2, <2>3 DEF Create, EngineOK, RowsInv, TasksTypeOK
  <2>5. RowsInv'
    BY <2>3, <2>4 DEF EngineOK, RowsInv, TasksTypeOK, RowsConsistent
  <2>6. DoneKept
    BY <2>2, <2>4, InstanceDistinct DEF DoneKept, Done
  <2>7. /\ eng' \in [Procs -> Call]
        /\ eng'[p].inst = eng[p].inst /\ eng'[p].pc = eng[p].pc
        /\ eng'[p].made = eng[p].made \ {t}
        /\ \A q \in Procs : q # p => eng'[q] = eng[q]
    BY <1>1, <2>1 DEF EngineOK, Call
  <2>8. EngineInv'
    BY <2>1, <2>2, <2>4, <2>7 DEF EngineOK, EngineInv, EngineCreate, Off, Unborn
  <2> QED  BY <2>5, <2>6, <2>7, <2>8 DEF EngineOK, EngineCreate, StoreTypeOK
<1> QED  BY <1>2, <1>3

LEMMA EngineStepInv ==
    ASSUME EngineOK, NEW p \in Procs, EngineStep(p) \/ EngineError(p)
    PROVE  EngineOK' /\ DoneKept
<1>1. ASSUME UNCHANGED <<tables, tasks>> PROVE DoneKept
  BY <1>1 DEF DoneKept, Done
<1>2. ASSUME UNCHANGED <<tables, tasks>>,
             NEW c \in Call, eng' = [eng EXCEPT ![p] = c],
             c.inst = eng[p].inst, c.made = eng[p].made, ~Off(p)
      PROVE  EngineOK'
  <2>1. /\ eng' \in [Procs -> Call]
        /\ \A q \in Procs : IF q = p THEN eng'[q] = c ELSE eng'[q] = eng[q]
    BY <1>2 DEF EngineOK
  <2>2. EngineInv'
    BY <1>2, <2>1 DEF EngineOK, EngineInv, tables, Off, Unborn
  <2> QED
    BY <1>2, <2>1, <2>2 DEF EngineOK, RowsInv, TasksTypeOK, RowsConsistent, tables, StoreTypeOK
<1>3. CASE EngineLoadRow(p)
  <2> DEFINE i == eng[p].inst
             c == [eng[p] EXCEPT !.pc = "tokens", !.snap.state = inst[i]]
  <2>1. UNCHANGED <<tables, tasks>> /\ ~Off(p) /\ eng[p] \in Call /\ i \in Instances
    BY <1>3 DEF EngineLoadRow, tables, EngineOK, EngineInv, Off
  <2>2. CASE Return(p)
    BY <1>1, <2>1, <2>2, CallReturned
  <2>3. CASE eng' = [eng EXCEPT ![p].pc = "tokens", ![p].snap.state = inst[i]]
    <3>1. c \in Call /\ c.inst = eng[p].inst /\ c.made = eng[p].made
      BY <2>1 DEF Call, Snapshot, EngineOK, StoreTypeOK
    <3>2. eng' = [eng EXCEPT ![p] = c]
      BY <2>1, <2>3 DEF EngineOK, Call, Snapshot
    <3> HIDE DEF c
    <3> QED  BY <1>1, <1>2, <2>1, <3>1, <3>2
  <2> QED  BY <1>3, <2>2, <2>3 DEF EngineLoadRow, InstanceRow
<1>4. CASE EngineLoadTokens(p)
  <2> DEFINE toks == TokensOf(eng[p].inst)
             c == [eng[p] EXCEPT !.pc = "save", !.snap.toks = toks]
  <2>1. UNCHANGED <<tables, tasks>> /\ ~Off(p) /\ eng[p] \in Call
    BY <1>4 DEF EngineLoadTokens, tables, EngineOK, Off
  <2>2. CASE Return(p)
    BY <1>1, <2>1, <2>2, CallReturned
  <2>3. CASE eng' = [eng EXCEPT ![p].pc = "save", ![p].snap.toks = toks]
    <3>1. toks \subseteq Token
      BY DEF TokensOf, EngineOK, StoreTypeOK
    <3> HIDE DEF toks
    <3>2. c \in Call /\ c.inst = eng[p].inst /\ c.made = eng[p].made
      BY <2>1, <3>1 DEF Call, Snapshot
    <3>3. eng' = [eng EXCEPT ![p] = c]
      BY <2>1, <2>3 DEF EngineOK, Call, Snapshot
    <3> HIDE DEF c
    <3> QED  BY <1>1, <1>2, <2>1, <3>2, <3>3
  <2> QED  BY <1>4, <2>2, <2>3 DEF EngineLoadTokens
<1>5. CASE EngineSave(p)
  BY <1>5, EngineSaves DEF EngineSave, DoneKept, Done
<1>6. CASE EngineCreate(p)
  BY <1>6, EngineCreates
<1>7. CASE EngineReturn(p) \/ EngineError(p)
  <2>1. Return(p) /\ UNCHANGED <<tables, tasks>>
    BY <1>7 DEF EngineReturn, EngineError, tables
  <2> QED  BY <1>1, <2>1, CallReturned
<1> QED  BY <1>3, <1>4, <1>5, <1>6, <1>7 DEF EngineStep
-----------------------------------------------------------------------------
(* The loops and the advisory locks.                                       *)

LoopsOK ==
    /\ srv \in [Servers -> Loop]
    /\ advisory \in [Keys -> Servers \cup {NoServer}]
    /\ faults \in 0 .. MaxFaults
    /\ LoopInv
    /\ LockInv

LEMMA IndInvParts == IndInv <=> EngineOK /\ LoopsOK
  BY DEF IndInv, EngineOK, LoopsOK, RowsInv, TypeOK, EngineTypeOK

\* One loop goes on as l.  It keeps its lock, or gives back what it holds, or
\* takes a lock that nobody holds.
LEMMA LoopMoves ==
    ASSUME LoopsOK, DoneKept, NEW s \in Servers, NEW l \in Loop,
           srv' = [srv EXCEPT ![s] = l],
           l.pc \in Holding \cup {"get", "try"} => Done(l.cur)',
           l.phase = "reconcile" => \A t \in l.todo : Done(t)',
           faults' \in 0 .. MaxFaults,
           \/ /\ UNCHANGED advisory
              /\ l.pc \in Holding => srv[s].pc \in Holding /\ l.cur = Cur(s)
           \/ /\ Release(s)
              /\ l.pc \notin Holding
           \/ /\ l.cur \in Ids
              /\ advisory[HashText[l.cur]] = NoServer
              /\ advisory' = [advisory EXCEPT ![HashText[l.cur]] = s]
    PROVE  LoopsOK'
<1>1. /\ srv' \in [Servers -> Loop]
      /\ \A r \in Servers : IF r = s THEN srv'[r] = l ELSE srv'[r] = srv[r]
  BY DEF LoopsOK
<1>2. LoopInv'
  <2>1. \A t : Done(t) => Done(t)'
    BY DEF DoneKept, Done
  <2> QED  BY <1>1, <2>1 DEF LoopsOK, LoopInv, Cur
<1>3. \A r \in Servers : srv[r].pc \in Holding => Cur(r) \in Ids /\ Key(r) \in Keys
  BY HashTextAssumption DEF LoopsOK, LoopInv, Done, Key
<1>4. advisory' \in [Keys -> Servers \cup {NoServer}] /\ LockInv'
  <2>1. CASE UNCHANGED advisory
             /\ (l.pc \in Holding => srv[s].pc \in Holding /\ l.cur = Cur(s))
    BY <1>1, <2>1 DEF LoopsOK, LockInv, Key, Cur
  <2>2. CASE Release(s) /\ l.pc \notin Holding
    <3>1. \A k \in Keys : advisory'[k] = IF advisory[k] = s THEN NoServer ELSE advisory[k]
      BY <2>2 DEF Release
    <3>2. advisory' \in [Keys -> Servers \cup {NoServer}]
      BY <2>2 DEF Release, LoopsOK
    <3>3. ASSUME NEW r \in Servers, srv'[r].pc \in Holding PROVE advisory'[Key(r)'] = r
      <4>1. r # s /\ srv'[r] = srv[r]
        BY <1>1, <2>2, <3>3
      <4>2. Key(r)' = Key(r) /\ Key(r) \in Keys /\ advisory[Key(r)] = r
        BY <1>3, <3>3, <4>1 DEF LoopsOK, LockInv, Key, Cur
      <4> QED  BY <3>1, <4>1, <4>2
    <3> QED  BY <3>2, <3>3 DEF LockInv
  <2>3. CASE /\ l.cur \in Ids
             /\ advisory[HashText[l.cur]] = NoServer
             /\ advisory' = [advisory EXCEPT ![HashText[l.cur]] = s]
    <3> DEFINE k == HashText[l.cur]
    <3>1. k \in Keys /\ advisory[k] = NoServer /\ advisory' = [advisory EXCEPT ![k] = s]
      BY <2>3, HashTextAssumption
    <3> HIDE DEF k
    <3>2. advisory' \in [Keys -> Servers \cup {NoServer}]
      BY <3>1 DEF LoopsOK
    <3>3. ASSUME NEW r \in Servers, srv'[r].pc \in Holding PROVE advisory'[Key(r)'] = r
      <4>1. CASE r = s
        <5>1. Key(r)' = k
          BY <1>1, <4>1 DEF Key, Cur, k
        <5> QED  BY <3>1, <4>1, <5>1 DEF LoopsOK
      <4>2. CASE r # s
        <5>1. Key(r)' = Key(r) /\ Key(r) \in Keys /\ advisory[Key(r)] = r
          BY <1>1, <1>3, <3>3, <4>2 DEF LoopsOK, LockInv, Key, Cur
        <5>2. Key(r) # k
          BY <3>1, <5>1, ServersAssumption
        <5> QED  BY <3>1, <5>1, <5>2 DEF LoopsOK
      <4> QED  BY <4>1, <4>2
    <3> QED  BY <3>2, <3>3 DEF LockInv
  <2> QED  BY <2>1, <2>2, <2>3
<1> QED  BY <1>1, <1>2, <1>4 DEF LoopsOK
Labels == Holding \cup {"idle", "lock", "next", "get", "fail", "try"}

LEMMA GotoMoves ==
    ASSUME LoopsOK, DoneKept, NEW s \in Servers, NEW label \in Labels, Goto(s, label),
           UNCHANGED advisory, faults' \in 0 .. MaxFaults,
           label \in Holding => srv[s].pc \in Holding,
           label = "try" => srv[s].pc = "get",
           label # "get"
    PROVE  LoopsOK'
<1>0. PICK l : l = [srv[s] EXCEPT !.pc = label]
  OBVIOUS
<1>1. srv[s] \in Loop
  BY DEF LoopsOK
<1>2. l \in Loop /\ l.pc = label /\ l.cur = Cur(s) /\ l.phase = srv[s].phase
      /\ l.todo = srv[s].todo
  BY <1>0, <1>1 DEF Loop, Labels, Cur
<1>3. srv' = [srv EXCEPT ![s] = l]
  BY <1>0, <1>1 DEF Goto, LoopsOK
<1>4. \A t : Done(t) => Done(t)'
  BY DEF DoneKept, Done
<1>5. l.pc \in Holding \cup {"get", "try"} => Done(l.cur)'
  BY <1>2, <1>4 DEF LoopsOK, LoopInv
<1>6. l.phase = "reconcile" => \A t \in l.todo : Done(t)'
  BY <1>2, <1>4 DEF LoopsOK, LoopInv
<1> QED  BY <1>2, <1>3, <1>5, <1>6, LoopMoves

LEMMA NextTaskMoves ==
    ASSUME LoopsOK, DoneKept, NEW s \in Servers, NextTask(s),
           UNCHANGED advisory \/ Release(s), faults' \in 0 .. MaxFaults
    PROVE  LoopsOK'
<1>0. PICK l : l = [srv[s] EXCEPT !.pc = "next", !.cur = NoId, !.seen = "none"]
  OBVIOUS
<1>1. srv[s] \in Loop
  BY DEF LoopsOK
<1>2. l \in Loop /\ l.pc = "next" /\ l.phase = srv[s].phase /\ l.todo = srv[s].todo
  BY <1>0, <1>1 DEF Loop, InstanceStates
<1>3. srv' = [srv EXCEPT ![s] = l]
  BY <1>0, <1>1 DEF NextTask, LoopsOK
<1>4. \A t : Done(t) => Done(t)'
  BY DEF DoneKept, Done
<1>5. l.phase = "reconcile" => \A t \in l.todo : Done(t)'
  BY <1>2, <1>4 DEF LoopsOK, LoopInv
<1>6. l.pc \notin Holding \cup {"get", "try"}
  BY <1>2 DEF Holding
<1> QED  BY <1>2, <1>3, <1>5, <1>6, LoopMoves

LEMMA IdleMoves ==
    ASSUME LoopsOK, DoneKept, NEW s \in Servers, srv' = [srv EXCEPT ![s] = IdleLoop],
           UNCHANGED advisory \/ Release(s), faults' \in 0 .. MaxFaults
    PROVE  LoopsOK'
<1>1. IdleLoop \in Loop /\ IdleLoop.phase = "fire"
      /\ IdleLoop.pc \notin Holding \cup {"get", "try"}
  BY DEF IdleLoop, Loop, Holding, InstanceStates
<1> QED  BY <1>1, LoopMoves

\* Nothing happens to the loops, or only the clock of the faults goes on.
LEMMA LoopsUntouched ==
    ASSUME LoopsOK, DoneKept, UNCHANGED <<srv, advisory>>, faults' \in 0 .. MaxFaults
    PROVE  LoopsOK'
<1>1. \A t : Done(t) => Done(t)'
  BY DEF DoneKept, Done
<1> QED  BY <1>1 DEF LoopsOK, LoopInv, LockInv, Cur, Key

-----------------------------------------------------------------------------
(* Every step of a loop.                                                   *)

LEMMA ReadsOnly ==
    ASSUME EngineOK, UNCHANGED <<tables, tasks, eng>>
    PROVE  EngineOK' /\ DoneKept
  BY RowsUnchanged, RowsKeptDone, EngineUntouched DEF EngineOK

LEMMA RowsOnly ==
    ASSUME EngineOK, RowsInv', RowsKept, UNCHANGED <<tables, eng>>
    PROVE  EngineOK' /\ DoneKept
  BY RowsKeptDone, EngineUntouched

LEMMA PollStep ==
    ASSUME EngineOK, LoopsOK, NEW s \in Servers,
           \/ Reclaim(s) \/ LockDueTimers(s) \/ CompleteTask(s) \/ GetTask(s)
           \/ FailTask(s) \/ SelectUnadvanced(s) \/ Reconcile(s) \/ EndPoll(s)
    PROVE  EngineOK' /\ LoopsOK'
<1>1. srv[s] \in Loop /\ faults \in 0 .. MaxFaults
  BY DEF LoopsOK
<1>2. RowsInv
  BY DEF EngineOK
<1>3. CASE Reclaim(s)
  <2>1. EngineOK' /\ DoneKept
    BY <1>2, <1>3, ReclaimRows, RowsOnly DEF Reclaim
  <2> QED  BY <1>1, <1>3, <2>1, GotoMoves DEF Reclaim, Labels, Holding
<1>4. CASE LockDueTimers(s)
  <2>1. PICK S \in Batches(Lockable, BatchLimit) :
          /\ LockReady(Worker, S)
          /\ srv' = [srv EXCEPT ![s].pc = "next", ![s].phase = "fire", ![s].todo = S]
    BY <1>4 DEF LockDueTimers
  <2>2. S \subseteq Lockable /\ S \subseteq Ids
    BY <2>1 DEF Batches, Lockable
  <2>3. EngineOK' /\ DoneKept
    BY <1>2, <1>4, <2>1, <2>2, LockReadyRows, RowsOnly, WorkerAssumption DEF LockDueTimers
  <2>0. PICK l : l = [srv[s] EXCEPT !.pc = "next", !.phase = "fire", !.todo = S]
    OBVIOUS
  <2>4. l \in Loop /\ l.phase = "fire" /\ l.pc \notin Holding \cup {"get", "try"}
    BY <1>1, <2>2, <2>0 DEF Loop, Holding
  <2>5. srv' = [srv EXCEPT ![s] = l]
    BY <1>1, <2>1, <2>0 DEF LoopsOK
  <2> QED  BY <1>1, <1>4, <2>3, <2>4, <2>5, LoopMoves DEF LockDueTimers
<1>5. CASE CompleteTask(s)
  <2>1. PICK t \in srv[s].todo :
          /\ srv' = [srv EXCEPT ![s].pc = IF Completable(t, Worker) THEN "get" ELSE "fail",
                                ![s].cur = t, ![s].todo = @ \ {t}]
          /\ IF Completable(t, Worker) THEN Complete(t) ELSE UNCHANGED tasks
    BY <1>5 DEF CompleteTask
  <2>2. t \in Ids /\ srv[s].phase = "fire"
    BY <1>1, <1>5 DEF Loop, CompleteTask
  <2>0. PICK l : l = [srv[s] EXCEPT !.pc = IF Completable(t, Worker) THEN "get" ELSE "fail",
                                    !.cur = t, !.todo = @ \ {t}]
    OBVIOUS
  <2>3. /\ l \in Loop /\ l.phase = "fire" /\ l.pc \notin Holding /\ l.cur = t
        /\ l.pc \in {"get", "try"} => Completable(t, Worker)
    BY <1>1, <2>2, <2>0 DEF Loop, Holding
  <2>4. srv' = [srv EXCEPT ![s] = l]
    BY <1>1, <2>1, <2>0 DEF LoopsOK
  <2>5. EngineOK' /\ DoneKept /\ (Completable(t, Worker) => Done(t)')
    <3>1. CASE Completable(t, Worker)
      BY <1>2, <1>5, <2>1, <2>2, <3>1, CompleteRows, RowsOnly DEF CompleteTask
    <3>2. CASE ~Completable(t, Worker)
      BY <1>5, <2>1, <3>2, ReadsOnly DEF CompleteTask
    <3> QED  BY <3>1, <3>2
  <2> QED  BY <1>1, <1>5, <2>3, <2>4, <2>5, LoopMoves DEF CompleteTask
<1>6. CASE GetTask(s)
  <2>1. EngineOK' /\ DoneKept
    BY <1>6, ReadsOnly DEF GetTask
  <2> QED  BY <1>1, <1>6, <2>1, GotoMoves DEF GetTask, Labels, Holding
<1>7. CASE FailTask(s)
  <2>1. EngineOK' /\ DoneKept
    BY <1>2, <1>7, FailRows, RowsOnly DEF FailTask
  <2> QED  BY <1>1, <1>7, <2>1, NextTaskMoves DEF FailTask
<1>8. CASE SelectUnadvanced(s)
  <2>1. PICK S \in UnadvancedBatches(BatchLimit) :
          srv' = [srv EXCEPT ![s].phase = "reconcile", ![s].todo = S]
    BY <1>8 DEF SelectUnadvanced
  <2>2. S \subseteq Ids /\ \A t \in S : tasks[t].state = "COMPLETED"
    BY <2>1 DEF UnadvancedBatches, Batches, Settled, Unadvanced
  <2>3. \A t \in S : Done(t)
    BY <1>2, <2>2 DEF RowsInv, RowsConsistent, RowOK, Done
  <2>4. EngineOK' /\ DoneKept
    BY <1>8, ReadsOnly DEF SelectUnadvanced
  <2>0. PICK l : l = [srv[s] EXCEPT !.phase = "reconcile", !.todo = S]
    OBVIOUS
  <2>5. l \in Loop /\ l.pc \notin Holding \cup {"get", "try"} /\ l.todo = S
    BY <1>1, <1>8, <2>2, <2>0 DEF Loop, Holding, SelectUnadvanced
  <2>6. srv' = [srv EXCEPT ![s] = l]
    BY <1>1, <2>1, <2>0 DEF LoopsOK
  <2>7. \A t \in l.todo : Done(t)'
    BY <2>3, <2>4, <2>5, <2>2 DEF DoneKept
  <2> QED  BY <1>1, <1>8, <2>4, <2>5, <2>6, <2>7, LoopMoves DEF SelectUnadvanced
<1>9. CASE Reconcile(s)
  <2>1. PICK t \in srv[s].todo :
          srv' = [srv EXCEPT ![s].pc = "try", ![s].cur = t, ![s].todo = @ \ {t}]
    BY <1>9 DEF Reconcile
  <2>2. \A u \in srv[s].todo : Done(u) /\ u \in Ids
    BY <1>1, <1>9 DEF Reconcile, LoopsOK, LoopInv, Loop
  <2>3. EngineOK' /\ DoneKept
    BY <1>9, ReadsOnly DEF Reconcile
  <2>0. PICK l : l = [srv[s] EXCEPT !.pc = "try", !.cur = t, !.todo = @ \ {t}]
    OBVIOUS
  <2>4. l \in Loop /\ l.pc = "try" /\ l.cur = t /\ l.todo \subseteq srv[s].todo
    BY <1>1, <2>1, <2>2, <2>0 DEF Loop
  <2>5. srv' = [srv EXCEPT ![s] = l]
    BY <1>1, <2>1, <2>0 DEF LoopsOK
  <2>6. Done(l.cur)' /\ \A u \in l.todo : Done(u)'
    BY <2>1, <2>2, <2>3, <2>4 DEF DoneKept
  <2>7. l.pc \notin Holding
    BY <2>4 DEF Holding
  <2> QED  BY <1>1, <1>9, <2>3, <2>4, <2>5, <2>6, <2>7, LoopMoves DEF Reconcile
<1>10. CASE EndPoll(s)
  <2>1. EngineOK' /\ DoneKept
    BY <1>10, ReadsOnly DEF EndPoll
  <2> QED  BY <1>1, <1>10, <2>1, IdleMoves DEF EndPoll
<1> QED  BY <1>3, <1>4, <1>5, <1>6, <1>7, <1>8, <1>9, <1>10
\* Inside advance_after_task.
LEMMA LockTaken ==
    ASSUME LoopsOK, DoneKept, NEW s \in Servers, srv[s].pc = "try",
           advisory[Key(s)] = NoServer, advisory' = [advisory EXCEPT ![Key(s)] = s],
           Goto(s, "check"), UNCHANGED faults
    PROVE  LoopsOK'
<1>0. PICK l : l = [srv[s] EXCEPT !.pc = "check"]
  OBVIOUS
<1>1. srv[s] \in Loop /\ faults \in 0 .. MaxFaults
  BY DEF LoopsOK
<1>2. l \in Loop /\ l.cur = Cur(s) /\ l.phase = srv[s].phase /\ l.todo = srv[s].todo
  BY <1>0, <1>1 DEF Loop, Holding, Cur
<1>3. srv' = [srv EXCEPT ![s] = l]
  BY <1>0, <1>1 DEF Goto, LoopsOK
<1>4. \A t : Done(t) => Done(t)'
  BY DEF DoneKept, Done
<1>5. Done(l.cur) /\ l.cur \in Ids
  BY <1>2 DEF LoopsOK, LoopInv, Done
<1>6. l.phase = "reconcile" => \A t \in l.todo : Done(t)'
  BY <1>2, <1>4 DEF LoopsOK, LoopInv
<1> QED  BY <1>1, <1>2, <1>3, <1>4, <1>5, <1>6, LoopMoves DEF Key

LEMMA AdvanceStepKeeps ==
    ASSUME EngineOK, LoopsOK, NEW s \in Servers, AdvanceStep(s)
    PROVE  EngineOK' /\ LoopsOK'
<1>1. srv[s] \in Loop /\ faults \in 0 .. MaxFaults /\ s \in Procs
  BY ServersAssumption DEF LoopsOK
<1>2. RowsInv
  BY DEF EngineOK
<1>3. CASE TryAdvisoryLock(s)
  <2>1. EngineOK' /\ DoneKept
    BY <1>3, ReadsOnly DEF TryAdvisoryLock
  <2>2. CASE advisory[Key(s)] = NoServer
    BY <1>3, <2>1, <2>2, LockTaken DEF TryAdvisoryLock
  <2>3. CASE advisory[Key(s)] # NoServer
    BY <1>1, <1>3, <2>1, <2>3, NextTaskMoves DEF TryAdvisoryLock
  <2> QED  BY <2>2, <2>3
<1>4. CASE CheckAdvanced(s)
  <2>1. EngineOK' /\ DoneKept
    BY <1>4, ReadsOnly DEF CheckAdvanced
  <2>2. CASE IsAdvanced(Cur(s))
    BY <1>1, <1>4, <2>1, <2>2, NextTaskMoves DEF CheckAdvanced, LeaveAdvance
  <2>3. CASE ~IsAdvanced(Cur(s))
    BY <1>1, <1>4, <2>1, <2>3, GotoMoves DEF CheckAdvanced, Labels, Holding
  <2> QED  BY <2>2, <2>3
<1>5. CASE LoadRow(s)
  <2>1. EngineOK' /\ DoneKept
    BY <1>5, ReadsOnly DEF LoadRow
  <2> DEFINE state == InstanceRow(InstanceOf(Cur(s)))
  <2>2. Done(Cur(s)) /\ srv[s].pc \in Holding
    BY <1>5 DEF LoadRow, LoopsOK, LoopInv, Holding
  <2>3. state \in InstanceStates \cup {"none"}
    BY <2>2 DEF EngineOK, StoreTypeOK, InstanceRow, InstanceOf, Done
  <2>4. PICK l : l = [srv[s] EXCEPT !.pc = IF state = "none" THEN "mark" ELSE "tokens",
                                    !.seen = state]
    OBVIOUS
  <2>5. srv' = [srv EXCEPT ![s] = l]
    BY <1>1, <1>5, <2>4 DEF LoopsOK, LoadRow
  <2> HIDE DEF state
  <2>6. /\ l \in Loop /\ l.cur = Cur(s)
        /\ l.phase = srv[s].phase /\ l.todo = srv[s].todo
    BY <1>1, <2>3, <2>4 DEF Loop, Holding, Cur
  <2>7. \A t : Done(t) => Done(t)'
    BY <2>1 DEF DoneKept, Done
  <2>8. l.phase = "reconcile" => \A t \in l.todo : Done(t)'
    BY <2>6, <2>7 DEF LoopsOK, LoopInv
  <2>9. UNCHANGED <<advisory, faults>>
    BY <1>5 DEF LoadRow
  <2> QED  BY <1>1, <2>1, <2>2, <2>5, <2>6, <2>7, <2>8, <2>9, LoopMoves
<1>6. CASE LoadTokens(s)
  <2> DEFINE i == InstanceOf(Cur(s))
  <2>1. Done(Cur(s)) /\ Cur(s) \in Ids /\ i \in Instances
    BY <1>6 DEF LoadTokens, LoopsOK, LoopInv, Holding, Done, InstanceOf
  <2>2. EngineOK' /\ DoneKept
    <3>1. CASE CallCompleted(s, i, Cur(s))
      BY <1>1, <1>6, <2>1, <3>1, EngineCalled DEF LoadTokens, DoneKept, Done
    <3>2. CASE UNCHANGED eng
      BY <1>6, <3>2, ReadsOnly DEF LoadTokens
    <3> QED  BY <1>6, <3>1, <3>2 DEF LoadTokens
  <2>3. PICK label \in {"engine", "mark"} : Goto(s, label)
    BY <1>6 DEF LoadTokens
  <2> QED  BY <1>1, <1>6, <2>2, <2>3, GotoMoves DEF LoadTokens, Labels, Holding
<1>7. CASE EngineStep(s) /\ UNCHANGED <<srv, advisory, faults>>
  BY <1>1, <1>7, EngineStepInv, LoopsUntouched
<1>8. CASE VerifyRow(s)
  <2>1. EngineOK' /\ DoneKept
    BY <1>8, ReadsOnly DEF VerifyRow
  <2>2. PICK label \in {"mark", "verifyTokens"} : Goto(s, label)
    BY <1>8 DEF VerifyRow
  <2> QED  BY <1>1, <1>8, <2>1, <2>2, GotoMoves DEF VerifyRow, Labels, Holding
<1>9. CASE VerifyTokens(s)
  <2>1. EngineOK' /\ DoneKept
    BY <1>9, ReadsOnly DEF VerifyTokens
  <2>2. CASE LeaveAdvance(s)
    BY <1>1, <1>9, <2>1, <2>2, NextTaskMoves DEF VerifyTokens, LeaveAdvance
  <2>3. CASE Goto(s, "mark") /\ UNCHANGED advisory
    BY <1>1, <1>9, <2>1, <2>3, GotoMoves DEF VerifyTokens, Labels, Holding
  <2> QED  BY <1>9, <2>2, <2>3 DEF VerifyTokens
<1>10. CASE Mark(s)
  <2>1. Done(Cur(s))
    BY <1>10 DEF Mark, LoopsOK, LoopInv, Holding
  <2>2. EngineOK' /\ DoneKept
    BY <1>2, <1>10, <2>1, MarkRows, RowsOnly DEF Mark
  <2> QED  BY <1>1, <1>10, <2>2, GotoMoves DEF Mark, Labels, Holding
<1>11. CASE Commit(s)
  <2>1. EngineOK' /\ DoneKept
    BY <1>11, ReadsOnly DEF Commit
  <2> QED  BY <1>1, <1>11, <2>1, NextTaskMoves DEF Commit, LeaveAdvance
<1> QED
  BY <1>3, <1>4, <1>5, <1>6, <1>7, <1>8, <1>9, <1>10, <1>11 DEF AdvanceStep

-----------------------------------------------------------------------------
(* Faults and time.                                                        *)

LEMMA FaultCounted == ASSUME LoopsOK, Fault PROVE faults' \in 0 .. MaxFaults
  BY LimitsAssumption DEF LoopsOK, Fault

LEMMA ServerFaultKeeps ==
    ASSUME EngineOK, LoopsOK, NEW s \in Servers, ServerFault(s)
    PROVE  EngineOK' /\ LoopsOK'
<1>1. srv[s] \in Loop /\ s \in Procs
  BY ServersAssumption DEF LoopsOK
<1>2. RowsInv
  BY DEF EngineOK
<1>3. faults' \in 0 .. MaxFaults
  BY FaultCounted
     DEF ServerFault, Crash, PollFails, CompleteFails, GetFails, FailFails, AdvanceFails,
         EngineFails
<1>4. CASE Crash(s)
  <2>1. EngineOK' /\ DoneKept
    BY <1>1, <1>4, CallReturned DEF Crash, DoneKept, Done
  <2> QED  BY <1>3, <1>4, <2>1, IdleMoves DEF Crash
<1>5. CASE PollFails(s)
  <2>1. EngineOK' /\ DoneKept
    BY <1>5, ReadsOnly DEF PollFails
  <2> QED  BY <1>3, <1>5, <2>1, IdleMoves DEF PollFails
<1>6. CASE CompleteFails(s)
  <2>1. PICK t \in srv[s].todo :
          /\ srv' = [srv EXCEPT ![s].pc = "fail", ![s].cur = t, ![s].todo = @ \ {t}]
          /\ \/ Completable(t, Worker) /\ Complete(t)
             \/ UNCHANGED tasks
    BY <1>6 DEF CompleteFails
  <2>2. t \in Ids /\ srv[s].phase = "fire"
    BY <1>1, <1>6 DEF Loop, CompleteFails
  <2>3. PICK l : l = [srv[s] EXCEPT !.pc = "fail", !.cur = t, !.todo = @ \ {t}]
    OBVIOUS
  <2>4. l \in Loop /\ l.phase = "fire" /\ l.pc \notin Holding \cup {"get", "try"}
    BY <1>1, <2>2, <2>3 DEF Loop, Holding
  <2>5. srv' = [srv EXCEPT ![s] = l]
    BY <1>1, <2>1, <2>3 DEF LoopsOK
  <2>6. EngineOK' /\ DoneKept
    <3>1. CASE Completable(t, Worker) /\ Complete(t)
      BY <1>2, <1>6, <2>2, <3>1, CompleteRows, RowsOnly DEF CompleteFails
    <3>2. CASE UNCHANGED tasks
      BY <1>6, <3>2, ReadsOnly DEF CompleteFails
    <3> QED  BY <2>1, <3>1, <3>2
  <2> QED  BY <1>3, <1>6, <2>4, <2>5, <2>6, LoopMoves DEF CompleteFails
<1>7. CASE GetFails(s)
  <2>1. EngineOK' /\ DoneKept
    BY <1>7, ReadsOnly DEF GetFails
  <2> QED  BY <1>3, <1>7, <2>1, GotoMoves DEF GetFails, Labels, Holding
<1>8. CASE FailFails(s)
  <2>1. EngineOK' /\ DoneKept
    BY <1>8, ReadsOnly DEF FailFails
  <2> QED  BY <1>3, <1>8, <2>1, NextTaskMoves DEF FailFails
<1>9. CASE AdvanceFails(s)
  <2>1. EngineOK' /\ DoneKept
    BY <1>9, ReadsOnly DEF AdvanceFails
  <2> QED  BY <1>3, <1>9, <2>1, NextTaskMoves DEF AdvanceFails, LeaveAdvance
<1>10. CASE EngineFails(s)
  <2>1. EngineOK' /\ DoneKept
    BY <1>1, <1>10, EngineStepInv DEF EngineFails
  <2> QED  BY <1>3, <1>10, <2>1, LoopsUntouched DEF EngineFails
<1> QED  BY <1>4, <1>5, <1>6, <1>7, <1>8, <1>9, <1>10 DEF ServerFault

LEMMA TimeKeeps ==
    ASSUME EngineOK, LoopsOK, NEW t \in Ids, SlowHolder(t) \/ Time(t)
    PROVE  EngineOK' /\ LoopsOK'
<1>1. RowsInv /\ faults \in 0 .. MaxFaults
  BY DEF EngineOK, LoopsOK
<1>2. /\ BecomesDue(t) \/ LockExpires(t) \/ Settles(t)
      /\ UNCHANGED <<tables, eng, srv, advisory>>
      /\ UNCHANGED faults \/ Fault
  BY DEF SlowHolder, Time, AbandonedLockExpires, TimerDue, RowSettles
<1>3. EngineOK' /\ DoneKept
  BY <1>1, <1>2, TimeRows, RowsOnly
<1>4. faults' \in 0 .. MaxFaults
  BY <1>1, <1>2, FaultCounted
<1> QED  BY <1>2, <1>3, <1>4, LoopsUntouched

-----------------------------------------------------------------------------
(* The invariant.                                                          *)

\* Initially nothing is locked, done or running.
LEMMA IndInvInit == Init => IndInv
<1> SUFFICES ASSUME Init PROVE IndInv
  OBVIOUS
<1>1. \A t \in Ids : \/ tasks[t] = NoRow
                     \/ \E i \in Instances : tasks[t] = NewRow(i)
  <2>1. PICK R : R = {NoRow} \cup {NewRow(i) : i \in Instances}
    OBVIOUS
  <2>2. tasks \in [Ids -> R]
    BY <2>1 DEF Init
  <2>3. \A t \in Ids : tasks[t] \in R
    BY <2>2
  <2> QED  BY <2>1, <2>3
<1>2. NoRow \in Row /\ RowOK(NoRow) /\ NoRow.inst = NoInstance
  BY RetriesAssumption DEF NoRow, Row, RowOK, Open
<1>3. RowsInv
  <2>1. DOMAIN tasks = Ids /\ tasks = [t \in Ids |-> tasks[t]]
    BY DEF Init
  <2>2. \A t \in Ids : tasks[t] \in Row /\ RowOK(tasks[t])
    BY <1>1, <1>2, NewRowOK
  <2> QED  BY <2>1, <2>2 DEF RowsInv, TasksTypeOK, RowsConsistent
<1>4. StoreTypeOK
  BY ParkedAssumption DEF Init, StoreTypeOK, InstanceStates
<1>5. NoCall \in Call /\ NoCall.pc = "off" /\ NoCall.made = {}
  BY DEF NoCall, Call, NoSnapshot, Snapshot
<1>6. eng \in [Procs -> Call] /\ \A p \in Procs : eng[p] = NoCall
  BY <1>5 DEF Init
<1>7. used \subseteq Ids
  BY ParkedAssumption DEF Init, Token
<1>8. EngineInv
  <2>1. ASSUME NEW t \in Ids \ used PROVE tasks[t] = NoRow
    <3>1. \A k \in Parked : k.id # t
      BY DEF Init
    <3>2. ~ \E k \in Parked : k.id = t /\ k.node \in Timers
      BY <3>1
    <3> QED  BY <3>2 DEF Init
  <2> QED  BY <1>2, <1>5, <1>6, <2>1 DEF EngineInv, Off, Unborn
<1>9. fired \in [Ids -> Nat]
  BY DEF Init
<1>10. IdleLoop \in Loop /\ IdleLoop.phase = "fire"
       /\ IdleLoop.pc \notin Holding \cup {"get", "try"}
  BY DEF IdleLoop, Loop, Holding, InstanceStates
<1>11. srv \in [Servers -> Loop] /\ \A s \in Servers : srv[s] = IdleLoop
  BY <1>10 DEF Init
<1>12. LoopsOK
  BY <1>10, <1>11, LimitsAssumption DEF LoopsOK, Init, LoopInv, LockInv
<1>13. EngineOK
  BY <1>3, <1>4, <1>6, <1>7, <1>8, <1>9 DEF EngineOK
<1> QED  BY <1>12, <1>13, IndInvParts

\* Every step of the timer service keeps the invariant.
LEMMA IndInvStep == IndInv /\ [TimerNext]_vars => IndInv'
<1> SUFFICES ASSUME IndInv, [TimerNext]_vars PROVE IndInv'
  OBVIOUS
<1>0. EngineOK /\ LoopsOK
  BY IndInvParts
<1>1. ASSUME NEW s \in Servers, ServerStep(s) PROVE EngineOK' /\ LoopsOK'
  BY <1>1, <1>0, PollStep, AdvanceStepKeeps DEF ServerStep
<1>2. ASSUME NEW s \in Servers, ServerFault(s) PROVE EngineOK' /\ LoopsOK'
  BY <1>0, <1>2, ServerFaultKeeps
<1>3. ASSUME NEW t \in Ids, SlowHolder(t) \/ Time(t) PROVE EngineOK' /\ LoopsOK'
  BY <1>0, <1>3, TimeKeeps
<1>4. ASSUME UNCHANGED vars PROVE EngineOK' /\ LoopsOK'
  <2>1. UNCHANGED <<tables, tasks, eng, srv, advisory, faults>>
    BY <1>4 DEF vars, engineVars, tables
  <2>2. EngineOK' /\ DoneKept
    BY <1>0, <2>1, ReadsOnly
  <2>3. faults' \in 0 .. MaxFaults
    BY <1>0, <2>1 DEF LoopsOK
  <2> QED  BY <1>0, <2>1, <2>2, <2>3, LoopsUntouched
<1>5. EngineOK' /\ LoopsOK'
  BY <1>1, <1>2, <1>3, <1>4 DEF TimerNext
<1> QED  BY <1>5, IndInvParts, PTL

\* IndInv is an invariant of the timer service.
THEOREM Invariance == Spec => []IndInv
<1>1. Init => IndInv
  BY IndInvInit
<1>2. IndInv /\ [TimerNext]_vars => IndInv'
  BY IndInvStep
<1> QED  BY <1>1, <1>2, PTL DEF Spec

\* Type correctness: in particular no sequence of failures takes the retries
\* of a row below zero, and every lock is held by a server.
THEOREM TypeCorrect == Spec => []TypeOK
<1>1. IndInv => TypeOK
  BY DEF IndInv
<1> QED  BY <1>1, Invariance, PTL

\* The columns of every row agree, through lock, expiry, reclaim, completion
\* and failure in any order.
THEOREM RowsStayConsistent == Spec => []RowsConsistent
<1>1. IndInv => RowsConsistent
  BY DEF IndInv
<1> QED  BY <1>1, Invariance, PTL

\* Mutual exclusion of advance_after_task, for any number of servers, with
\* crashes and hash collisions.
THEOREM AdvanceExclusive == Spec => []OneAdvancer
<1>1. IndInv => OneAdvancer
  BY ServersAssumption DEF IndInv, LockInv, OneAdvancer, Key
<1> QED  BY <1>1, Invariance, PTL

-----------------------------------------------------------------------------
(* What a step may do to external_tasks: one statement at most.            *)

TaskStatement ==
    \/ UNCHANGED tasks
    \/ ReclaimExpired
    \/ \E S \in SUBSET Lockable : LockReady(Worker, S)
    \/ \E t \in Ids : Completable(t, Worker) /\ Complete(t)
    \/ \E t \in Ids \cup {NoId} : Fail(t, Worker)
    \/ \E s \in Servers : srv[s].pc = "mark" /\ Done(Cur(s)) /\ MarkAdvanced(Cur(s))
    \/ \E t \in Ids : BecomesDue(t) \/ LockExpires(t) \/ Settles(t)
    \/ \E p \in Procs : \E t \in eng[p].made : Create(t, eng[p].inst)

LEMMA StepIsStatement ==
    ASSUME IndInv, [TimerNext]_vars
    PROVE  TaskStatement
<1>1. /\ Servers \subseteq Procs
      /\ srv \in [Servers -> Loop]
      /\ \A s \in Servers : srv[s].todo \subseteq Ids /\ Cur(s) \in Ids \cup {NoId}
      /\ \A s \in Servers : srv[s].pc = "mark" => Done(Cur(s))
  BY ServersAssumption DEF IndInv, TypeOK, LoopInv, Holding, Loop, Cur
<1>2. ASSUME NEW s \in Servers, ServerStep(s) PROVE TaskStatement
  <2>1. CASE Reclaim(s)
    BY <2>1 DEF Reclaim, TaskStatement
  <2>2. CASE LockDueTimers(s)
    <3>1. PICK S \in Batches(Lockable, BatchLimit) : LockReady(Worker, S)
      BY <2>2 DEF LockDueTimers
    <3>2. S \in SUBSET Lockable
      BY DEF Batches
    <3> QED  BY <3>1, <3>2 DEF TaskStatement
  <2>3. CASE CompleteTask(s)
    BY <1>1, <2>3 DEF CompleteTask, TaskStatement
  <2>4. CASE FailTask(s)
    BY <1>1, <2>4 DEF FailTask, TaskStatement
  <2>5. CASE Mark(s)
    BY <1>1, <2>5 DEF Mark, TaskStatement
  <2>6. CASE GetTask(s) \/ SelectUnadvanced(s) \/ Reconcile(s) \/ EndPoll(s)
    BY <2>6 DEF GetTask, SelectUnadvanced, Reconcile, EndPoll, TaskStatement
  <2>7. CASE \/ TryAdvisoryLock(s) \/ CheckAdvanced(s) \/ LoadRow(s) \/ LoadTokens(s)
             \/ VerifyRow(s) \/ VerifyTokens(s) \/ Commit(s)
    BY <2>7 DEF TryAdvisoryLock, CheckAdvanced, LoadRow, LoadTokens, VerifyRow,
                VerifyTokens, Commit, TaskStatement
  <2>8. CASE EngineStep(s)
    BY <1>1, <2>8 DEF EngineStep, EngineLoadRow, EngineLoadTokens, EngineSave,
                      EngineCreate, EngineReturn, TaskStatement
  <2> QED  BY <1>2, <2>1, <2>2, <2>3, <2>4, <2>5, <2>6, <2>7, <2>8
              DEF ServerStep, AdvanceStep
<1>3. ASSUME NEW s \in Servers, ServerFault(s) PROVE TaskStatement
  <2>1. CASE CompleteFails(s)
    BY <1>1, <2>1 DEF CompleteFails, TaskStatement
  <2>2. CASE \/ Crash(s) \/ PollFails(s) \/ GetFails(s) \/ FailFails(s)
             \/ AdvanceFails(s) \/ EngineFails(s)
    BY <2>2 DEF Crash, PollFails, GetFails, FailFails, AdvanceFails, EngineFails,
                EngineError, TaskStatement
  <2> QED  BY <1>3, <2>1, <2>2 DEF ServerFault
<1>4. ASSUME NEW t \in Ids, SlowHolder(t) \/ Time(t) PROVE TaskStatement
  BY <1>4 DEF SlowHolder, Time, AbandonedLockExpires, TimerDue, RowSettles, TaskStatement
<1>5. CASE UNCHANGED vars
  BY <1>5 DEF vars, engineVars, TaskStatement
<1> QED  BY <1>2, <1>3, <1>4, <1>5 DEF TimerNext

\* A row that is not open keeps its state, whatever the statement.
LEMMA StatementKeepsSettled ==
    ASSUME IndInv, TaskStatement, NEW t \in Ids, tasks[t].state \in {"COMPLETED", "FAILED"}
    PROVE  tasks'[t].state = tasks[t].state
<1>1. RowsInv
  BY DEF IndInv, TypeOK, EngineTypeOK, RowsInv
<1>2. ASSUME RowsKept PROVE tasks'[t].state = tasks[t].state
  BY <1>2 DEF RowsKept, Open
<1>3. CASE UNCHANGED tasks
  BY <1>3
<1>4. CASE ReclaimExpired
  BY <1>1, <1>2, <1>4, ReclaimRows
<1>5. CASE \E S \in SUBSET Lockable : LockReady(Worker, S)
  BY <1>1, <1>2, <1>5, LockReadyRows, WorkerAssumption
<1>6. CASE \E u \in Ids : Completable(u, Worker) /\ Complete(u)
  BY <1>1, <1>2, <1>6, CompleteRows
<1>7. CASE \E u \in Ids \cup {NoId} : Fail(u, Worker)
  BY <1>1, <1>2, <1>7, FailRows
<1>8. CASE \E s \in Servers : srv[s].pc = "mark" /\ Done(Cur(s)) /\ MarkAdvanced(Cur(s))
  BY <1>1, <1>2, <1>8, MarkRows
<1>9. CASE \E u \in Ids : BecomesDue(u) \/ LockExpires(u) \/ Settles(u)
  BY <1>1, <1>2, <1>9, TimeRows
<1>10. CASE \E p \in Procs : \E u \in eng[p].made : Create(u, eng[p].inst)
  <2>1. PICK p \in Procs : \E u \in eng[p].made : Create(u, eng[p].inst)
    BY <1>10
  <2>2. PICK u \in eng[p].made : Create(u, eng[p].inst)
    BY <2>1
  <2>3. tasks[u].inst = NoInstance
    BY DEF IndInv, EngineInv, Unborn
  <2>4. tasks[t].inst \in Instances
    BY <1>1 DEF RowsInv, RowsConsistent, RowOK
  <2>5. t # u
    BY <2>3, <2>4, NoInstanceAssumption
  <2>6. tasks \in [Ids -> Row]
    BY <1>1 DEF RowsInv, TasksTypeOK
  <2> QED  BY <2>2, <2>5, <2>6 DEF Create
<1> QED
  BY <1>3, <1>4, <1>5, <1>6, <1>7, <1>8, <1>9, <1>10 DEF TaskStatement

\* COMPLETED and FAILED are final: no reclaim, late fail, late complete or
\* repeated create reopens such a row, for any number of servers that all
\* lock as the same worker.
THEOREM SettledRowsAreFinal == Spec => SettledRowsStay
<1>1. IndInv /\ [TimerNext]_vars
      => [\A t \in Ids : tasks[t].state \in {"COMPLETED", "FAILED"}
                         => tasks'[t].state \in {tasks[t].state, "absent"}]_vars
  BY StepIsStatement, StatementKeepsSettled
<1> QED  BY <1>1, Invariance, PTL DEF Spec, SettledRowsStay

=============================================================================
