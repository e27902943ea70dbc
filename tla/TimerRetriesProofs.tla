------------------------- MODULE TimerRetriesProofs -------------------------
(***************************************************************************)
(* Proofs about the batches of the timer loops: retries are spent on       *)
(* faults only, and a waiting token never loses its task.                  *)
(*                                                                         *)
(* The rows of a batch stay locked for the loop that works on it, as long  *)
(* as nothing has failed yet or there is only one loop.  With two servers  *)
(* and a slow one the batches overlap, since all servers lock rows as the  *)
(* same worker, and one fault may cost two retries.                        *)
(***************************************************************************)
EXTENDS TimerMovesProofs

\* What a loop still has to complete.
Firing(s) == IF srv[s].phase = "fire" THEN srv[s].todo ELSE {}

\* A loop is about to spend a retry of this task.
Owed(t) ==
    \E s \in Servers :
        \/ t \in Firing(s) /\ tasks[t].expired
        \/ srv[s].pc = "fail" /\ Cur(s) = t

BatchOK ==
    /\ \A s \in Servers : \A t \in Firing(s) :
          t \in Ids /\ tasks[t].state = "LOCKED" /\ tasks[t].owner = Worker
    /\ \A s1, s2 \in Servers : s1 # s2 => Firing(s1) \cap Firing(s2) = {}
    /\ \A s \in Servers : srv[s].pc = "get" =>
          Cur(s) \in Ids /\ tasks[Cur(s)].state = "COMPLETED"
    /\ \A s \in Servers : srv[s].pc = "fail" =>
          /\ Cur(s) \in Ids \ Firing(s)
          /\ tasks[Cur(s)].state \in {"LOCKED", "COMPLETED"}

RetryOK ==
    \A t \in Ids : Present(t) =>
        /\ Retries - tasks[t].retries <= faults
        /\ Owed(t) => Retries - tasks[t].retries < faults

IdleInv == \A s \in Servers : srv[s].pc = "idle" => srv[s].todo = {}

BatchInv == IdleInv /\ (faults = 0 \/ OneServer => BatchOK /\ RetryOK)

-----------------------------------------------------------------------------
(* One step.                                                               *)

\* Of this row nothing changes that a batch depends on.
RowSame(t) ==
    /\ tasks'[t].state = tasks[t].state
    /\ tasks'[t].owner = tasks[t].owner
    /\ tasks'[t].expired = tasks[t].expired
    /\ tasks'[t].retries = tasks[t].retries

\* A loop goes on with part of its batch.
LoopBatch(s) ==
    /\ Firing(s)' \subseteq Firing(s)
    /\ srv'[s].pc = "get" =>
          srv'[s].cur \in Ids /\ tasks'[srv'[s].cur].state = "COMPLETED"
    /\ srv'[s].pc = "fail" =>
          /\ srv'[s].cur \in Ids
          /\ srv'[s].cur \notin Firing(s)'
          /\ tasks'[srv'[s].cur].state \in {"LOCKED", "COMPLETED"}
          /\ Retries - tasks'[srv'[s].cur].retries < faults'

\* A row that changes is in nobody's batch afterwards.
RowBatch(t) ==
    /\ \A s \in Servers : t \notin Firing(s)'
    /\ \A s \in Servers : srv'[s].pc \in {"get", "fail"} /\ srv'[s].cur = t => srv'[s] # srv[s]
    /\ tasks'[t].state # "absent" => Retries - tasks'[t].retries <= faults'

LEMMA BatchStep ==
    ASSUME BatchOK, RetryOK, EngineOK, EngineOK',
           faults \in Nat, faults' \in Nat, faults <= faults',
           \A s \in Servers : srv'[s] = srv[s] \/ LoopBatch(s),
           \A t \in Ids : RowSame(t) \/ RowBatch(t)
    PROVE  BatchOK' /\ RetryOK'
<1>1. \A s \in Servers : Firing(s)' \subseteq Firing(s)
  BY DEF LoopBatch, Firing
<1>2. \A t \in Ids : tasks[t].retries \in Nat /\ tasks'[t].retries \in Nat
  BY RetriesAssumption DEF EngineOK, RowsInv, TasksTypeOK, Row
<1>3. \A s \in Servers : \A t \in Firing(s)' :
          t \in Ids /\ tasks'[t].state = "LOCKED" /\ tasks'[t].owner = Worker
  BY <1>1 DEF BatchOK, RowSame, RowBatch
<1>4. \A s1, s2 \in Servers : s1 # s2 => Firing(s1)' \cap Firing(s2)' = {}
  BY <1>1 DEF BatchOK
<1>5. ASSUME NEW s \in Servers, srv'[s].pc = "get"
      PROVE  srv'[s].cur \in Ids /\ tasks'[srv'[s].cur].state = "COMPLETED"
  <2>1. CASE LoopBatch(s)
    BY <1>5, <2>1 DEF LoopBatch
  <2>2. CASE srv'[s] = srv[s]
    BY <1>5, <2>2 DEF BatchOK, RowSame, RowBatch, Cur
  <2> QED  BY <2>1, <2>2
<1>6. ASSUME NEW s \in Servers, srv'[s].pc = "fail"
      PROVE  /\ srv'[s].cur \in Ids /\ srv'[s].cur \notin Firing(s)'
             /\ tasks'[srv'[s].cur].state \in {"LOCKED", "COMPLETED"}
             /\ Retries - tasks'[srv'[s].cur].retries < faults'
  <2>1. CASE LoopBatch(s)
    BY <1>6, <2>1 DEF LoopBatch
  <2>2. CASE srv'[s] = srv[s]
    <3>1. /\ Cur(s) \in Ids \ Firing(s) /\ srv[s].pc = "fail"
          /\ tasks[Cur(s)].state \in {"LOCKED", "COMPLETED"}
      BY <1>6, <2>2 DEF BatchOK
    <3>2. Retries - tasks[Cur(s)].retries < faults
      BY <3>1 DEF RetryOK, Present, Owed
    <3>3. RowSame(Cur(s))
      BY <1>6, <2>2, <3>1 DEF RowBatch, Cur
    <3> QED  BY <1>1, <1>2, <2>2, <3>1, <3>2, <3>3, RetriesAssumption DEF RowSame, Cur
  <2> QED  BY <2>1, <2>2
<1>7. BatchOK'
  BY <1>3, <1>4, <1>5, <1>6 DEF BatchOK, Cur
<1>8. ASSUME NEW t \in Ids, tasks'[t].state # "absent"
      PROVE  /\ Retries - tasks'[t].retries <= faults'
             /\ Owed(t)' => Retries - tasks'[t].retries < faults'
  <2>1. CASE RowSame(t)
    <3>1. Retries - tasks[t].retries <= faults /\ tasks'[t].retries = tasks[t].retries
      BY <1>8, <2>1 DEF RowSame, RetryOK, Present
    <3>2. Retries - tasks'[t].retries <= faults'
      BY <1>2, <3>1, RetriesAssumption
    <3>3. ASSUME NEW s \in Servers, t \in Firing(s)', tasks'[t].expired
          PROVE  Retries - tasks'[t].retries < faults'
      <4>1. Owed(t) /\ Present(t)
        BY <1>1, <1>8, <2>1, <3>3 DEF Owed, RowSame, Present
      <4> QED  BY <1>2, <3>1, <4>1, RetriesAssumption DEF RetryOK
    <3>4. ASSUME NEW s \in Servers, srv'[s].pc = "fail", srv'[s].cur = t
          PROVE  Retries - tasks'[t].retries < faults'
      BY <1>6, <3>4
    <3> QED  BY <3>2, <3>3, <3>4 DEF Owed, Cur
  <2>2. CASE RowBatch(t)
    <3>1. ASSUME NEW s \in Servers, srv'[s].pc = "fail", srv'[s].cur = t
          PROVE  Retries - tasks'[t].retries < faults'
      BY <1>6, <3>1
    <3> QED  BY <1>8, <2>2, <3>1 DEF RowBatch, Owed, Cur
  <2> QED  BY <2>1, <2>2
<1>9. RetryOK'
  BY <1>8 DEF RetryOK, Present
<1> QED  BY <1>7, <1>9

LEMMA BatchTypes ==
    /\ IndInv => EngineOK /\ faults \in Nat
    /\ IndInv' => EngineOK' /\ faults' \in Nat
<1>1. \A n \in 0 .. MaxFaults : n \in Nat
  BY LimitsAssumption
<1> QED  BY <1>1 DEF IndInv, TypeOK, EngineTypeOK, EngineOK, RowsInv

\* One loop goes on, and the rows change as a batch allows.
LEMMA BatchGoesOn ==
    ASSUME IndInv, IndInv', BatchInv, faults <= faults', NEW s \in Servers,
           \A r \in Servers : r # s => srv'[r] = srv[r],
           srv'[s].pc = "idle" => srv'[s].todo = {},
           faults' = 0 \/ OneServer => LoopBatch(s),
           faults' = 0 \/ OneServer => \A t \in Ids : RowSame(t) \/ RowBatch(t)
    PROVE  BatchInv'
<1>1. EngineOK /\ EngineOK' /\ faults \in Nat /\ faults' \in Nat
  BY BatchTypes
<1>2. IdleInv'
  BY DEF BatchInv, IdleInv
<1>3. ASSUME faults' = 0 \/ OneServer PROVE BatchOK' /\ RetryOK'
  <2>1. BatchOK /\ RetryOK
    BY <1>1, <1>3 DEF BatchInv
  <2> QED  BY <1>1, <1>3, <2>1, BatchStep
<1> QED  BY <1>2, <1>3 DEF BatchInv, OneServer

-----------------------------------------------------------------------------
(* Polling.                                                                *)

LEMMA NothingOwed ==
    ASSUME BatchOK, RetryOK, EngineOK, faults = 0
    PROVE  \A s \in Servers : srv[s].pc # "fail" /\ \A t \in Firing(s) : ~tasks[t].expired
<1>1. \A t \in Ids : tasks[t].retries \in 0 .. Retries
  BY DEF EngineOK, RowsInv, TasksTypeOK, Row
<1>2. ASSUME NEW t \in Ids, Present(t), Owed(t) PROVE FALSE
  <2>1. Retries - tasks[t].retries < 0
    BY <1>2 DEF RetryOK
  <2> QED  BY <1>1, <2>1, RetriesAssumption
<1>3. \A s \in Servers : srv[s].pc # "fail"
  BY <1>2 DEF BatchOK, Owed, Present
<1>4. \A s \in Servers : \A t \in Firing(s) : ~tasks[t].expired
  BY <1>2 DEF BatchOK, Owed, Present
<1> QED  BY <1>3, <1>4

LEMMA GotoBatch ==
    ASSUME srv \in [Servers -> Loop], NEW s \in Servers, NEW label, Goto(s, label)
    PROVE  srv'[s].todo = srv[s].todo /\ Firing(s)' = Firing(s)
  BY DEF Goto, Loop, Firing

LEMMA NextTaskBatch ==
    ASSUME srv \in [Servers -> Loop], NEW s \in Servers, NextTask(s)
    PROVE  srv'[s].todo = srv[s].todo /\ Firing(s)' = Firing(s)
  BY DEF NextTask, Loop, Firing

LEMMA ReclaimBatch ==
    ASSUME IndInv, IndInv', BatchInv, NEW s \in Servers, Reclaim(s)
    PROVE  BatchInv'
<1>1. /\ srv \in [Servers -> Loop] /\ EngineOK /\ EngineOK' /\ faults \in Nat
      /\ \A t \in Ids : tasks[t] \in Row
  BY BatchTypes DEF IndInv, TypeOK, EngineTypeOK, TasksTypeOK
<1>2. /\ srv'[s].pc = "lock" /\ srv[s].pc = "idle" /\ Firing(s)' = {} /\ faults' = faults
      /\ \A r \in Servers : r # s => srv'[r] = srv[r]
  <2>1. Goto(s, "lock") /\ srv[s].pc = "idle" /\ faults' = faults
    BY DEF Reclaim
  <2>2. srv[s].todo = {}
    BY <2>1 DEF BatchInv, IdleInv
  <2>3. Firing(s)' = {}
    BY <1>1, <2>1, <2>2, GotoBatch DEF Firing
  <2> QED  BY <1>1, <2>1, <2>3, GotoOther
<1>3. \A t \in Ids : IF t \in Expired
                     THEN tasks'[t].state = "READY" /\ tasks'[t].retries = tasks[t].retries
                     ELSE RowSame(t)
  <2>1. tasks' = [t \in Ids |-> IF t \in Expired
                               THEN [tasks[t] EXCEPT !.state = "READY", !.owner = NoWorker,
                                                     !.expired = FALSE]
                               ELSE tasks[t]]
    BY DEF Reclaim, ReclaimExpired, Update
  <2>2. \A r \in Row : LET n == [r EXCEPT !.state = "READY", !.owner = NoWorker,
                                          !.expired = FALSE]
                       IN  n.state = "READY" /\ n.retries = r.retries
    BY DEF Row
  <2> QED  BY <1>1, <2>1, <2>2 DEF RowSame
<1>4. ASSUME faults' = 0 \/ OneServer PROVE BatchOK' /\ RetryOK'
  <2>1. BatchOK /\ RetryOK
    BY <1>2, <1>4 DEF BatchInv
  <2>2. LoopBatch(s)
    BY <1>2 DEF LoopBatch
  <2>3. ASSUME NEW t \in Expired PROVE RowBatch(t)
    <3>1. t \in Ids /\ tasks[t].state = "LOCKED" /\ tasks[t].expired
      BY DEF Expired
    <3>2. \A r \in Servers : r # s => t \notin Firing(r) /\ srv[r].pc # "fail"
      BY <1>1, <1>2, <1>4, <2>1, <3>1, NothingOwed DEF OneServer
    <3>3. \A r \in Servers : r # s => Firing(r)' = Firing(r)
      BY <1>2 DEF Firing
    <3>4. \A r \in Servers : srv[r].pc = "get" => Cur(r) # t
      BY <2>1, <3>1 DEF BatchOK
    <3> QED  BY <1>2, <1>3, <2>1, <3>1, <3>2, <3>3, <3>4 DEF RowBatch, RetryOK, Present, Cur
  <2> QED  BY <1>1, <1>2, <1>3, <2>1, <2>2, <2>3, BatchStep
<1>5. IdleInv'
  BY <1>2 DEF BatchInv, IdleInv
<1> QED  BY <1>4, <1>5 DEF BatchInv

\* A batch is taken from READY rows: nobody works on them.
LEMMA LockDueBatch ==
    ASSUME IndInv, IndInv', BatchInv, NEW s \in Servers, LockDueTimers(s)
    PROVE  BatchInv'
<1>1. /\ srv \in [Servers -> Loop] /\ EngineOK /\ faults \in Nat
      /\ \A t \in Ids : tasks[t] \in Row
  BY BatchTypes DEF IndInv, TypeOK, EngineTypeOK, TasksTypeOK
<1>2. PICK S \in Batches(Lockable, BatchLimit) :
        /\ LockReady(Worker, S)
        /\ srv' = [srv EXCEPT ![s].pc = "next", ![s].phase = "fire", ![s].todo = S]
  BY DEF LockDueTimers
<1>3. \A t \in S : t \in Ids /\ tasks[t].state = "READY"
  BY <1>2 DEF Batches, Lockable
<1>4. /\ srv'[s].pc = "next" /\ Firing(s)' = S /\ faults' = faults
      /\ \A r \in Servers : r # s => srv'[r] = srv[r]
  BY <1>1, <1>2 DEF LockDueTimers, Firing, Loop
<1>5. \A r \in Servers : r # s => Firing(r)' = Firing(r)
  BY <1>4 DEF Firing
<1>6. /\ \A t \in S : /\ tasks'[t].state = "LOCKED" /\ tasks'[t].owner = Worker
                      /\ tasks'[t].expired = FALSE /\ tasks'[t].retries = tasks[t].retries
      /\ \A t \in Ids \ S : tasks'[t] = tasks[t]
  <2>1. tasks' = [t \in Ids |-> IF t \in S
                               THEN [tasks[t] EXCEPT !.state = "LOCKED", !.owner = Worker,
                                                     !.expired = FALSE]
                               ELSE tasks[t]]
    BY <1>2 DEF LockReady, Update
  <2>2. \A r \in Row : LET l == [r EXCEPT !.state = "LOCKED", !.owner = Worker,
                                          !.expired = FALSE]
                       IN  /\ l.state = "LOCKED" /\ l.owner = Worker
                           /\ l.expired = FALSE /\ l.retries = r.retries
    BY DEF Row
  <2> QED  BY <1>1, <1>3, <2>1, <2>2
<1>7. ASSUME faults' = 0 \/ OneServer PROVE BatchOK' /\ RetryOK'
  <2>1. BatchOK /\ RetryOK
    BY <1>4, <1>7 DEF BatchInv
  <2>2. \A r \in Servers : \A t \in Firing(r) : t \in Ids \ S
    BY <1>3, <2>1 DEF BatchOK
  <2>3. \A r \in Servers : srv[r].pc \in {"get", "fail"} => Cur(r) \in Ids \ S
    BY <1>3, <2>1 DEF BatchOK
  <2>4. BatchOK'
    <3>1. \A r \in Servers : \A t \in Firing(r)' :
              t \in Ids /\ tasks'[t].state = "LOCKED" /\ tasks'[t].owner = Worker
      BY <1>3, <1>4, <1>5, <1>6, <2>1, <2>2 DEF BatchOK
    <3>2. \A r, q \in Servers : r # q => Firing(r)' \cap Firing(q)' = {}
      BY <1>4, <1>5, <2>1, <2>2 DEF BatchOK
    <3>3. \A r \in Servers : srv'[r].pc = "get" =>
              srv'[r].cur \in Ids /\ tasks'[srv'[r].cur].state = "COMPLETED"
      BY <1>4, <1>6, <2>1, <2>3 DEF BatchOK, Cur
    <3>4. \A r \in Servers : srv'[r].pc = "fail" =>
              /\ srv'[r].cur \in Ids \ Firing(r)'
              /\ tasks'[srv'[r].cur].state \in {"LOCKED", "COMPLETED"}
      BY <1>4, <1>5, <1>6, <2>1, <2>3 DEF BatchOK, Cur
    <3> QED  BY <3>1, <3>2, <3>3, <3>4 DEF BatchOK, Cur
  <2>5. ASSUME NEW t \in Ids, tasks'[t].state # "absent"
        PROVE  /\ Retries - tasks'[t].retries <= faults'
               /\ Owed(t)' => Retries - tasks'[t].retries < faults'
    <3>1. tasks'[t].retries = tasks[t].retries /\ Present(t)
      BY <1>3, <1>6, <2>5 DEF Present
    <3>2. Owed(t)' => Owed(t)
      BY <1>3, <1>4, <1>5, <1>6, <2>2, <2>3 DEF Owed, Cur
    <3> QED  BY <1>4, <2>1, <3>1, <3>2 DEF RetryOK
  <2>6. RetryOK'
    BY <2>5 DEF RetryOK, Present
  <2> QED  BY <2>4, <2>6
<1>8. IdleInv'
  BY <1>4 DEF BatchInv, IdleInv
<1> QED  BY <1>7, <1>8 DEF BatchInv

LEMMA CompleteTaskBatch ==
    ASSUME IndInv, IndInv', BatchInv, NEW s \in Servers, CompleteTask(s)
    PROVE  BatchInv'
<1>1. /\ srv \in [Servers -> Loop] /\ EngineOK /\ faults \in Nat /\ faults' = faults
      /\ tasks \in [Ids -> Row]
  BY BatchTypes DEF IndInv, TypeOK, EngineTypeOK, TasksTypeOK, CompleteTask
<1>2. PICK t \in srv[s].todo :
        /\ srv' = [srv EXCEPT ![s].pc = IF Completable(t, Worker) THEN "get" ELSE "fail",
                              ![s].cur = t, ![s].todo = @ \ {t}]
        /\ IF Completable(t, Worker) THEN Complete(t) ELSE UNCHANGED tasks
  BY DEF CompleteTask
<1>3. /\ t \in Ids /\ t \in Firing(s)
      /\ srv'[s].pc = IF Completable(t, Worker) THEN "get" ELSE "fail"
      /\ srv'[s].cur = t /\ Firing(s)' = Firing(s) \ {t}
      /\ \A r \in Servers : r # s => srv'[r] = srv[r]
  BY <1>1, <1>2 DEF CompleteTask, Firing, Loop
<1>4. /\ \A u \in Ids : u # t => RowSame(u)
      /\ tasks'[t].retries = tasks[t].retries
      /\ tasks'[t].state = IF Completable(t, Worker) THEN "COMPLETED" ELSE tasks[t].state
  <2>1. CASE Completable(t, Worker)
    <3>1. PICK U : tasks' = [tasks EXCEPT ![t].state = "COMPLETED", ![t].older = U]
      BY <1>2, <2>1 DEF Complete
    <3> QED  BY <1>1, <1>3, <2>1, <3>1 DEF Row, RowSame
  <2>2. CASE ~Completable(t, Worker)
    BY <1>2, <2>2 DEF RowSame
  <2> QED  BY <2>1, <2>2
<1>5. ASSUME faults' = 0 \/ OneServer PROVE LoopBatch(s) /\ RowBatch(t)
  <2>1. BatchOK /\ RetryOK
    BY <1>1, <1>5 DEF BatchInv
  <2>2. tasks[t].state = "LOCKED" /\ tasks[t].owner = Worker
    BY <1>3, <2>1 DEF BatchOK
  <2>3. /\ Retries - tasks[t].retries <= faults
        /\ ~Completable(t, Worker) => Retries - tasks[t].retries < faults
    BY <1>3, <2>1, <2>2 DEF RetryOK, Owed, Present, Completable
  <2>4. LoopBatch(s)
    BY <1>1, <1>3, <1>4, <2>2, <2>3 DEF LoopBatch
  <2>5. \A r \in Servers : r # s => t \notin Firing(r)'
    BY <1>3, <2>1 DEF BatchOK, Firing
  <2>6. \A r \in Servers : r # s /\ srv[r].pc \in {"get", "fail"} => Cur(r) # t
    <3>1. \A r \in Servers : r # s => srv[r].pc # "fail"
      BY <1>1, <1>5, <2>1, NothingOwed DEF OneServer
    <3> QED  BY <2>1, <2>2, <3>1 DEF BatchOK
  <2>7. srv'[s] # srv[s]
    BY <1>3 DEF CompleteTask
  <2>8. RowBatch(t)
    BY <1>1, <1>3, <1>4, <2>3, <2>5, <2>6, <2>7 DEF RowBatch, Cur
  <2> QED  BY <2>4, <2>8
<1> QED  BY <1>1, <1>3, <1>4, <1>5, BatchGoesOn

\* A loop looks at its rows, or drops what it does, without writing.
LEMMA ReadingBatch ==
    ASSUME IndInv, IndInv', BatchInv, NEW s \in Servers,
           \/ GetTask(s) \/ SelectUnadvanced(s) \/ Reconcile(s) \/ EndPoll(s)
    PROVE  BatchInv'
<1>1. /\ srv \in [Servers -> Loop] /\ faults \in Nat /\ UNCHANGED <<tasks, faults>>
      /\ \A t \in Ids : RowSame(t)
  BY BatchTypes DEF IndInv, TypeOK, RowSame, GetTask, SelectUnadvanced, Reconcile, EndPoll
<1>2. CASE GetTask(s)
  <2>1. /\ \A r \in Servers : r # s => srv'[r] = srv[r]
        /\ srv[s].pc = "get" /\ Firing(s)' = Firing(s)
        /\ srv'[s].pc = IF Present(Cur(s)) THEN "try" ELSE "fail"
    BY <1>1, <1>2, GotoOther, GotoBatch DEF GetTask
  <2>2. faults' = 0 \/ OneServer => LoopBatch(s)
    BY <1>1, <2>1 DEF BatchInv, BatchOK, LoopBatch, Present, Cur
  <2> QED  BY <1>1, <2>1, <2>2, BatchGoesOn
<1>3. CASE SelectUnadvanced(s)
  <2>1. PICK S : srv' = [srv EXCEPT ![s].phase = "reconcile", ![s].todo = S]
    BY <1>3 DEF SelectUnadvanced
  <2>2. srv[s].pc = "next" /\ srv[s] \in Loop
    BY <1>1, <1>3 DEF SelectUnadvanced
  <2>3. /\ \A r \in Servers : r # s => srv'[r] = srv[r]
        /\ srv'[s].phase = "reconcile" /\ srv'[s].pc = "next"
    BY <1>1, <2>1, <2>2 DEF Loop
  <2>4. Firing(s)' = {}
    BY <2>3 DEF Firing
  <2> QED  BY <1>1, <2>3, <2>4, BatchGoesOn DEF LoopBatch
<1>4. CASE Reconcile(s)
  <2>1. PICK t : srv' = [srv EXCEPT ![s].pc = "try", ![s].cur = t, ![s].todo = @ \ {t}]
    BY <1>4 DEF Reconcile
  <2>2. srv[s].phase = "reconcile" /\ srv[s] \in Loop
    BY <1>1, <1>4 DEF Reconcile
  <2>3. /\ \A r \in Servers : r # s => srv'[r] = srv[r]
        /\ srv'[s].phase = "reconcile" /\ srv'[s].pc = "try"
    BY <1>1, <2>1, <2>2 DEF Loop
  <2>4. Firing(s)' = {}
    BY <2>3 DEF Firing
  <2> QED  BY <1>1, <2>3, <2>4, BatchGoesOn DEF LoopBatch
<1>5. CASE EndPoll(s)
  <2>1. /\ \A r \in Servers : r # s => srv'[r] = srv[r]
        /\ Firing(s)' = {} /\ srv'[s].pc = "idle" /\ srv'[s].todo = {}
    BY <1>1, <1>5 DEF EndPoll, Firing, Loop, IdleLoop
  <2> QED  BY <1>1, <2>1, BatchGoesOn DEF LoopBatch
<1> QED  BY <1>2, <1>3, <1>4, <1>5

\* fail spends the retry that was owed.
LEMMA FailTaskBatch ==
    ASSUME IndInv, IndInv', BatchInv, NEW s \in Servers, FailTask(s)
    PROVE  BatchInv'
<1>1. /\ srv \in [Servers -> Loop] /\ EngineOK /\ faults \in Nat /\ faults' = faults
      /\ \A u \in Ids : tasks[u] \in Row
  BY BatchTypes DEF IndInv, TypeOK, EngineTypeOK, TasksTypeOK, FailTask
<1> DEFINE t == Cur(s)
<1>2. /\ srv[s].pc = "fail" /\ srv'[s].pc = "next" /\ Firing(s)' = Firing(s)
      /\ \A r \in Servers : r # s => srv'[r] = srv[r]
  BY <1>1, NextTaskOther, NextTaskBatch DEF FailTask
<1>3. PICK F : /\ F = {u \in {t} : Failable(u, Worker)}
               /\ tasks' = [u \in Ids |-> IF u \in F THEN Failed(tasks[u]) ELSE tasks[u]]
  BY DEF FailTask, Fail, Update
<1>4. \A u \in Ids : u # t => RowSame(u)
  BY <1>3 DEF RowSame
<1>5. \A r \in Row : Failed(r).retries = r.retries - 1
  BY DEF Row, Failed
<1>6. ASSUME faults' = 0 \/ OneServer PROVE LoopBatch(s) /\ RowBatch(t)
  <2>1. BatchOK /\ RetryOK
    BY <1>1, <1>6 DEF BatchInv
  <2>2. \A r \in Servers : r = s
    BY <1>1, <1>2, <1>6, <2>1, NothingOwed DEF OneServer
  <2>3. t \in Ids /\ t \notin Firing(s) /\ Present(t) /\ Owed(t)
    BY <1>2, <2>1 DEF BatchOK, Present, Owed
  <2>4. tasks'[t].retries \in {tasks[t].retries, tasks[t].retries - 1}
    BY <1>1, <1>3, <1>5, <2>3
  <2>5. tasks[t].retries \in Nat /\ Retries - tasks[t].retries < faults
    BY <1>1, <2>1, <2>3, RetriesAssumption DEF RetryOK, Row
  <2>6. Retries - tasks'[t].retries <= faults
    BY <1>1, <2>4, <2>5, RetriesAssumption
  <2>7. RowBatch(t)
    BY <1>1, <1>2, <2>2, <2>3, <2>6 DEF RowBatch
  <2> QED  BY <1>2, <2>7 DEF LoopBatch
<1> QED  BY <1>1, <1>2, <1>4, <1>6, BatchGoesOn

-----------------------------------------------------------------------------
(* Advancing, faults and time.                                             *)

\* The loops stand still while rows change as a batch allows.
LEMMA BatchStays ==
    ASSUME IndInv, IndInv', BatchInv, UNCHANGED srv, faults <= faults',
           faults' = 0 \/ OneServer => \A t \in Ids : RowSame(t) \/ RowBatch(t)
    PROVE  BatchInv'
<1>1. EngineOK /\ EngineOK' /\ faults \in Nat /\ faults' \in Nat
  BY BatchTypes
<1>2. ASSUME faults' = 0 \/ OneServer PROVE BatchOK' /\ RetryOK'
  <2>1. BatchOK /\ RetryOK
    BY <1>1, <1>2 DEF BatchInv
  <2> QED  BY <1>1, <1>2, <2>1, BatchStep
<1> QED  BY <1>2 DEF BatchInv, OneServer, IdleInv

\* An engine call creates a row with all its retries.
LEMMA EngineBatch ==
    ASSUME IndInv, IndInv', BatchInv, NEW p \in Procs,
           EngineStep(p) \/ EngineError(p), UNCHANGED srv, faults <= faults'
    PROVE  BatchInv'
<1>1. /\ EngineOK /\ faults \in Nat /\ faults' \in Nat /\ tasks \in [Ids -> Row]
      /\ eng[p] \in Call
  BY BatchTypes DEF IndInv, TypeOK, EngineTypeOK, TasksTypeOK
<1>2. CASE UNCHANGED tasks
  BY <1>2, BatchStays DEF RowSame
<1>3. CASE EngineCreate(p) /\ tasks' # tasks
  <2>1. PICK t \in eng[p].made : Create(t, eng[p].inst)
    BY <1>3 DEF EngineCreate
  <2>2. t \in Ids /\ tasks[t].inst = NoInstance
    BY <1>1, <2>1 DEF EngineOK, EngineInv, Unborn
  <2>3. tasks[t].state = "absent"
    BY <1>1, <2>2, NoInstanceAssumption DEF EngineOK, RowsInv, RowsConsistent, RowOK
  <2>4. /\ tasks'[t].retries = Retries
        /\ \A u \in Ids : u # t => RowSame(u)
    BY <1>1, <2>1, <2>2 DEF Create, NewRow, NoRow, RowSame
  <2>5. ASSUME faults' = 0 \/ OneServer PROVE RowBatch(t)
    <3>1. BatchOK
      BY <1>1, <2>5 DEF BatchInv
    <3>2. \A r \in Servers : /\ t \notin Firing(r)'
                             /\ srv'[r].pc \in {"get", "fail"} => srv'[r].cur # t
      BY <2>3, <3>1 DEF BatchOK, Firing, Cur
    <3> QED  BY <1>1, <2>4, <3>2, RetriesAssumption DEF RowBatch
  <2> QED  BY <2>4, <2>5, BatchStays
<1> QED
  BY <1>2, <1>3 DEF EngineStep, EngineError, EngineLoadRow, EngineLoadTokens, EngineSave,
                    EngineReturn

\* Inside advance_after_task a loop has nothing to complete or to fail.
LEMMA AdvanceBatch ==
    ASSUME IndInv, IndInv', BatchInv, NEW s \in Servers, AdvanceStep(s)
    PROVE  BatchInv'
<1>1. srv \in [Servers -> Loop] /\ faults \in Nat /\ tasks \in [Ids -> Row] /\ s \in Procs
  BY BatchTypes, ServersAssumption DEF IndInv, TypeOK, EngineTypeOK, TasksTypeOK
<1>2. ASSUME EngineStep(s), UNCHANGED <<srv, advisory, faults>> PROVE BatchInv'
  BY <1>1, <1>2, EngineBatch
<1>3. ASSUME ~(EngineStep(s) /\ UNCHANGED <<srv, advisory, faults>>)
      PROVE  /\ faults' = faults /\ \A t \in Ids : RowSame(t)
             /\ \/ \E label \in Holding : Goto(s, label)
                \/ NextTask(s)
                \/ /\ srv[s].pc = "row"
                   /\ \E state : srv' = [srv EXCEPT
                        ![s].pc = IF state = "none" THEN "mark" ELSE "tokens",
                        ![s].seen = state]
  <2>1. CASE TryAdvisoryLock(s)
    BY <2>1 DEF TryAdvisoryLock, RowSame, Holding
  <2>2. CASE CheckAdvanced(s)
    BY <2>2 DEF CheckAdvanced, LeaveAdvance, RowSame, Holding
  <2>3. CASE LoadRow(s)
    BY <2>3 DEF LoadRow, RowSame
  <2>4. CASE LoadTokens(s)
    BY <2>4 DEF LoadTokens, RowSame, Holding
  <2>5. CASE VerifyRow(s)
    BY <2>5 DEF VerifyRow, RowSame, Holding
  <2>6. CASE VerifyTokens(s)
    BY <2>6 DEF VerifyTokens, LeaveAdvance, RowSame, Holding
  <2>7. CASE Mark(s)
    <3>1. PICK M : tasks' = [u \in Ids |-> IF u \in M THEN [tasks[u] EXCEPT !.advanced = TRUE]
                                                      ELSE tasks[u]]
      BY <2>7 DEF Mark, MarkAdvanced, Update
    <3>2. \A r \in Row : LET m == [r EXCEPT !.advanced = TRUE]
                         IN  /\ m.state = r.state /\ m.owner = r.owner
                             /\ m.expired = r.expired /\ m.retries = r.retries
      BY DEF Row
    <3> QED  BY <1>1, <2>7, <3>1, <3>2 DEF Mark, RowSame, Holding
  <2>8. CASE Commit(s)
    BY <2>8 DEF Commit, LeaveAdvance, RowSame
  <2> QED
    BY <1>3, <2>1, <2>2, <2>3, <2>4, <2>5, <2>6, <2>7, <2>8 DEF AdvanceStep
<1>4. ASSUME ~(EngineStep(s) /\ UNCHANGED <<srv, advisory, faults>>)
      PROVE  BatchInv'
  <2>1. /\ \A r \in Servers : r # s => srv'[r] = srv[r]
        /\ Firing(s)' = Firing(s) /\ srv'[s].pc \notin {"idle", "get", "fail"}
    <3>1. CASE \E label \in Holding : Goto(s, label)
      BY <1>1, <3>1, GotoOther, GotoBatch DEF Holding
    <3>2. CASE NextTask(s)
      BY <1>1, <3>2, NextTaskOther, NextTaskBatch
    <3>3. CASE \E state : srv' = [srv EXCEPT
                        ![s].pc = IF state = "none" THEN "mark" ELSE "tokens",
                        ![s].seen = state]
      <4>1. PICK state, label : /\ label \in {"mark", "tokens"}
                                /\ srv' = [srv EXCEPT ![s].pc = label, ![s].seen = state]
        BY <3>3
      <4> QED  BY <1>1, <4>1 DEF Loop, Firing
    <3> QED  BY <1>3, <1>4, <3>1, <3>2, <3>3
  <2> QED  BY <1>1, <1>3, <1>4, <2>1, BatchGoesOn DEF LoopBatch
<1> QED  BY <1>2, <1>4

\* A loop that fails or crashes has one more retry to spend.
LEMMA FaultBatch ==
    ASSUME IndInv, IndInv', BatchInv, NEW s \in Servers, ServerFault(s)
    PROVE  BatchInv'
<1>1. /\ srv \in [Servers -> Loop] /\ faults \in Nat /\ tasks \in [Ids -> Row] /\ s \in Procs
      /\ faults' = faults + 1 /\ \A t \in Ids : tasks[t].retries \in Nat /\ EngineOK
  <2>1. faults' = faults + 1
    BY DEF ServerFault, Crash, PollFails, CompleteFails, GetFails, FailFails, AdvanceFails,
           EngineFails, Fault
  <2>2. /\ srv \in [Servers -> Loop] /\ faults \in Nat /\ EngineOK
        /\ tasks \in [Ids -> Row]
    BY BatchTypes DEF IndInv, TypeOK, EngineTypeOK, TasksTypeOK
  <2>3. \A r \in Row : r.retries \in Nat
    BY RetriesAssumption DEF Row
  <2> QED  BY <2>1, <2>2, <2>3, ServersAssumption
<1>2. CASE EngineFails(s)
  BY <1>1, <1>2, EngineBatch DEF EngineFails
<1>3. CASE Crash(s) \/ PollFails(s)
  <2>1. srv' = [srv EXCEPT ![s] = IdleLoop] /\ UNCHANGED tasks
    BY <1>3 DEF Crash, PollFails
  <2>2. /\ \A r \in Servers : r # s => srv'[r] = srv[r]
        /\ srv'[s].pc = "idle" /\ srv'[s].todo = {} /\ Firing(s)' = {}
    BY <1>1, <2>1 DEF IdleLoop, Firing
  <2> QED  BY <1>1, <2>1, <2>2, BatchGoesOn DEF LoopBatch, RowSame
<1>4. CASE FailFails(s) \/ AdvanceFails(s)
  <2>1. NextTask(s) /\ UNCHANGED tasks
    BY <1>4 DEF FailFails, AdvanceFails, LeaveAdvance
  <2>2. /\ \A r \in Servers : r # s => srv'[r] = srv[r]
        /\ srv'[s].pc = "next" /\ Firing(s)' = Firing(s)
    BY <1>1, <2>1, NextTaskOther, NextTaskBatch
  <2> QED  BY <1>1, <2>1, <2>2, BatchGoesOn DEF LoopBatch, RowSame
<1>5. CASE GetFails(s)
  <2>1. /\ \A r \in Servers : r # s => srv'[r] = srv[r]
        /\ srv'[s].pc = "fail" /\ srv'[s].cur = Cur(s) /\ Firing(s)' = Firing(s)
        /\ UNCHANGED tasks /\ srv[s].pc = "get"
    BY <1>1, <1>5, GotoOther, GotoBatch DEF GetFails
  <2>2. ASSUME OneServer PROVE LoopBatch(s)
    <3>1. BatchOK /\ RetryOK
      BY <2>2 DEF BatchInv
    <3>2. /\ Cur(s) \in Ids /\ tasks[Cur(s)].state = "COMPLETED" /\ Cur(s) \notin Firing(s)
          /\ Retries - tasks[Cur(s)].retries <= faults
      BY <2>1, <3>1 DEF BatchOK, RetryOK, Present
    <3> QED  BY <1>1, <2>1, <3>2, RetriesAssumption DEF LoopBatch
  <2> QED  BY <1>1, <2>1, <2>2, BatchGoesOn DEF RowSame
<1>6. CASE CompleteFails(s)
  <2>1. PICK t \in srv[s].todo :
          /\ srv' = [srv EXCEPT ![s].pc = "fail", ![s].cur = t, ![s].todo = @ \ {t}]
          /\ Complete(t) \/ UNCHANGED tasks
    BY <1>6 DEF CompleteFails
  <2>2. /\ t \in Ids /\ t \in Firing(s)
        /\ srv'[s].pc = "fail" /\ srv'[s].cur = t /\ Firing(s)' = Firing(s) \ {t}
        /\ \A r \in Servers : r # s => srv'[r] = srv[r]
    BY <1>1, <1>6, <2>1 DEF CompleteFails, Firing, Loop
  <2>3. /\ \A u \in Ids : u # t => RowSame(u)
        /\ tasks'[t].retries = tasks[t].retries
        /\ tasks'[t].state \in {tasks[t].state, "COMPLETED"}
    <3>1. CASE Complete(t)
      <4>1. PICK U : tasks' = [tasks EXCEPT ![t].state = "COMPLETED", ![t].older = U]
        BY <3>1 DEF Complete
      <4> QED  BY <1>1, <2>2, <4>1 DEF Row, RowSame
    <3>2. CASE UNCHANGED tasks
      BY <3>2 DEF RowSame
    <3> QED  BY <2>1, <3>1, <3>2
  <2>4. ASSUME OneServer PROVE LoopBatch(s) /\ RowBatch(t)
    <3>1. BatchOK /\ RetryOK
      BY <2>4 DEF BatchInv
    <3>2. tasks[t].state = "LOCKED" /\ Retries - tasks[t].retries <= faults
      BY <2>2, <3>1 DEF BatchOK, RetryOK, Present
    <3>3. LoopBatch(s)
      BY <1>1, <2>2, <2>3, <3>2, RetriesAssumption DEF LoopBatch
    <3>4. srv'[s] # srv[s]
      BY <1>6, <2>2 DEF CompleteFails
    <3>5. RowBatch(t)
      BY <1>1, <2>2, <2>3, <2>4, <3>2, <3>4, RetriesAssumption DEF RowBatch, OneServer
    <3> QED  BY <3>3, <3>5
  <2> QED  BY <1>1, <2>2, <2>3, <2>4, BatchGoesOn
<1> QED  BY <1>2, <1>3, <1>4, <1>5, <1>6 DEF ServerFault

\* A lock that expires under its holder is a fault; nobody works on the rows
\* of any other lock that expires.
LEMMA TimeBatch ==
    ASSUME IndInv, IndInv', BatchInv, NEW t \in Ids, SlowHolder(t) \/ Time(t)
    PROVE  BatchInv'
<1>1. /\ faults \in Nat /\ tasks \in [Ids -> Row] /\ EngineOK /\ UNCHANGED srv
      /\ \A u \in Ids : tasks[u].retries \in Nat
  BY BatchTypes, RetriesAssumption
     DEF IndInv, TypeOK, EngineTypeOK, TasksTypeOK, Row, SlowHolder, Time,
         AbandonedLockExpires, TimerDue, RowSettles
<1>2. CASE TimerDue(t) \/ RowSettles(t)
  <2>1. \A u \in Ids : RowSame(u)
    BY <1>1, <1>2 DEF TimerDue, RowSettles, BecomesDue, Settles, RowSame, Row
  <2> QED  BY <1>1, <1>2, <2>1, BatchStays DEF TimerDue, RowSettles
<1>3. CASE AbandonedLockExpires(t)
  <2>1. /\ \A u \in Ids : u # t => RowSame(u)
        /\ tasks'[t].retries = tasks[t].retries /\ tasks[t].state = "LOCKED"
        /\ ~Held(t) /\ faults' = faults
    BY <1>1, <1>3 DEF AbandonedLockExpires, LockExpires, RowSame, Row
  <2>2. ASSUME faults' = 0 \/ OneServer PROVE RowBatch(t)
    <3>1. Retries - tasks[t].retries <= faults
      BY <1>1, <2>1, <2>2 DEF BatchInv, RetryOK, Present
    <3> QED  BY <1>1, <2>1, <3>1 DEF RowBatch, Held, Firing, Cur
  <2> QED  BY <1>1, <2>1, <2>2, BatchStays
<1>4. CASE SlowHolder(t)
  <2>1. /\ \A u \in Ids : u # t => RowSame(u)
        /\ tasks'[t].retries = tasks[t].retries /\ tasks[t].state = "LOCKED"
        /\ tasks'[t].state = "LOCKED" /\ tasks'[t].owner = tasks[t].owner
        /\ faults' = faults + 1
    BY <1>1, <1>4 DEF SlowHolder, Fault, LockExpires, RowSame, Row
  <2>2. ASSUME OneServer PROVE BatchOK' /\ RetryOK'
    <3>1. BatchOK /\ RetryOK
      BY <2>2 DEF BatchInv
    <3>2. \A u \in Ids : /\ tasks'[u].state = tasks[u].state /\ tasks'[u].owner = tasks[u].owner
                         /\ tasks'[u].retries = tasks[u].retries
      BY <2>1 DEF RowSame
    <3>3. BatchOK'
      BY <1>1, <3>1, <3>2 DEF BatchOK, Firing, Cur
    <3>4. \A u \in Ids : Present(u)' => Retries - tasks'[u].retries < faults'
      BY <1>1, <2>1, <3>1, <3>2, RetriesAssumption DEF RetryOK, Present
    <3> QED  BY <1>1, <2>1, <3>2, <3>3, <3>4, RetriesAssumption DEF RetryOK, Present
  <2>3. faults' # 0
    BY <1>1, <2>1
  <2>4. IdleInv'
    BY <1>1 DEF BatchInv, IdleInv
  <2> QED  BY <2>2, <2>3, <2>4 DEF BatchInv, OneServer
<1> QED  BY <1>2, <1>3, <1>4 DEF Time

LEMMA BatchInvStep ==
    ASSUME IndInv, IndInv', BatchInv, [TimerNext]_vars
    PROVE  BatchInv'
<1>1. ASSUME NEW s \in Servers, ServerStep(s) PROVE BatchInv'
  BY <1>1, ReclaimBatch, LockDueBatch, CompleteTaskBatch, ReadingBatch, FailTaskBatch,
     AdvanceBatch DEF ServerStep
<1>2. ASSUME NEW s \in Servers, ServerFault(s) PROVE BatchInv'
  BY <1>2, FaultBatch
<1>3. ASSUME NEW t \in Ids, SlowHolder(t) \/ Time(t) PROVE BatchInv'
  BY <1>3, TimeBatch
<1>4. CASE UNCHANGED vars
  <2>1. UNCHANGED <<srv, tasks, faults>>
    BY <1>4 DEF vars, engineVars
  <2> QED  BY <2>1, BatchTypes, BatchStays DEF RowSame
<1> QED  BY <1>1, <1>2, <1>3, <1>4 DEF TimerNext

LEMMA BatchInvInit == Init => BatchInv
<1> SUFFICES ASSUME Init PROVE BatchInv
  OBVIOUS
<1>1. \A s \in Servers : srv[s].pc = "idle" /\ srv[s].todo = {} /\ Firing(s) = {}
  BY DEF Init, IdleLoop, Firing
<1>2. \A t \in Ids : Present(t) => tasks[t].retries = Retries
  <2>1. NoRow.state = "absent" /\ \A i \in Instances : NewRow(i).retries = Retries
    BY DEF NewRow, NoRow
  <2>2. \A t \in Ids : tasks[t] = NoRow \/ \E i \in Instances : tasks[t] = NewRow(i)
    <3>1. PICK R : R = {NoRow} \cup {NewRow(i) : i \in Instances}
      OBVIOUS
    <3>2. tasks \in [Ids -> R]
      BY <3>1 DEF Init
    <3> QED  BY <3>1, <3>2
  <2> QED  BY <2>1, <2>2 DEF Present
<1>3. BatchOK
  BY <1>1 DEF BatchOK
<1>4. RetryOK
  BY <1>1, <1>2, RetriesAssumption DEF RetryOK, Owed, Init
<1> QED  BY <1>1, <1>3, <1>4 DEF BatchInv, IdleInv

-----------------------------------------------------------------------------
\* BatchInv is an invariant, for any number of servers.
THEOREM BatchInvariance == Spec => []BatchInv
<1>1. Init => BatchInv
  BY BatchInvInit
<1>2. IndInv /\ IndInv' /\ BatchInv /\ [TimerNext]_vars => BatchInv'
  BY BatchInvStep
<1> QED  BY <1>1, <1>2, Invariance, PTL DEF Spec

\* One server spends a retry for a fault only, and at most one for each: a
\* lost reply, a failing statement, a crash, or a lock that expires under it.
\* Any number of servers, though all lock as one worker, spends none before
\* the first fault.
THEOREM RetriesOnlyOnFaults == Spec => []RetriesAccounted
<1>1. BatchInv => RetriesAccounted
  BY DEF BatchInv, RetryOK, RetriesAccounted, OneServer
<1> QED  BY <1>1, BatchInvariance, PTL

\* FOR UPDATE SKIP LOCKED, reclaim and complete together: as long as nothing
\* fails no row is in the batches of two servers.
THEOREM BatchesAreDisjoint ==
    Spec => [](faults = 0 => \A s1, s2 \in Servers :
                                 s1 # s2 => Firing(s1) \cap Firing(s2) = {})
<1>1. BatchInv => (faults = 0 => \A s1, s2 \in Servers :
                                     s1 # s2 => Firing(s1) \cap Firing(s2) = {})
  BY DEF BatchInv, BatchOK
<1> QED  BY <1>1, BatchInvariance, PTL

-----------------------------------------------------------------------------
(* A waiting token keeps its task.                                         *)

\* The row is still to fire or to be advanced.
Pending(t) ==
    \/ tasks[t].state \in Open
    \/ tasks[t].state = "COMPLETED" /\ ~tasks[t].advanced

HasTask(t) == Pending(t) \/ \E p \in Procs : t \in eng[p].made

\* Only servers call the engine, a call that saves has a copy of tokens that
\* are still in the table, and only a call that has saved has rows to create.
CopyInv ==
    \A p \in Procs :
        /\ ~Off(p) => p \in Servers
        /\ eng[p].pc = "save" => eng[p].snap.toks \subseteq tokens
        /\ eng[p].pc # "create" => eng[p].made = {}

TaskInv ==
    faults = 0 =>
        \A k \in tokens : k.status = "Waiting" /\ k.node \in Timers => HasTask(k.id)

WaitInv == CopyInv /\ TaskInv

\* Of the statements on rows only fail and mark_advanced end a pending row.
LEMMA PendingKept ==
    ASSUME RowsInv,
           \/ UNCHANGED tasks
           \/ ReclaimExpired
           \/ \E w, S : S \subseteq Lockable /\ LockReady(w, S)
           \/ \E t \in Ids : Complete(t)
           \/ \E t \in Ids : BecomesDue(t) \/ LockExpires(t) \/ Settles(t)
    PROVE  \A u \in Ids : Pending(u) => Pending(u)'
<1>1. /\ tasks \in [Ids -> Row] /\ \A u \in Ids : tasks[u] \in Row
      /\ \A u \in Ids : tasks[u].state \in Open => ~tasks[u].advanced
  BY DEF RowsInv, TasksTypeOK, RowsConsistent, RowOK, Open
<1>2. CASE UNCHANGED tasks
  BY <1>2 DEF Pending
<1>3. CASE ReclaimExpired
  <2>1. PICK E : tasks' = [u \in Ids |->
                             IF u \in E
                             THEN [tasks[u] EXCEPT !.state = "READY", !.owner = NoWorker,
                                                   !.expired = FALSE]
                             ELSE tasks[u]]
    BY <1>3 DEF ReclaimExpired, Update
  <2>2. \A r \in Row : [r EXCEPT !.state = "READY", !.owner = NoWorker,
                                 !.expired = FALSE].state = "READY"
    BY DEF Row
  <2> QED  BY <1>1, <2>1, <2>2 DEF Pending, Open
<1>4. CASE \E w, S : S \subseteq Lockable /\ LockReady(w, S)
  <2>1. PICK w, S : tasks' = [u \in Ids |->
                                IF u \in S
                                THEN [tasks[u] EXCEPT !.state = "LOCKED", !.owner = w,
                                                      !.expired = FALSE]
                                ELSE tasks[u]]
    <3>1. PICK w, S : LockReady(w, S)
      BY <1>4
    <3> QED  BY <3>1 DEF LockReady, Update
  <2>2. \A r \in Row : [r EXCEPT !.state = "LOCKED", !.owner = w,
                                 !.expired = FALSE].state = "LOCKED"
    BY DEF Row
  <2> QED  BY <1>1, <2>1, <2>2 DEF Pending, Open
<1>5. CASE \E t \in Ids : Complete(t)
  <2>0. PICK t \in Ids : Complete(t)
    BY <1>5
  <2>1. PICK U : tasks' = [tasks EXCEPT ![t].state = "COMPLETED", ![t].older = U]
    BY <2>0 DEF Complete
  <2>2. /\ tasks'[t].state = "COMPLETED" /\ tasks'[t].advanced = tasks[t].advanced
        /\ \A u \in Ids : u # t => tasks'[u] = tasks[u]
    BY <1>1, <2>1 DEF Row
  <2>3. Pending(t) => Pending(t)'
    BY <1>1, <2>2 DEF Pending
  <2>4. \A u \in Ids : u # t => (Pending(u) => Pending(u)')
    BY <2>2 DEF Pending
  <2> QED  BY <2>3, <2>4
<1>6. CASE \E t \in Ids : BecomesDue(t) \/ LockExpires(t) \/ Settles(t)
  <2>1. \A u \in Ids : tasks'[u].state = tasks[u].state /\ tasks'[u].advanced = tasks[u].advanced
    BY <1>1, <1>6 DEF BecomesDue, LockExpires, Settles, Row
  <2> QED  BY <2>1 DEF Pending
<1> QED  BY <1>2, <1>3, <1>4, <1>5, <1>6

\* A step that is not the engine's: a call begins or ends, rows change.
LEMMA StoreWait ==
    ASSUME WaitInv, EngineOK, tokens' = tokens, faults \in Nat, faults <= faults',
           NEW s \in Procs,
           \/ UNCHANGED eng
           \/ s \in Servers /\ Off(s) /\ \E i, id : CallCompleted(s, i, id)
           \/ faults' # 0 /\ Return(s),
           faults' = 0 =>
             \A k \in tokens : k.status = "Waiting" => (Pending(k.id) => Pending(k.id)')
    PROVE  WaitInv'
<1>1. /\ eng \in [Procs -> Call]
      /\ NoCall.made = {} /\ NoCall.pc = "off"
  BY DEF EngineOK, NoCall
<1>2. CASE UNCHANGED eng
  <2>1. CopyInv'
    BY <1>2 DEF WaitInv, CopyInv, Off
  <2>2. TaskInv'
    BY <1>2 DEF WaitInv, TaskInv, HasTask
  <2> QED  BY <2>1, <2>2 DEF WaitInv
<1>3. CASE s \in Servers /\ Off(s) /\ \E i, id : CallCompleted(s, i, id)
  <2>1. /\ eng'[s].pc = "row" /\ eng'[s].made = {}
        /\ \A q \in Procs : q # s => eng'[q] = eng[q]
    <3>1. PICK i, id : CallCompleted(s, i, id)
      BY <1>3
    <3> QED  BY <1>1, <3>1 DEF CallCompleted, NoCall
  <2>2. CopyInv'
    BY <1>3, <2>1 DEF WaitInv, CopyInv, Off
  <2>3. \A q \in Procs : eng'[q].made = eng[q].made
    BY <1>3, <2>1 DEF WaitInv, CopyInv, Off
  <2>4. TaskInv'
    BY <2>3 DEF WaitInv, TaskInv, HasTask
  <2> QED  BY <2>2, <2>4 DEF WaitInv
<1>4. CASE faults' # 0 /\ Return(s)
  <2>1. eng'[s] = NoCall /\ \A q \in Procs : q # s => eng'[q] = eng[q]
    BY <1>1, <1>4 DEF Return
  <2>2. CopyInv'
    BY <1>1, <2>1 DEF WaitInv, CopyInv, Off
  <2> QED  BY <1>4, <2>2 DEF WaitInv, TaskInv
<1> QED  BY <1>2, <1>3, <1>4

LEMMA EngineWait ==
    ASSUME NoSplit \/ OneServer, IndInv, MoveInv, WaitInv, NEW p \in Servers,
           EngineStep(p), UNCHANGED <<srv, advisory, faults>>
    PROVE  WaitInv'
<1>1. /\ EngineOK /\ p \in Procs /\ eng \in [Procs -> Call] /\ eng[p] \in Call
      /\ tasks \in [Ids -> Row] /\ tokens \subseteq Token
      /\ NoCall.made = {} /\ NoCall.pc = "off"
  BY IndInvParts, ServersAssumption
     DEF EngineOK, RowsInv, TasksTypeOK, StoreTypeOK, NoCall
<1>2. CASE EngineLoadRow(p) \/ EngineLoadTokens(p) \/ EngineReturn(p)
  <2>1. /\ UNCHANGED <<tasks, tokens>> /\ \A q \in Procs : q # p => eng'[q] = eng[q]
        /\ eng'[p].made = eng[p].made
        /\ eng'[p].pc = "save" => eng'[p].snap.toks \subseteq tokens
        /\ eng'[p].pc # "create" => eng'[p].made = {}
    <3>0. eng[p].pc # "create" => eng[p].made = {}
      BY <1>1 DEF WaitInv, CopyInv
    <3>1. CASE EngineLoadRow(p)
      <4>1. \/ Return(p)
            \/ \E state : eng' = [eng EXCEPT ![p].pc = "tokens", ![p].snap.state = state]
        BY <3>1 DEF EngineLoadRow
      <4>2. CASE Return(p)
        BY <1>1, <3>0, <3>1, <4>2 DEF EngineLoadRow, Return
      <4>3. CASE \E state : eng' = [eng EXCEPT ![p].pc = "tokens", ![p].snap.state = state]
        <5>1. /\ eng'[p].pc = "tokens" /\ eng'[p].made = eng[p].made
              /\ \A q \in Procs : q # p => eng'[q] = eng[q]
          BY <1>1, <4>3 DEF Call
        <5> QED  BY <3>0, <3>1, <5>1 DEF EngineLoadRow
      <4> QED  BY <4>1, <4>2, <4>3
    <3>2. CASE EngineLoadTokens(p)
      <4>1. PICK T : T = TokensOf(eng[p].inst)
        OBVIOUS
      <4>2. \/ Return(p)
            \/ eng' = [eng EXCEPT ![p].pc = "save", ![p].snap.toks = T]
        BY <3>2, <4>1 DEF EngineLoadTokens
      <4>3. T \subseteq tokens
        BY <4>1 DEF TokensOf
      <4>4. CASE Return(p)
        BY <1>1, <3>0, <3>2, <4>4 DEF EngineLoadTokens, Return
      <4>5. CASE eng' = [eng EXCEPT ![p].pc = "save", ![p].snap.toks = T]
        <5>1. /\ eng'[p].pc = "save" /\ eng'[p].made = eng[p].made /\ eng'[p].snap.toks = T
              /\ \A q \in Procs : q # p => eng'[q] = eng[q]
          BY <1>1, <4>5 DEF Call, Snapshot
        <5> QED  BY <3>0, <3>2, <4>3, <5>1 DEF EngineLoadTokens
      <4> QED  BY <4>2, <4>4, <4>5
    <3>3. CASE EngineReturn(p)
      BY <1>1, <3>3 DEF EngineReturn, Return
    <3> QED  BY <1>2, <3>1, <3>2, <3>3
  <2>2. CopyInv'
    BY <2>1 DEF WaitInv, CopyInv, Off
  <2>3. \A q \in Procs : eng'[q].made = eng[q].made
    BY <2>1
  <2>4. TaskInv'
    BY <2>1, <2>3 DEF WaitInv, TaskInv, HasTask, Pending
  <2> QED  BY <2>2, <2>4 DEF WaitInv
<1>3. CASE EngineSave(p)
  <2>1. PICK f : Saves(p, f)
    BY <1>3, SavesSomewhere
  <2>2. /\ tokens' = (tokens \ TokensOf(eng[p].inst)) \cup Left(p) \cup Arrive(eng[p].inst, f)
        /\ eng'[p].pc = "create" /\ eng'[p].made = {f[n] : n \in Targets(p) \cap Timers}
        /\ \A q \in Procs : q # p => eng'[q] = eng[q]
        /\ UNCHANGED tasks
    <3>1. UNCHANGED tasks
      BY <2>1 DEF Saves
    <3> QED  BY <1>1, <2>1, <3>1, SavedTokens
  <2>3. eng[p].pc = "save" /\ eng[p].made = {} /\ eng[p].snap.toks \subseteq tokens
    BY <1>1, <2>1 DEF Saves, WaitInv, CopyInv
  <2>4. PICK m \in Movable(p, eng[p].snap.toks) : m.id = Cur(p)
    <3>1. PICK M : M = Movable(p, eng[p].snap.toks)
      OBVIOUS
    <3>2. M # {} /\ \A k \in M : k.id = Cur(p)
      BY <1>1, <2>3, <3>1, SaverHolds
    <3> QED  BY <3>1, <3>2
  <2>5. m \in tokens /\ m.inst = eng[p].inst /\ srv[p].pc = "engine"
    <3>1. m \in eng[p].snap.toks
      BY <2>4 DEF Movable
    <3> QED  BY <1>1, <2>3, <3>1 DEF MoveInv, DataInv, SnapInv, CallInv, Off
  <2>6. ASSUME NEW q \in Procs, q # p, eng[q].pc = "save", NEW k \in eng[q].snap.toks
        PROVE  k \in tokens'
    <3>1. k.id # Cur(p)
      BY <1>1, <2>5, <2>6, NoOtherCopy DEF Holding
    <3>2. k \in tokens /\ q \in Servers
      BY <2>6 DEF WaitInv, CopyInv, Off
    <3>3. k.inst # eng[p].inst
      <4>1. NoSplit
        BY <2>6, <3>2 DEF OneServer
      <4> QED  BY <2>4, <2>5, <3>1, <3>2, <4>1 DEF MoveInv, DataInv, SingleInv
    <3> QED  BY <2>2, <3>2, <3>3 DEF TokensOf
  <2>7. CopyInv'
    BY <2>2, <2>6 DEF WaitInv, CopyInv, Off
  <2>8. \A q \in Procs : eng[q].made \subseteq eng'[q].made
    BY <2>2, <2>3
  <2>9. ASSUME faults' = 0, NEW k \in tokens', k.status = "Waiting", k.node \in Timers
        PROVE  HasTask(k.id)'
    <3>1. CASE k \in tokens
      BY <2>2, <2>8, <2>9, <3>1 DEF WaitInv, TaskInv, HasTask, Pending
    <3>2. CASE k \in Arrive(eng[p].inst, f)
      <4>1. k.node \in Targets(p) \cap Timers /\ f[k.node] = k.id
        BY <1>1, <2>1, <2>9, <3>2, ArrivingTokens
      <4> QED  BY <1>1, <2>2, <4>1 DEF HasTask
    <3> QED  BY <2>2, <2>3, <3>1, <3>2 DEF Left
  <2> QED  BY <2>7, <2>9 DEF WaitInv, TaskInv
<1>4. CASE EngineCreate(p)
  <2>1. CASE inst[eng[p].inst] = "none"
    <3>1. /\ eng'[p] = NoCall /\ UNCHANGED <<tasks, tokens>>
          /\ \A q \in Procs : q # p => eng'[q] = eng[q]
      BY <1>1, <1>4, <2>1 DEF EngineCreate, Return
    <3>2. CopyInv'
      BY <1>1, <3>1 DEF WaitInv, CopyInv, Off
    <3>3. \A k \in tokens : k.status = "Waiting" => k.id \notin eng[p].made
      BY <1>1, <2>1 DEF MoveInv, DataInv, TokenInv, Known
    <3>4. TaskInv'
      BY <3>1, <3>3 DEF WaitInv, TaskInv, HasTask, Pending
    <3> QED  BY <3>2, <3>4 DEF WaitInv
  <2>2. CASE inst[eng[p].inst] # "none"
    <3>1. PICK t \in eng[p].made :
            Create(t, eng[p].inst) /\ eng' = [eng EXCEPT ![p].made = @ \ {t}]
      BY <1>4, <2>2 DEF EngineCreate
    <3>2. /\ t \in Ids /\ NewRow(eng[p].inst).state = "READY"
          /\ eng[p].pc = "create" /\ tokens' = tokens
      BY <1>1, <1>4, <3>1 DEF Call, NewRow, NoRow, EngineCreate
    <3>3. /\ tasks'[t].state = "READY" /\ \A u \in Ids : u # t => tasks'[u] = tasks[u]
          /\ eng'[p].pc = "create" /\ eng'[p].made = eng[p].made \ {t}
          /\ \A q \in Procs : q # p => eng'[q] = eng[q]
      BY <1>1, <3>1, <3>2 DEF Create, Call
    <3>4. CopyInv'
      BY <1>1, <3>2, <3>3 DEF WaitInv, CopyInv, Off
    <3>5. ASSUME NEW u \in Ids, HasTask(u) PROVE HasTask(u)'
      <4>1. CASE u = t
        BY <3>3, <4>1 DEF HasTask, Pending, Open
      <4>2. CASE u # t
        BY <3>3, <3>5, <4>2 DEF HasTask, Pending
      <4> QED  BY <4>1, <4>2
    <3>6. \A k \in tokens : k.id \in Ids
      BY <1>1 DEF Token
    <3>7. TaskInv'
      BY <3>2, <3>5, <3>6 DEF WaitInv, TaskInv
    <3> QED  BY <3>4, <3>7 DEF WaitInv
  <2> QED  BY <2>1, <2>2
<1> QED  BY <1>2, <1>3, <1>4 DEF EngineStep

LEMMA WaitInvStep ==
    ASSUME NoSplit \/ OneServer, IndInv, MoveInv, BatchInv, WaitInv, TimerNext
    PROVE  WaitInv'
<1>1. /\ EngineOK /\ RowsInv /\ faults \in Nat
      /\ \A k \in tokens : k.id \in Ids
      /\ \A s \in Servers : srv[s].todo \subseteq Ids
      /\ Servers \subseteq Procs
  BY BatchTypes, ServersAssumption
     DEF EngineOK, StoreTypeOK, Token, IndInv, TypeOK, Loop
<1>2. ASSUME NEW s \in Servers,
             \/ Reclaim(s) \/ LockDueTimers(s) \/ CompleteTask(s) \/ GetTask(s)
             \/ SelectUnadvanced(s) \/ Reconcile(s) \/ EndPoll(s)
      PROVE  WaitInv'
  <2>1. /\ UNCHANGED <<tokens, eng, faults>>
        /\ \/ UNCHANGED tasks
           \/ ReclaimExpired
           \/ \E w, S : S \subseteq Lockable /\ LockReady(w, S)
           \/ \E t \in Ids : Complete(t)
    BY <1>1, <1>2 DEF Reclaim, LockDueTimers, CompleteTask, GetTask, SelectUnadvanced,
                      Reconcile, EndPoll, tables, Batches
  <2>2. \A u \in Ids : Pending(u) => Pending(u)'
    BY <1>1, <2>1, PendingKept
  <2> QED  BY <1>1, <2>1, <2>2, StoreWait
<1>3. ASSUME NEW s \in Servers, FailTask(s) PROVE WaitInv'
  <2>1. faults # 0
    BY <1>1, <1>3, NothingOwed DEF BatchInv, FailTask
  <2> QED  BY <1>1, <1>3, <2>1, StoreWait DEF FailTask, tables
<1>4. ASSUME NEW s \in Servers, AdvanceStep(s) PROVE WaitInv'
  <2>1. CASE Mark(s)
    <3>1. ~Waits(Cur(s), tokens)
      BY <1>4, <2>1 DEF Mark, MoveInv, MarkInv
    <3>2. \A u \in Ids : u # Cur(s) => tasks'[u] = tasks[u]
      BY <2>1 DEF Mark, MarkAdvanced, Update
    <3>3. \A k \in tokens : k.status = "Waiting" => (Pending(k.id) => Pending(k.id)')
      BY <1>1, <3>1, <3>2 DEF Waits, TokenIn, Pending
    <3> QED  BY <1>1, <2>1, <3>3, StoreWait DEF Mark, tables
  <2>2. CASE LoadTokens(s)
    <3>1. Off(s)
      BY <1>1, <2>2 DEF LoadTokens, MoveInv, CallInv
    <3>2. \/ UNCHANGED eng
          \/ \E i, id : CallCompleted(s, i, id)
      BY <2>2 DEF LoadTokens
    <3> QED  BY <1>1, <2>2, <3>1, <3>2, StoreWait DEF LoadTokens, tables, Pending
  <2>3. CASE EngineStep(s) /\ UNCHANGED <<srv, advisory, faults>>
    BY <2>3, EngineWait
  <2>4. CASE \/ TryAdvisoryLock(s) \/ CheckAdvanced(s) \/ LoadRow(s) \/ VerifyRow(s)
             \/ VerifyTokens(s) \/ Commit(s)
    <3>1. UNCHANGED <<tables, tasks, eng, faults>>
      BY <2>4 DEF TryAdvisoryLock, CheckAdvanced, LoadRow, VerifyRow, VerifyTokens, Commit
    <3> QED  BY <1>1, <3>1, StoreWait DEF tables, Pending
  <2> QED  BY <1>4, <2>1, <2>2, <2>3, <2>4 DEF AdvanceStep
<1>5. ASSUME NEW s \in Servers, ServerFault(s) PROVE WaitInv'
  <2>1. faults' = faults + 1 /\ UNCHANGED tokens
    BY <1>5 DEF ServerFault, Crash, PollFails, CompleteFails, GetFails, FailFails,
                AdvanceFails, EngineFails, Fault, EngineError, tables
  <2>2. UNCHANGED eng \/ Return(s)
    BY <1>5 DEF ServerFault, Crash, PollFails, CompleteFails, GetFails, FailFails,
                AdvanceFails, EngineFails, EngineError
  <2> QED  BY <1>1, <2>1, <2>2, StoreWait
<1>6. ASSUME NEW t \in Ids, Time(t) PROVE WaitInv'
  <2>1. /\ BecomesDue(t) \/ LockExpires(t) \/ Settles(t)
        /\ UNCHANGED <<tokens, eng, faults>>
    BY <1>6 DEF Time, AbandonedLockExpires, TimerDue, RowSettles, tables
  <2>2. \A u \in Ids : Pending(u) => Pending(u)'
    BY <1>1, <2>1, PendingKept
  <2>3. ASSUME NEW p \in Procs PROVE WaitInv'
    BY <1>1, <2>1, <2>2, StoreWait
  <2>4. CASE Procs = {}
    BY <2>1, <2>2, <2>4, <1>1 DEF WaitInv, CopyInv, TaskInv, HasTask
  <2> QED  BY <2>3, <2>4
<1>7. ASSUME NEW t \in Ids, SlowHolder(t) PROVE WaitInv'
  <2>1. faults' = faults + 1 /\ UNCHANGED <<tokens, eng>>
    BY <1>7 DEF SlowHolder, Fault, tables
  <2> QED  BY <1>1, <2>1, StoreWait DEF WaitInv, TaskInv, CopyInv, Off
<1> QED
  BY <1>2, <1>3, <1>4, <1>5, <1>6, <1>7 DEF TimerNext, ServerStep

LEMMA WaitInvUnchanged ==
    ASSUME WaitInv, UNCHANGED vars
    PROVE  WaitInv'
  BY DEF vars, engineVars, WaitInv, CopyInv, TaskInv, HasTask, Pending, Off

LEMMA WaitInvInit == Init => WaitInv
<1> SUFFICES ASSUME Init PROVE WaitInv
  OBVIOUS
<1>1. \A p \in Procs : eng[p].pc = "off" /\ eng[p].made = {}
  BY DEF Init, NoCall
<1>2. ASSUME NEW k \in Parked, k.node \in Timers PROVE tasks[k.id].state \in Open
  <2>1. k.id \in Ids
    BY ParkedAssumption DEF Token
  <2>2. \E m \in Parked : m.id = k.id /\ tasks[k.id] = NewRow(m.inst)
    BY <1>2, <2>1 DEF Init
  <2> QED  BY <2>2 DEF NewRow, NoRow, Open
<1> QED  BY <1>1, <1>2 DEF WaitInv, CopyInv, TaskInv, HasTask, Pending, Off, Init

THEOREM WaitInvariance ==
    ASSUME NoSplit \/ OneServer
    PROVE  Spec => []WaitInv
<1>1. Init => WaitInv
  BY WaitInvInit
<1>2. IndInv /\ MoveInv /\ BatchInv /\ WaitInv /\ [TimerNext]_vars => WaitInv'
  BY WaitInvStep, WaitInvUnchanged
<1> QED  BY <1>1, <1>2, Invariance, MoveInvariance, BatchInvariance, PTL DEF Spec

\* Without faults a token that waits at a timer is never forgotten: its row is
\* open or completed and not advanced, or the engine is about to create it.
THEOREM WaitingTokensKeepTasks ==
    ASSUME NoSplit \/ OneServer
    PROVE  Spec => []WaitingTokenHasTask
<1>1. IndInv /\ WaitInv => WaitingTokenHasTask
  <2>1. IndInv => \A k \in tokens : k.id \in Ids
    BY DEF IndInv, TypeOK, EngineTypeOK, StoreTypeOK, Token
  <2> QED  BY <2>1 DEF WaitInv, TaskInv, HasTask, Pending, WaitingTokenHasTask, Unadvanced
<1> QED  BY <1>1, Invariance, WaitInvariance, PTL

=============================================================================
