---------------------------- MODULE TimerService ----------------------------
(***************************************************************************)
(* The timer loop of every server process (app/src/timer.rs) and the       *)
(* advancing of a completed task (app/src/external_tasks.rs), over the     *)
(* stores and the engine.  A step is one statement on the database, since  *)
(* every await is a point where other processes run.                       *)
(*                                                                         *)
(* All servers lock rows as the same worker, "timer-service".  The         *)
(* transaction of advance_after_task only carries the advisory lock: the   *)
(* reads and writes between go through other connections and commit by     *)
(* themselves.  The timer completes with an empty result, so the merge of  *)
(* results into the instance's variables does not happen here.             *)
(*                                                                         *)
(* Faults share one budget, MaxFaults: a crash of a server, a statement    *)
(* that fails, a reply to complete that is lost, and a lock that expires   *)
(* while its holder is slow.                                               *)
(***************************************************************************)
EXTENDS BpmEngine

CONSTANTS
    Servers,
    Worker,      \* WORKER, "timer-service"
    Keys,        \* values of hashtext(task_id)
    HashText,    \* [Ids -> Keys]
    NoServer,    \* an advisory lock nobody holds
    BatchLimit,  \* LIMIT of lock_due_timers and unadvanced, 20 in the code
    MaxFaults,
    Parked       \* tokens of the instances started before the run begins

ASSUME ServersAssumption == Servers \subseteq Procs /\ NoServer \notin Servers
ASSUME WorkerAssumption == Worker \in Workers
ASSUME HashTextAssumption == HashText \in [Ids -> Keys]
ASSUME LimitsAssumption == BatchLimit \in Nat \ {0} /\ MaxFaults \in Nat
ASSUME ParkedAssumption ==
    /\ Parked \subseteq {k \in Token : k.status = "Waiting" /\ k.node \in First}
    /\ \A k, m \in Parked : k.id = m.id => k = m

VARIABLES
    srv,       \* the timer loop of each server
    advisory,  \* holder of each advisory lock
    faults     \* faults so far

vars == <<engineVars, srv, advisory, faults>>

\* Between pg_try_advisory_xact_lock and the end of its transaction.
Holding == {"check", "row", "tokens", "engine", "verify", "verifyTokens",
            "mark", "commit"}

Loop == [pc    : Holding \cup {"idle", "lock", "next", "get", "fail", "try"},
         phase : {"fire", "reconcile"},
         todo  : SUBSET Ids,
         cur   : Ids \cup {NoId},
         seen  : InstanceStates \cup {"none"}]

IdleLoop == [pc |-> "idle", phase |-> "fire", todo |-> {}, cur |-> NoId,
             seen |-> "none"]

Goto(s, label) == srv' = [srv EXCEPT ![s].pc = label]

\* The next task of the batch; this one is done with.
NextTask(s) == srv' = [srv EXCEPT ![s].pc = "next", ![s].cur = NoId, ![s].seen = "none"]

Cur(s) == srv[s].cur
Key(s) == HashText[Cur(s)]
InstanceOf(t) == tasks[t].inst

Release(s) == advisory' = [k \in Keys |-> IF advisory[k] = s THEN NoServer ELSE advisory[k]]

tables == <<inst, tokens, used, fired>>

-----------------------------------------------------------------------------
(* poll_once: reclaim, lock a batch, complete each of it.                  *)

Reclaim(s) ==
    /\ srv[s].pc = "idle"
    /\ ReclaimExpired
    /\ Goto(s, "lock")
    /\ UNCHANGED <<tables, eng, advisory, faults>>

LockDueTimers(s) ==
    /\ srv[s].pc = "lock"
    /\ \E S \in Batches(Lockable, BatchLimit) :
         /\ LockReady(Worker, S)
         /\ srv' = [srv EXCEPT ![s].pc = "next", ![s].phase = "fire", ![s].todo = S]
    /\ UNCHANGED <<tables, eng, advisory, faults>>

\* complete is refused when a row of the batch is not ours any more.
CompleteTask(s) ==
    /\ srv[s].pc = "next" /\ srv[s].phase = "fire"
    /\ \E t \in srv[s].todo :
         /\ srv' = [srv EXCEPT ![s].pc = IF Completable(t, Worker) THEN "get" ELSE "fail",
                               ![s].cur = t, ![s].todo = @ \ {t}]
         /\ IF Completable(t, Worker) THEN Complete(t) ELSE UNCHANGED tasks
    /\ UNCHANGED <<tables, eng, advisory, faults>>

\* get after complete; the row may have been deleted in between.
GetTask(s) ==
    /\ srv[s].pc = "get"
    /\ Goto(s, IF Present(Cur(s)) THEN "try" ELSE "fail")
    /\ UNCHANGED <<tables, tasks, eng, advisory, faults>>

FailTask(s) ==
    /\ srv[s].pc = "fail"
    /\ Fail(Cur(s), Worker)
    /\ NextTask(s)
    /\ UNCHANGED <<tables, eng, advisory, faults>>

\* poll_once goes on with the completed rows nobody advanced.
SelectUnadvanced(s) ==
    /\ srv[s].pc = "next" /\ srv[s].phase = "fire" /\ srv[s].todo = {}
    /\ \E S \in UnadvancedBatches(BatchLimit) :
         srv' = [srv EXCEPT ![s].phase = "reconcile", ![s].todo = S]
    /\ UNCHANGED <<tables, tasks, eng, advisory, faults>>

Reconcile(s) ==
    /\ srv[s].pc = "next" /\ srv[s].phase = "reconcile"
    /\ \E t \in srv[s].todo :
         srv' = [srv EXCEPT ![s].pc = "try", ![s].cur = t, ![s].todo = @ \ {t}]
    /\ UNCHANGED <<tables, tasks, eng, advisory, faults>>

EndPoll(s) ==
    /\ srv[s].pc = "next" /\ srv[s].phase = "reconcile" /\ srv[s].todo = {}
    /\ srv' = [srv EXCEPT ![s] = IdleLoop]
    /\ UNCHANGED <<tables, tasks, eng, advisory, faults>>

-----------------------------------------------------------------------------
(* advance_after_task, for the task srv[s].cur.                            *)

\* Mutant: bailing out leaves the advisory lock with the pooled connection.
LeaveKeepingLock(s) == NextTask(s) /\ UNCHANGED advisory

\* Returning before the commit drops the transaction, and the lock with it.
LeaveAdvance(s) == Release(s) /\ NextTask(s)

\* Mutant: the answer of pg_try_advisory_xact_lock is ignored.
TryIgnored(s) ==
    /\ srv[s].pc = "try"
    /\ advisory' = [advisory EXCEPT ![Key(s)] = s]
    /\ Goto(s, "check")
    /\ UNCHANGED <<tables, tasks, eng, faults>>

TryAdvisoryLock(s) ==
    /\ srv[s].pc = "try"
    /\ IF advisory[Key(s)] = NoServer
       THEN advisory' = [advisory EXCEPT ![Key(s)] = s] /\ Goto(s, "check")
       ELSE UNCHANGED advisory /\ NextTask(s)
    /\ UNCHANGED <<tables, tasks, eng, faults>>

CheckAdvanced(s) ==
    /\ srv[s].pc = "check"
    /\ IF IsAdvanced(Cur(s))
       THEN LeaveAdvance(s)
       ELSE Goto(s, "row") /\ UNCHANGED advisory
    /\ UNCHANGED <<tables, tasks, eng, faults>>

LoadRow(s) ==
    LET state == InstanceRow(InstanceOf(Cur(s))) IN
    /\ srv[s].pc = "row"
    /\ srv' = [srv EXCEPT ![s].pc = IF state = "none" THEN "mark" ELSE "tokens",
                          ![s].seen = state]
    /\ UNCHANGED <<tables, tasks, eng, advisory, faults>>

TokenIn(t, toks, statuses) == \E k \in toks : k.id = t /\ k.status \in statuses

\* Mutant: the task of a moved token is left for later, not marked.
LoadTokensLeaving(s) ==
    LET i == InstanceOf(Cur(s)) IN
    /\ srv[s].pc = "tokens"
    /\ IF srv[s].seen = "Running" /\ TokenIn(Cur(s), TokensOf(i), {"Waiting"})
       THEN Goto(s, "engine") /\ CallCompleted(s, i, Cur(s)) /\ UNCHANGED advisory
       ELSE LeaveAdvance(s) /\ UNCHANGED eng
    /\ UNCHANGED <<tables, tasks, faults>>

\* Instance gone, cancelled or finished, or token already moved: mark only.
LoadTokens(s) ==
    LET i == InstanceOf(Cur(s)) IN
    /\ srv[s].pc = "tokens"
    /\ IF srv[s].seen = "Running" /\ TokenIn(Cur(s), TokensOf(i), {"Waiting"})
       THEN Goto(s, "engine") /\ CallCompleted(s, i, Cur(s))
       ELSE Goto(s, "mark") /\ UNCHANGED eng
    /\ UNCHANGED <<tables, tasks, advisory, faults>>

\* run_async returned; verify that the token left the node.
VerifyRow(s) ==
    /\ srv[s].pc = "engine" /\ Off(s)
    /\ Goto(s, IF InstanceRow(InstanceOf(Cur(s))) = "none" THEN "mark" ELSE "verifyTokens")
    /\ UNCHANGED <<tables, tasks, eng, advisory, faults>>

\* Mutant: the engine's success is taken for granted.
VerifyNothing(s) ==
    /\ srv[s].pc = "verifyTokens"
    /\ Goto(s, "mark")
    /\ UNCHANGED <<tables, tasks, eng, advisory, faults>>

VerifyTokens(s) ==
    /\ srv[s].pc = "verifyTokens"
    /\ IF TokenIn(Cur(s), TokensOf(InstanceOf(Cur(s))), {"Waiting", "Terminated"})
       THEN LeaveAdvance(s)
       ELSE Goto(s, "mark") /\ UNCHANGED advisory
    /\ UNCHANGED <<tables, tasks, eng, faults>>

Mark(s) ==
    /\ srv[s].pc = "mark"
    /\ MarkAdvanced(Cur(s))
    /\ Goto(s, "commit")
    /\ UNCHANGED <<tables, eng, advisory, faults>>

Commit(s) ==
    /\ srv[s].pc = "commit"
    /\ LeaveAdvance(s)
    /\ UNCHANGED <<tables, tasks, eng, faults>>

-----------------------------------------------------------------------------
(* Faults and the passing of time.                                         *)

Fault == faults < MaxFaults /\ faults' = faults + 1

\* The process dies; its connections close, which ends its transaction.
Crash(s) ==
    /\ Fault
    /\ srv[s].pc # "idle"
    /\ srv' = [srv EXCEPT ![s] = IdleLoop]
    /\ Return(s)
    /\ Release(s)
    /\ UNCHANGED <<tables, tasks>>

\* A failing lock_due_timers or unadvanced ends the poll.
PollFails(s) ==
    /\ Fault
    /\ \/ srv[s].pc = "lock"
       \/ srv[s].pc = "next" /\ srv[s].phase = "fire" /\ srv[s].todo = {}
    /\ srv' = [srv EXCEPT ![s] = IdleLoop]
    /\ UNCHANGED <<tables, tasks, eng, advisory>>

\* complete fails, before or after the database has done it.
CompleteFails(s) ==
    /\ Fault
    /\ srv[s].pc = "next" /\ srv[s].phase = "fire"
    /\ \E t \in srv[s].todo :
         /\ srv' = [srv EXCEPT ![s].pc = "fail", ![s].cur = t, ![s].todo = @ \ {t}]
         /\ \/ Completable(t, Worker) /\ Complete(t)
            \/ UNCHANGED tasks
    /\ UNCHANGED <<tables, eng, advisory>>

GetFails(s) ==
    /\ Fault
    /\ srv[s].pc = "get"
    /\ Goto(s, "fail")
    /\ UNCHANGED <<tables, tasks, eng, advisory>>

\* The error of fail itself is ignored.
FailFails(s) ==
    /\ Fault
    /\ srv[s].pc = "fail"
    /\ NextTask(s)
    /\ UNCHANGED <<tables, tasks, eng, advisory>>

\* Any statement of advance_after_task fails: the transaction is dropped.
AdvanceFails(s) ==
    /\ Fault
    /\ srv[s].pc \in Holding \cup {"try"} /\ Off(s)
    /\ LeaveAdvance(s)
    /\ UNCHANGED <<tables, tasks, eng>>

EngineFails(s) ==
    /\ Fault
    /\ EngineError(s)
    /\ UNCHANGED <<srv, advisory>>

\* Some loop still works on the row's batch.
Held(t) == \E s \in Servers : t \in srv[s].todo \cup {Cur(s)}

SlowHolder(t) ==
    /\ Fault
    /\ Held(t)
    /\ LockExpires(t)
    /\ UNCHANGED <<tables, eng, srv, advisory>>

AbandonedLockExpires(t) ==
    /\ ~Held(t)
    /\ LockExpires(t)
    /\ UNCHANGED <<tables, eng, srv, advisory, faults>>

TimerDue(t) == BecomesDue(t) /\ UNCHANGED <<tables, eng, srv, advisory, faults>>
RowSettles(t) == Settles(t) /\ UNCHANGED <<tables, eng, srv, advisory, faults>>

-----------------------------------------------------------------------------
Init ==
    /\ tokens = Parked
    /\ inst = [i \in Instances |-> IF TokensOf(i) = {} THEN "none" ELSE "Running"]
    /\ used = {k.id : k \in Parked}
    /\ tasks \in [Ids -> {NoRow} \cup {NewRow(i) : i \in Instances}]
    /\ \A t \in Ids : IF \E k \in Parked : k.id = t /\ k.node \in Timers
                      THEN \E k \in Parked : k.id = t /\ tasks[t] = NewRow(k.inst)
                      ELSE tasks[t] = NoRow
    /\ eng = [p \in Procs |-> NoCall]
    /\ fired = [id \in Ids |-> 0]
    /\ srv = [s \in Servers |-> IdleLoop]
    /\ advisory = [k \in Keys |-> NoServer]
    /\ faults = 0

AdvanceStep(s) ==
    \/ TryAdvisoryLock(s)
    \/ CheckAdvanced(s)
    \/ LoadRow(s)
    \/ LoadTokens(s)
    \/ EngineStep(s) /\ UNCHANGED <<srv, advisory, faults>>
    \/ VerifyRow(s)
    \/ VerifyTokens(s)
    \/ Mark(s)
    \/ Commit(s)

ServerStep(s) ==
    \/ Reclaim(s)
    \/ LockDueTimers(s)
    \/ CompleteTask(s)
    \/ GetTask(s)
    \/ FailTask(s)
    \/ SelectUnadvanced(s)
    \/ Reconcile(s)
    \/ EndPoll(s)
    \/ AdvanceStep(s)

ServerFault(s) ==
    \/ Crash(s)
    \/ PollFails(s)
    \/ CompleteFails(s)
    \/ GetFails(s)
    \/ FailFails(s)
    \/ AdvanceFails(s)
    \/ EngineFails(s)

Time(t) == AbandonedLockExpires(t) \/ TimerDue(t) \/ RowSettles(t)

TimerNext ==
    \/ \E s \in Servers : ServerStep(s) \/ ServerFault(s)
    \/ \E t \in Ids : SlowHolder(t) \/ Time(t)

Spec == Init /\ [][TimerNext]_vars

\* The loop's task keeps being scheduled, a crashed server is restarted, and
\* the clock goes on.
Fairness ==
    /\ \A s \in Servers : WF_vars(ServerStep(s))
    /\ \A t \in Ids : WF_vars(Time(t))

FairSpec == Spec /\ Fairness

-----------------------------------------------------------------------------
(* What the timer service must guarantee.                                  *)

\* Tables, engine calls, loops and locks have their types.
TypeOK ==
    /\ EngineTypeOK
    /\ srv \in [Servers -> Loop]
    /\ advisory \in [Keys -> Servers \cup {NoServer}]
    /\ faults \in 0 .. MaxFaults

\* advance_after_task, "Advisory lock stops two callers": of all servers at
\* most one is between the lock and the end of its transaction for a task,
\* whatever crashes, statements fail, or hashes collide, as long as the
\* transaction's connection lives while its server does.
OneAdvancer ==
    \A s1, s2 \in Servers :
        /\ srv[s1].pc \in Holding
        /\ srv[s2].pc \in Holding
        /\ Cur(s1) = Cur(s2)
        => s1 = s2

(***************************************************************************)
(* Why TypeOK, RowsConsistent and OneAdvancer hold, as an inductive        *)
(* invariant.  Done rows stay done, the rows a loop takes through          *)
(* advance_after_task are done, the rows the engine is about to create are *)
(* not in use, and who is inside the lock's transaction holds the lock.    *)
(***************************************************************************)
Done(t) ==
    /\ t \in Ids
    /\ tasks[t].state \in {"COMPLETED", "absent"}
    /\ tasks[t].inst \in Instances

Unborn(t) == t \in Ids /\ tasks[t].inst = NoInstance

EngineInv ==
    /\ \A p \in Procs : ~Off(p) => eng[p].inst \in Instances
    /\ \A p \in Procs : \A t \in eng[p].made : t \in used /\ Unborn(t)
    /\ \A p, q \in Procs : p # q => eng[p].made \cap eng[q].made = {}
    /\ \A t \in Ids \ used : Unborn(t)

LoopInv ==
    \A s \in Servers :
        /\ srv[s].pc \in Holding \cup {"get", "try"} => Done(Cur(s))
        /\ srv[s].phase = "reconcile" => \A t \in srv[s].todo : Done(t)

LockInv == \A s \in Servers : srv[s].pc \in Holding => advisory[Key(s)] = s

IndInv == TypeOK /\ RowsConsistent /\ EngineInv /\ LoopInv /\ LockInv

\* advance_after_task is idempotent: the engine moves a token at most once,
\* though complete_and_advance and the reconciler of every server may try.
FiredAtMostOnce == \A t \in Ids : fired[t] <= 1

\* mark_advanced is final, so it must come after the move: no token of a
\* running instance still waits at a task that is marked advanced.
AdvancedMeansMoved ==
    \A k \in tokens :
        k.status = "Waiting" /\ inst[k.inst] = "Running" => ~tasks[k.id].advanced

\* A token that waits at a timer is never forgotten: without faults its row
\* is still to fire, or to be advanced, or the engine is about to create it.
WaitingTokenHasTask ==
    \A k \in tokens :
        k.status = "Waiting" /\ inst[k.inst] = "Running" /\ k.node \in Timers /\ faults = 0
        => \/ tasks[k.id].state \in Open
           \/ k.id \in Unadvanced
           \/ \E p \in Procs : k.id \in eng[p].made

\* Retries are spent on faults only: one server spends at most one for each
\* fault, and no number of servers spends one before the first.  (Of several
\* servers, two may spend one each on the same expired lock, since fail
\* compares the owner and all lock as the same worker.)
RetriesAccounted ==
    faults = 0 \/ (\A s1, s2 \in Servers : s1 = s2) =>
        \A t \in Ids : Present(t) => Retries - tasks[t].retries <= faults

\* COMPLETED and FAILED are final, and a completion is recorded once: no
\* reclaim, late fail or late complete reopens such a row.
SettledRowsStay ==
    [][\A t \in Ids :
         tasks[t].state \in {"COMPLETED", "FAILED"}
         => tasks'[t].state \in {tasks[t].state, "absent"}]_vars

\* "the reconciler retries it": a completed task is advanced in the end,
\* whatever its server was doing when it crashed or failed.
CompletedIsAdvanced ==
    \A t \in Ids : t \in Unadvanced ~> t \notin Unadvanced

\* The same for the tasks whose node the engine can leave.
LeavableIsAdvanced ==
    \A t \in Ids :
        t \in Unadvanced /\ (\E k \in tokens : k.id = t /\ k.node \notin Stuck)
        ~> t \notin Unadvanced

\* A timer that is open fires in the end, or has used up its retries.
TimerResolves ==
    \A t \in Ids : tasks[t].state \in Open ~> tasks[t].state \notin Open

\* What a row is to the timer it stands for: a lock, or the time it takes to
\* be reclaimed, does not show.
AlarmOf(r) ==
    CASE r.state = "absent"    -> "none"
      [] r.state = "COMPLETED" -> "rung"
      [] r.state = "FAILED"    -> "dead"
      [] OTHER -> IF r.due THEN "due" ELSE "set"

Alarm == INSTANCE Alarms WITH
    alarm   <- [t \in Ids |-> AlarmOf(tasks[t])],
    waiting <- {[id |-> k.id, node |-> k.node] : k \in {m \in tokens : m.status = "Waiting"}},
    moved   <- {t \in Ids : fired[t] > 0},
    struck  <- {t \in Ids : tasks[t].advanced}

\* Locks, batches, retries, crashes and whole-set saves of all servers come to
\* no more than the alarms of a diagram: no timer fires early, twice or in
\* place of another, and none is struck off before its token has left.
KeepsAlarms == Alarm!Promise
=============================================================================
