------------------------- MODULE ExternalTaskStore -------------------------
(***************************************************************************)
(* The table external_tasks and the statements of PgExternalTaskStore      *)
(* (app/src/pg_external_task_store.rs).  Every operator that constrains    *)
(* tasks' is ONE SQL statement, hence atomic.                              *)
(*                                                                         *)
(* Time is abstracted to what the WHERE clauses compare with now(): a row  *)
(* is due or not (due_at), its lock has expired or not (lock_expire_at),   *)
(* a COMPLETED row has settled or not (updated_at is 15 seconds old).      *)
(* `older` stands for ORDER BY updated_at: the rows that were already      *)
(* COMPLETED and not advanced when this row became COMPLETED.              *)
(***************************************************************************)
EXTENDS Identifiers, Naturals, FiniteSets

CONSTANTS
    Workers,   \* values of lock_owner
    NoWorker,  \* lock_owner is NULL
    Retries    \* retries a row is created with

ASSUME RetriesAssumption == Retries \in Nat \ {0}
ASSUME NoWorkerAssumption == NoWorker \notin Workers

VARIABLE tasks   \* the table, by identifier

Open == {"READY", "LOCKED"}

Row == [state    : Open \cup {"absent", "COMPLETED", "FAILED"},
        inst     : Instances \cup {NoInstance},
        owner    : Workers \cup {NoWorker},
        expired  : BOOLEAN,
        due      : BOOLEAN,
        retries  : 0 .. Retries,
        settled  : BOOLEAN,
        advanced : BOOLEAN,
        older    : SUBSET Ids]

NoRow == [state |-> "absent", inst |-> NoInstance, owner |-> NoWorker,
          expired |-> FALSE, due |-> FALSE, retries |-> 0,
          settled |-> FALSE, advanced |-> FALSE, older |-> {}]

\* INSERT ... 'READY', with due_at in the future for a timer.
NewRow(i) == [NoRow EXCEPT !.state = "READY", !.inst = i, !.retries = Retries]

Present(t) == tasks[t].state # "absent"

(***************************************************************************)
(* A SELECT ... LIMIT n over the rows E returns min(n, |E|) of them.       *)
(***************************************************************************)
Batches(E, limit) ==
    {S \in SUBSET E : \/ S = E /\ Cardinality(E) <= limit
                      \/ Cardinality(S) = limit}

\* The rows an UPDATE matches become f of what they were.
Update(S, f(_)) == tasks' = [t \in Ids |-> IF t \in S THEN f(tasks[t]) ELSE tasks[t]]

-----------------------------------------------------------------------------
(***************************************************************************)
(* lock_ready: the due READY rows of a batch become LOCKED by w.           *)
(* Locking two batches at once is serialised by FOR UPDATE SKIP LOCKED.    *)
(* The order of due_at is abstracted: any batch of the right size.         *)
(***************************************************************************)
LockableEarly == {t \in Ids : tasks[t].state = "READY"}   \* Mutant: due_at is not compared.

Lockable == {t \in Ids : tasks[t].state = "READY" /\ tasks[t].due}

LockReady(w, S) ==
    Update(S, LAMBDA r : [r EXCEPT !.state = "LOCKED", !.owner = w, !.expired = FALSE])

\* create: the primary key is fresh and the instance exists (foreign key).
Create(t, i) == tasks' = [tasks EXCEPT ![t] = NewRow(i)]

\* complete: the WHERE clause, and the effect when it matches.
Completable(t, w) ==
    /\ tasks[t].state = "LOCKED"
    /\ tasks[t].owner = w
    /\ ~tasks[t].expired

Unadvanced == {t \in Ids : tasks[t].state = "COMPLETED" /\ ~tasks[t].advanced}

\* Mutant: complete marks the row advanced as well.
CompleteAdvanced(t) ==
    tasks' = [tasks EXCEPT ![t].state = "COMPLETED", ![t].older = Unadvanced,
                           ![t].advanced = TRUE]

Complete(t) ==
    tasks' = [tasks EXCEPT ![t].state = "COMPLETED", ![t].older = Unadvanced]

(***************************************************************************)
(* fail: matches on state and owner, not on the expiry of the lock.  The   *)
(* last retry makes the row FAILED, any other makes it due again later.    *)
(***************************************************************************)
FailableByOwner(t, w) == tasks[t].owner = w   \* Mutant: the state is not compared.

Failable(t, w) == tasks[t].state = "LOCKED" /\ tasks[t].owner = w

\* Mutants: the limit is not looked at; a retry is counted twice.
FailedWithoutLimit(r) ==
    [r EXCEPT !.retries = r.retries - 1, !.state = "READY", !.due = FALSE,
              !.owner = NoWorker, !.expired = FALSE]

FailedTwice(r) ==
    LET left == r.retries - 2 IN
    [r EXCEPT !.retries = left,
              !.state   = IF left > 0 THEN "READY" ELSE "FAILED",
              !.due     = FALSE, !.owner = NoWorker, !.expired = FALSE]

Failed(r) ==
    LET left == r.retries - 1 IN
    [r EXCEPT !.retries = left,
              !.state   = IF left > 0 THEN "READY" ELSE "FAILED",
              !.due     = IF left > 0 THEN FALSE ELSE r.due,
              !.owner   = NoWorker,
              !.expired = FALSE]

Fail(t, w) == Update({u \in {t} : Failable(u, w)}, Failed)

\* reclaim_expired_locks
\* Mutant: the comparison with now() is swapped.
ExpiredSwapped == {t \in Ids : tasks[t].state = "LOCKED" /\ ~tasks[t].expired}

Expired == {t \in Ids : tasks[t].state = "LOCKED" /\ tasks[t].expired}

\* Mutant: lock_owner is left in place.
ReclaimKeepingOwner ==
    Update(Expired, LAMBDA r : [r EXCEPT !.state = "READY", !.expired = FALSE])

ReclaimExpired ==
    Update(Expired, LAMBDA r : [r EXCEPT !.state = "READY", !.owner = NoWorker, !.expired = FALSE])

\* cancel_for_instance
\* Mutants: rows in progress only; of every instance; whatever their state.
LockedOf(i) == {t \in Ids : tasks[t].inst = i /\ tasks[t].state = "LOCKED"}
OpenOfAll(i) == {t \in Ids : tasks[t].state \in Open}
AnyOf(i) == {t \in Ids : tasks[t].inst = i /\ Present(t)}

OpenOf(i) == {t \in Ids : tasks[t].inst = i /\ tasks[t].state \in Open}

CancelForInstance(i) ==
    Update(OpenOf(i), LAMBDA r : [r EXCEPT !.state = "FAILED", !.owner = NoWorker, !.expired = FALSE])

\* unadvanced: the settled rows, those completed first before the others.
Settled == {t \in Unadvanced : tasks[t].settled}

UnadvancedBatches(limit) ==
    {S \in Batches(Settled, limit) :
        \A t \in S, u \in Settled \ S : u \notin tasks[t].older}

\* is_advanced: a row that is gone counts as advanced.
IsAdvanced(t) == Present(t) => tasks[t].advanced

\* mark_advanced: updates nothing when the row is gone.
MarkAdvanced(t) == Update({u \in {t} : Present(u)}, LAMBDA r : [r EXCEPT !.advanced = TRUE])

\* DELETE of the instance cascades to its rows; the identifier is not reused.
DeleteTasksOf(i) ==
    Update({t \in Ids : tasks[t].inst = i}, LAMBDA r : [NoRow EXCEPT !.inst = i])

DeleteTasksOfAll ==
    Update({t \in Ids : Present(t)}, LAMBDA r : [NoRow EXCEPT !.inst = r.inst])

-----------------------------------------------------------------------------
(***************************************************************************)
(* The passing of time, one comparison with now() at a time.               *)
(***************************************************************************)
BecomesDue(t) ==
    /\ tasks[t].state = "READY" /\ ~tasks[t].due
    /\ tasks' = [tasks EXCEPT ![t].due = TRUE]

LockExpires(t) ==
    /\ tasks[t].state = "LOCKED" /\ ~tasks[t].expired
    /\ tasks' = [tasks EXCEPT ![t].expired = TRUE]

\* A row settles after the rows that were completed before it.
Settles(t) ==
    /\ t \in Unadvanced \ Settled
    /\ tasks[t].older \cap Unadvanced \subseteq Settled
    /\ tasks' = [tasks EXCEPT ![t].settled = TRUE]

TasksTypeOK == tasks \in [Ids -> Row]

(***************************************************************************)
(* The columns of a row agree: a row has an owner exactly from lock_ready  *)
(* to the statement that gives the row back (complete keeps the column),   *)
(* an open row has a retry left, and only a COMPLETED row is settled or    *)
(* marked advanced.                                                        *)
(***************************************************************************)
RowOK(r) ==
    /\ r.owner # NoWorker <=> r.state \in {"LOCKED", "COMPLETED"}
    /\ r.expired => r.state = "LOCKED"
    /\ r.state \in Open => r.retries > 0
    /\ r.settled \/ r.advanced => r.state = "COMPLETED"
    /\ r.state # "absent" => r.inst \in Instances

RowsConsistent == \A t \in Ids : RowOK(tasks[t])
=============================================================================
