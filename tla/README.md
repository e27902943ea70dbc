# Verification of pavex_bpmn_process_manager

The program is a web server (Rust, Pavex) that starts, shows and advances BPMN
process instances kept in PostgreSQL. A token that reaches a service task of
type `timer:30s` waits there until a background loop of some server process
completes the task and lets the BPM engine move the token on. Several server
processes may share the database. Users sign up and in; every page but a few is
for users only. This directory holds TLA+ modules of the core, of the accounts and
of the way of a request through the server, TLC configurations that check them on
small instances, and TLAPS proofs.

Paths below are relative to `src/`; `app/src/` holds the program.

## 1. Inventory

| component | code | state | operations | talks to |
|---|---|---|---|---|
| external task store | `app/src/pg_external_task_store.rs`, migration `20261005124339` | table `external_tasks` | create, lock_ready (lock_due_timers, fetch_and_lock), complete, fail, reclaim_expired_locks, get, cancel_for_instance, unadvanced, is_advanced, mark_advanced, result_of, pending_for_instance | called by the loop, the routes and the engine |
| process instance store | `app/src/pg_process_store.rs` | tables `process_instances`, `tokens` | load, save, list_running | called by the loop, the routes and the engine |
| token store | same file | table `tokens` | load_by_instance, save_tokens, update_token_cas, claim_token | called by the engine only |
| task advancing | `app/src/external_tasks.rs` | an advisory lock per task | complete_and_advance, advance_after_task | both stores, the engine |
| timer service | `app/src/timer.rs` | one tokio task per server | poll_once, spawn_timer_loop; parse_timer, validate_definition | task store, task advancing |
| BPM engine | crates `bpm_engine_*`, not in the repository | none of its own | run_async(ProcessStarted / UserTaskCompleted) | the stores it is given in its context |
| instance routes | `app/src/routes/process/{start,advance,cancel,list}.rs` | none | start, advance, cancel, delete instance, delete definition | stores, engine |
| definition store | `app/src/engine_def_store.rs`, `routes/process/upload.rs` | table `processes`, interning pool | load, insert_decision_tasks, upload | engine, pages |
| gateway choices, marker | `app/src/routes/process/mod.rs`, `detail.rs` | none | gateway_choices_after, pick_active_marker | instance page |
| accounts, sessions | `routes/{signup,login,logout,password}.rs`, `session/auth.rs` | table `users`; sessions and cookies (crate `pavex_session`) | signup, signin, logout, the check before each route | every route |
| server start | `server/src/bin/server.rs`, `app/src/configuration.rs`, `server_sdk` | migrations done, the loop of this server | bind, connect and migrate, session store and its migration, spawn the loop, serve, exit | all |
| request pipeline | `server_sdk/src/lib.rs` (generated) | one pipeline per request | route, read cookies, extract what the handler needs in order, handle, finalize the session, set the cookie | every route |
| pages, configuration, telemetry | the rest | none | rendering, parsing, logging | |

What makes the core hard. No statement of it is part of a transaction with
another one, except inside `save`: the transaction of `advance_after_task` only
carries an advisory lock, `load` is two SELECTs, the engine saves and then
creates tasks. Every `await` is therefore a point where another server, another
request, a crash or an expired lock may come in. The engine reports no errors.
All servers lock rows under the same worker name. A session is only stored after
the handler has answered, in a stage of its own that may fail, and a client may go
away at any await. The list of hazards, each at its line, is in `PROJECT.json`.

What makes each component correct:

- task store: the columns of a row agree after any sequence of statements;
  COMPLETED and FAILED are final; locks of dead servers come back.
- task advancing: at most one caller is inside for a task; a token moves at most
  once; a task is marked advanced only when its token has left.
- timer service: every open timer resolves, every completed one is advanced.
- routes: what a user cancels or deletes stays so; rows of a deleted instance
  do not outlive it; tokens and tasks stay in step.
- definition store, choices, marker: a user is asked for the variables of each
  gateway right before it and for nothing else; an instance follows the diagram as
  drawn, although the engine runs another one; the task of an accepted timer is due
  when drawn, or is missing because the database cannot hold the time.
- token store: a version of a token is won by one caller, who has decided on the
  row as it is, unless `save_tokens` brings back old rows.
- accounts: one row per email under concurrent signups; a session is that of a user
  whose password its holder chose; what signup and signin answer is true.
- server start: nothing runs before both schemas are complete, however often a
  start was broken off.
- request pipeline: a path leads to one module, and nothing is done for a visitor
  before the check, except in the handlers that are public.

## 2. Modules

    Identifiers                the identifiers the tables share
      ExternalTaskStore        external_tasks, one operator per SQL statement
      ProcessStore             process_instances and tokens
        BpmEngine              an engine call, over both stores
          TimerService         the loop of each server, task advancing, faults
            UserRoutes         requests next to the loops
            MCTimerService     instances for TLC
              (MCUserRoutes for UserRoutes)
            TimerServiceProofs      theorems: rows, loops, locks
              TimerMovesProofs      tokens; the refinement of Alarms
                TimerRetriesProofs  batches, retries, tasks of waiting tokens
                UserRoutesProofs    routes next to the loops
                  RequestsAloneProofs  routes with the timer disabled
    Alarms                     what the timers promise (abstract)

    TokenStore                 tokens with versions, compare-and-swap
      TokenStoreProofs         theorems

    Accounts                   users, sessions, cookies
    Lifecycle                  start and end of a server
    Router                     the generated table and route modules, as data
      RequestPipeline          requests on a server, over all three
        RequestPipelineProofs  theorems
        MCRequestPipeline      instances for TLC
    Membership                 what the account routes promise (abstract)

    Definitions                definitions, decision tasks, choices, task types
      Decisions                an upload and its instances, one token
        DecisionsProofs        theorems
        MCDecisions            small diagrams for TLC
    Diagram                    what a drawn diagram promises (abstract)

**ExternalTaskStore.** `tasks` is the table as a function from identifiers to
rows. An operator that constrains `tasks'` is one statement, so it is atomic;
WHERE clauses are sets (`Lockable`, `Expired`, `OpenOf`, ...) or predicates
(`Completable`, `Failable`) and SET clauses are EXCEPTs. Time is reduced to what
the WHERE clauses compare with `now()`: `due`, `expired`, `settled` (COMPLETED 15
seconds ago). They become true by `BecomesDue`, `LockExpires`, `Settles`, and
false again where the code writes a new timestamp. `older` records the order of
`updated_at` among completed rows, for the reconciler's `ORDER BY ... LIMIT`.
A task has an identifier of its own in the code; it is identified here with its
token, since the engine creates one row for each token that arrives at a task.

**ProcessStore.** `inst` and `tokens`. `Save` upserts the row and replaces the
whole token set; the two SELECTs of `load` are separate operators, so that a
caller takes a step for each. Statuses are those that tokens of these nodes
take: Waiting (parked by the engine) and Terminated (by a cancel).

**BpmEngine.** The engine's source is not in the repository. It is modelled from
the way the code uses it and from what the code says of it: it loads the instance
through the process store it is given, moves the token the event names, saves,
and creates one external task for each timer node reached; it does so without a
lock, and swallows errors (`external_tasks.rs:98`). The definition is reduced to
`Flow`, from a waiting node to the next waiting nodes. `Stuck` nodes are those
the engine cannot leave (no gateway edge matches). *Assumptions*: it persists
through `process_store.save` and not token by token, it saves before it creates
the tasks, and it moves a token only if its copy shows the token Waiting in a
Running instance. The findings split_lost_move and cancel_late_task depend on the
first two.

**TimerService.** `srv[s]` is the local state of the loop of server s: its
program counter, the batch left, the current task. A step is one statement:
`Reclaim`, `LockDueTimers`, `CompleteTask`, `GetTask`, `FailTask`,
`SelectUnadvanced`, `Reconcile`, `EndPoll` are `poll_once` and
`complete_and_advance`; `TryAdvisoryLock` to `Commit` are `advance_after_task`.
`advisory` is the holder of each advisory lock, keyed by `HashText`, so hashes
may collide. Faults share the budget `MaxFaults`: a server crashes at any
point, any statement fails, the reply to complete is lost, a lock expires
although its holder is alive but slow. A failed
`reclaim_expired_locks` changes nothing and is a stutter. The connection of the
transaction, which holds the advisory lock, lives as long as the transaction does
(section 6).

**UserRoutes.** A request is a process with a program counter; `Start`,
`Advance`, `Cancel`, `Delete` and `DeleteProcess` accept it, the other actions are
its statements. A deleted definition takes its instances, tokens and tasks with it
(`ON DELETE CASCADE` and `delete_process`); from then on the engine finds no
definition (`EngineRefused`) and a save of an instance is refused by the foreign
key (`SaveRefused`). Requests come from pages that may be stale: an advance may name any
token that ever existed. A request that fails or whose client leaves stops where
it is (`RequestStops`, a fault).

**Alarms.** The abstract specification of the timers: `SetAlarm`, `Tick` (due, rung,
put off, dead), `Move`, `Strike`, over identifiers and nodes, with no servers, locks,
batches or copies. `TimerService` implements it with a row seen as its alarm
(`AlarmOf`: a lock does not show, `due` does), `waiting` being the tokens that wait
with their nodes, `moved` the identifiers that were fired and `struck` the tasks
marked advanced. All statements but those that make a row due, complete, fail,
create or mark it, and the saves that move a token, are stutters.

**Definitions.** Pure operators: `InsertDecisionTasks` (`engine_def_store.rs`),
`ValidDefinition` and `Parses` (`timer.rs`), `GatewayChoices`, `Unanswerable` and
`ActiveMarkers` (`routes/process/mod.rs`). A definition is a record of kinds, task
types and a set of edges. An id is a name and a number of suffixes, so that
appending, testing and stripping `__decide` are what they are in the code. A
condition is what `parse_edge_condition` returns for it, or `Malformed`; it is
assumed that the engine evaluates a condition the way the code parses it. The nodes
that a walk through gateways visits are the least set that is closed under leaving a
gateway, which is what the stack and the `seen` set of the code compute and can be
reasoned about without induction.

**Decisions.** The uploaded definition (`stored`), and an instance with one token
(`at`), its variables and the delay of the token's external task. `Upload`,
`Start`, `Advance` and `Cancel` are the routes; `LeaveStart`, `Route`,
`CompleteTask` and `Complete` are the engine on the *loaded* definition. `Advance`
is a user at the instance page: for each select one of its options, and no
advance at all if the page cannot be rendered. `left` holds the tokens that the
engine leaves behind, of which the comment of `pick_active_marker` tells.
`UserRoutes` has the interleavings of the routes; here they run one by one, and
what matters is the definition. `CreateDelay` is what `create` makes of a task type:
an error for a bad timer; otherwise `as_secs() as f64`, which is the integer itself up
to `F64Exact` (2^53) and some f64 not below it beyond (`AsF64`); and a second error if
`now() + make_interval(...)` is past what a timestamptz holds (`MaxDelay`, some
9.2 * 10^12 seconds). The engine swallows both errors and the token has no task.

**TokenStore.** Tokens as `update_token_cas`, `claim_token`, `save_tokens` and
`load_by_instance` treat them, each a single statement or transaction: `version`
goes up with each write, and a compare-and-swap changes the row only if the version
is the caller's. The engine, which alone calls them, is not in the repository, so
any number of callers use them in any order, on copies that may be stale;
`MaxVersion` bounds the versions.

**Router.** The table of `Router::new` and the bodies of the twenty route modules as
data: path patterns, the module for each method, `AllowedMethods`, and for each
module what its handler extracts and in which order. `Prefers` is how `matchit`
(external) decides between literal and `{id}` segments.

**Lifecycle.** `_main` from `bind` to `run`, with the two migrations in the order of
`get_pool` and `session_store`; every step may fail, and the process may end
anywhere. Migrations stay done.

**Accounts.** `users` with its UNIQUE email, `sessions` from ids to user ids, the
`cookie` each client holds. `holder` is a history variable: for whom a session id
was issued. A password is the client that chose it, so a client has one password
and knows nobody else's. Argon2 and the dummy hash are seen by their result.

**RequestPipeline.** A request is a record with a program counter: `Accept`
(`Router::route`, `wrapping_1`), one action per extractor in the order of its
module, the handler, `finalize_session` (`FinalizeKept`, `FinalizeSet`,
`FinalizeLeft` after what the handler did to the session) and `Inject`, which sets
the cookie or loses the response. `LateBadCookies` is for the modules without
`wrapping_1`'s cookies. `Disconnect` drops a request at any await, `Expire` ends a
session at any time, `ServerExits` takes all requests with it. Whether
`finalize_session` stores, fails, or fails after it has stored is a choice in each
step, and so is whether an id is reused or new, since `pavex_session` is external.
Handlers whose effects `UserRoutes` and `Decisions` model are reduced to their
outcome.

**Membership.** The abstract specification: `Join`, `Open`, `Enter`, `Leave`.
`RequestPipeline` implements it with `users`, `sessions` and `holder` as they are:
all other steps are stutters.

**Diagram.** The abstract specification: a token begins at a start event, follows
one drawn arrow after the other and completes at an end event. `Decisions`
implements it with `place` being `at` without suffix: a decision task is seen as
its gateway, and the step between them is a stutter.

## 3. Runs

All runs of the timer service and the routes: at most two servers, two instances and four identifiers, `Retries` 2
or 3 (the code passes what the engine gives), `BatchLimit` 20 as in the code
except where noted. Identifiers are never reused, so `Ids` also bounds how many
tokens a behaviour can create; `MaxRequests` bounds the requests. These sizes suffice for the cases the
properties tell apart: two contenders for a lock, two branches that share an
instance, two rows that compete for a batch, a row that uses up its retries.

| run | instance | checks | shows |
|---|---|---|---|
| timer_chain | 2 servers, one timer after another, both with the same advisory lock, 2 faults | TypeOK, RowsConsistent, OneAdvancer, IndInv, FiredAtMostOnce, AdvancedMeansMoved, WaitingTokenHasTask, RetriesAccounted, SettledRowsStay, CompletedIsAdvanced, TimerResolves, KeepsAlarms | two loops that race through one task, with crashes and late calls, move each token once, as the diagram's alarms do, and spend no retry before the first fault; the reconciler repairs every crash point, also for a task refused its lock |
| timer_split | 1 server, both branches of a split, 3 faults | FiredAtMostOnce, AdvancedMeansMoved, RetriesAccounted, KeepsAlarms | one server handles both branches in turn, so whole-set saves do not collide; it spends at most one retry for each fault |
| routes_race | 1 server, 3 requests, 2 at a time, 1 fault | RoutesTypeOK, MovedOnceUnlessManual, NoOrphans, SettledRowsStay | cancel, advance, delete of an instance or of its definition, and the loop at every interleaving |
| routes_live | 1 server, 3 requests one after another, 1 fault | CompletedIsAdvanced | a task of a cancelled, deleted or hand-advanced instance is settled too |
| routes_alone | no loop, 4 requests one after another | CancelledHasNoOpenTask, WaitingTokenHasTask | without overlap the routes keep tokens and tasks in step |
| decisions | 4,520 definitions of 5 nodes, 4,420 of them valid | DecisionsTypeOK, EnteredByDecision, AnsweredDecision, AsksItsOwnGateway, MarkerFits, TaskDueAsDrawn, FollowsDiagram | inserted tasks, questions and marker agree on every graph with loops, self-loops and gateways in a row; a rejected task type never waits; a timer is due when drawn, or missing if the database cannot hold its time |
| requests | 3 requests, 2 at a time, 2 clients, 1 email, 2 user ids, 3 session ids, 2 starts | PipelineTypeOK, SignedInAsOwn, AnswersTrue, NothingBeforeCheckIn, DispatchExact, TablesReady, KeepsMembership | signups and signins that race for one email, with failures at every await, clients that leave, sessions that expire and a server that ends |
| tokens | 1 token, 3 callers, versions up to 2 | OneWinner, VersionTellsRow | one winner per version among claims and updates, until a save brings back old rows |
| split_lost_move | 2 servers, a split, no fault | AdvancedMeansMoved violated | finding |
| reconciler_starves | 1 server, 2 instances, a stuck node, batch of 1, 1 fault | LeavableIsAdvanced violated | finding |
| cancel_undone | advance and cancel | CancelledStaysCancelled violated | finding |
| cancel_late_task | a loop and a cancel | CancelledHasNoOpenTask violated | finding |

In `requests` the first requests are those of signup, signin and logout, and the
last one asks for anything that some module serves, a path that two rows of the
table match, or one that no module serves (`Plan` of MCRequestPipeline). Two clients
and one email are enough for a signup that loses the race and a signin with
someone else's password, two starts for a start that is broken off between the two
migrations. Symmetry is over clients, user ids, session ids and requests.

The definitions of `decisions` have a start, a task, two exclusive gateways with
two edges each and an end. Two gateways are enough for those in a row and for
cycles between them; two keys and two values tell apart a choice of a value,
two keys at one gateway, and a gateway with a default. Task types are a worker's
topic, none, and timers that are good, zero, too large, without digits or unit.
`U64Max` is 100000, so that `2d` overflows, and the other two limits are below it in
the order they have in the code: `MaxDelay` 87000, so that `1d` is stored and `88000s`
accepted but refused by the database, and `F64Exact` 90000, above which every eighth
integer is an f64, so that `90003s` is rounded before it is refused. After an instance has ended another one
begins, and a running one can be cancelled, so the model never stops.

`CHECK_DEADLOCK FALSE` stands in the configurations without a timer loop
(`timer.enabled = false`) and in `requests`: there the system stops when the requests and starts of the
behaviour are used up. Symmetry is over servers, requests and identifiers that are
not in use initially; it is off in every run with a liveness property.

**Fairness.** `WF(ServerStep(s))`: the tokio task is polled again after each
await, and the interval of `spawn_timer_loop` starts the next poll whatever the
last one returned; a crashed server is started again by its supervisor.
`WF(Time(t))`: the clock goes on. `WF(RequestStep(r))`: a handler whose client
stays is driven to its end. Nothing is assumed of users or of faults. Strong
fairness is not needed: after a refused lock or a failed advance the next poll
selects the row again.

**What is not claimed.** `RetriesAccounted` bounds the retries spent by the faults for
one server only, and for several as long as no fault has occurred. After one, a slow
server's late `fail` may take a second retry from the lock another server has
just taken, since `fail` compares the owner and all are the worker `timer-service`
(`pg_external_task_store.rs:301`). Nothing in the repository says otherwise, so it is
a remark, not a finding. Nor is it that
`complete_and_advance` returns Err when only the `get` after its `complete` fails:
`SettledRowsStay` shows that the `fail` which follows changes nothing. `WaitingTokenHasTask`
is stated for runs without a fault: a crash of the engine between its save and
the creation of the task leaves a token that waits for ever, and no loop looks
for such tokens. `MovedOnceUnlessManual` leaves out behaviours in which a user
advances by hand, since `advance_instance` takes no lock at all.

The properties of `Decisions` assume that no drawn id ends in `__decide`
(`SuffixAssumption`). Without it they fail: `insert_decision_tasks` leaves the edges of
such a node alone, or replaces the node, although its comment says that all
incoming edges are redirected. Two things the page does are left as they are, as
nothing denies them: it never offers the way to a default edge when another value
of the variable is not on a drawn edge, and a condition that does not parse lets
the upload pass and the page fail until the instance is cancelled.

## 4. Findings

1. **cancel_undone.** `advance_instance` saves the instance it loaded
   (`advance.rs:55`), so a cancel in between is undone, although the button says
   "Cannot resume."
2. **cancel_late_task.** The engine's save comes before its `create`; a cancel
   between the two leaves an open task behind, which the loop fires later.
   `advance_after_task` then marks it without moving anything.
3. **split_lost_move.** The advisory lock is per task, the save per instance. Two
   servers that advance two branches lose one of the moves, after its task has
   been marked advanced.
4. **reconciler_starves.** Tasks that cannot advance keep the oldest `updated_at`
   and fill the reconciler's batch of 20 (1 in the run).

## 5. Proofs

`TimerServiceProofs` proves, for every value of the constants that satisfies
the assumptions named in the modules (any number of servers, instances and
identifiers, any definition, any hash, any fault budget):

- `Invariance`: `Spec => []IndInv`
- `TypeCorrect`: `Spec => []TypeOK`
- `RowsStayConsistent`: `Spec => []RowsConsistent`
- `AdvanceExclusive`: `Spec => []OneAdvancer`
- `SettledRowsAreFinal`: `Spec => SettledRowsStay`

The argument. OneAdvancer needs `LockInv`: whoever is between the try-lock and
the end of the transaction holds the lock of its *current* task's key. That is
inductive only with the loops' types. TypeOK needs that the current task of
`advance_after_task` has an instance, which rests on `LoopInv`: such a task is
COMPLETED, or deleted, and stays so (lemma family around `DoneKept`). That
rows of a loop are done, in turn, needs `EngineInv`: the engine creates rows
only for identifiers that no row has used, no two calls share them, and so
`create` never overwrites a row. RowsConsistent is what makes `retries - 1` a
natural number in `fail`. `IndInv` is the conjunction, and `timer_chain` checks
it as an invariant too.

The proof is laid out bottom up: facts on rows (what each statement makes of one
row), on the table (`RowsInv`, `DoneKept`), on the engine's calls, on one loop
(`LoopMoves`, `LoopLeaves`), one lemma per group of actions, and last
`IndInvInit`, `IndInvStep` and the theorems. `EngineOK` and `LoopsOK` are the two
halves of IndInv that most actions disturb separately (`IndInvParts`). For
SettledRowsAreFinal, `StepIsStatement` reduces a step to at most one statement on
`external_tasks`, and `StatementKeepsSettled` looks at each; `create` needs EngineInv
once more.

`TimerMovesProofs` proves, if no definition splits (`NoSplit`) or there is one server
(`OneServer`):

- `TokensMoveOnce`: `Spec => []FiredAtMostOnce`
- `MarkedTasksHaveMoved`: `Spec => []AdvancedMeansMoved`
- `TimersKeepPromise`: `Spec => KeepsAlarms`, the refinement of `Alarms`

The hypothesis is not one of convenience. An engine call saves all tokens of its
instance as it has loaded them, so another save of the instance in between is lost, and
`split_lost_move` shows that this happens with two servers and a split. The run
timer_chain is an instance of the first case, timer_split of the second. The
inductive invariant `MoveInv` says: only a server that holds the lock of a task has a
call for that task (`CallInv`); a call that is about to save has a copy of its own
instance's tokens with the one it moves (`SnapInv`); an identifier stays with one
instance and one node, in the table and in all copies (`TokenInv`); a token that
waits, *in the table or in a copy*, has not moved and its task is not marked
(`FireInv`); who is about to mark has seen that the token is gone (`MarkInv`); without
splits an instance has one token (`SingleInv`). FireInv is the heart: a save that
moves a token must leave no copy in which it still waits. With OneServer there is
no other call; with NoSplit another copy of the token would belong to another
holder of the same advisory lock.

For the refinement, `AlarmInv` adds that a row which is locked or done has been due
(`AlarmRows`), that the token of a row waits or has moved and that of a row still to be
created waits, and that a call which saves has the tokens as they are in the table
(`AlarmTokens`). The steps are sorted by what they do to alarms (`StatementTurns`: one row turns once, or
nothing shows), to tokens (`SavesOrKeeps`, `SaveIsMove`: the one save that changes
what waits is a `Move`, the others write back what is there) and to marks.

`TimerRetriesProofs` proves:

- `RetriesOnlyOnFaults`: `Spec => []RetriesAccounted`, for any number of servers; the
  property itself says what it claims of one and of several
- `BatchesAreDisjoint`: for any number of servers, that no row is in two batches before
  the first fault
- `WaitingTokensKeepTasks`: `Spec => []WaitingTokenHasTask`, if NoSplit or OneServer

All servers lock rows under one name, so an owner does not tell whose batch a row is
in; `BatchInv` says instead that the batches are disjoint and what the state of a row
in a batch is, as long as nothing has failed or there is one loop. It also counts the
retry that a loop is about to spend (`Owed`). `WaitInv` adds that a copy being saved
is still a part of the table, which is what keeps the tokens of other branches.

`UserRoutesProofs` proves about timer loops and requests together, for any number of
each:

- `RoutesTypeCorrect`: `RoutesSpec => []RoutesTypeOK`
- `RoutesKeepTimers`: `RoutesSpec => [](RowsConsistent /\ OneAdvancer)`
- `SettledRowsAreFinalNextToRoutes`: `RoutesSpec => SettledRowsStay`
- `DeletionLeavesNoOrphans`: `RoutesSpec => []NoOrphans`
- `TokensMoveOnceUnlessManual`: `RoutesSpec => []MovedOnceUnlessManual`, if NoSplit or
  OneServer

`RoutesInv` is IndInv and what a request works on. A step is a step of the timers,
whose lemmas are used again, or one of the few statements of the routes. NoOrphans
needs `OrphanInv`: a copy that a loop or a request still holds has tokens of its own
instance only, so that a late save either finds the instance's row or brings it back
together with its tokens, and only while the definition is there. For
MovedOnceUnlessManual, `CopyInv` says that a request which does not advance by hand saves
no token as waiting: cancel writes all of them as Terminated.

`RequestsAloneProofs` proves, with the timer disabled and one request after another
(`Alone`, which is `Servers = {}` and at most one request in flight; the run
routes_alone is an instance):

- `CancelKillsTasksAlone`: `RoutesSpec => []CancelledHasNoOpenTask`
- `RequestsAloneKeepTasks`: `RoutesSpec => []WaitingTokenHasTask`

`AloneInv` says that what the request has loaded is still what the tables say. That a
loop breaks the first is shown by `cancel_late_task`.

`DecisionsProofs` proves about `Decisions`, for any set of definitions, of any size
and shape, whose ids do not end in the suffix:

- `DecisionsTypeCorrect`: `Spec => []DecisionsTypeOK`
- `DecisionComesFirst`: `Spec => []EnteredByDecision`
- `InstancesFollowDiagram`: `Spec => FollowsDiagram`, the refinement of `Diagram`
- `TasksAreDueAsDrawn`: `Spec => []TaskDueAsDrawn`
- `MarkerShowsTheWait`: `Spec => []MarkerFits`
- `QuestionsAreTheGateways`: `Spec => []AsksItsOwnGateway`
- `AnswersFitTheGateway`: `Spec => []AnsweredDecision`

The argument of the first three is about one definition and not about steps: `NodesOfInserted` and
`EdgesOfInserted` say what insert_decision_tasks makes of each node and edge, from
which `OnlyDecisionsEnter` (an edge to a deciding gateway comes from its task) and
`EdgesSeenAsDrawn` (an edge is a drawn one or joins a task and its gateway) follow.
`DecisionsTypeOK` is inductive as it stands. `DecisionsInv` adds to it that the stored
definition is a valid one (`Accepted`), that the task of the current token is the one
its node calls for (`TaskDue`; what `Parses` accepts does not wrap, `DurationOfParsed`, and what the
database can hold is not rounded, `Rounding`),
and that tokens left behind are at nodes a token passes through (`LeftBehind`), which
is why the marker never rests on them. For the questions: whatever set the walk from a
decision task visits, the gateway after it is in it (`WalkFinds`), the walk does not
go beyond it, as a gateway that decides is entered by its task only (`WalkStaysIn`,
`WalkMeetsOne`), so the conditions it meets are those of this gateway (`MetAt`,
`DecisionAsks`). An option of each select therefore is an edge the engine can take, or
the default is. Of the assumptions on constants the
proofs use SuffixAssumption, CandidatesAssumption (edges join nodes), WidthAssumption, RoundingAssumption,
DatabaseAssumption (every time the database holds is below 2^53), ConditionAssumption, and that
the model values differ from what they stand beside.

`TokenStoreProofs` proves about `TokenStore`, for any tokens, callers and versions:

- `TokensTypeCorrect`: `Spec => []TokensTypeOK`
- `EqualVersionsEqualRows`: `Spec => []VersionTellsRow`
- `VersionsAreWonOnce`: `Spec => []OneWinner`

The last two hold as long as `save_tokens`, which writes versions without comparing
them, brings back no old rows (`overwritten`). `StoreInv` adds to VersionTellsRow, which says that no copy
is newer than its row, that a version which was won lies below the row's (`WonOK`),
so that no second caller can match it.

`RequestPipelineProofs` proves about `RequestPipeline`, for any clients, emails,
requests in flight, starts, and any paths and methods they ask for:

- `PipelineTypeCorrect`: `Spec => []PipelineTypeOK`
- `SessionsAreOwn`: `Spec => []SignedInAsOwn`
- `AnswersAreTrue`: `Spec => []AnswersTrue`
- `CheckedBeforeAnything`: `Spec => []NothingBeforeCheckIn`
- `RoutesAreExact`: `Spec => []DispatchExact`
- `TablesAreReady`: `Spec => []TablesReady`
- `MembersKept`: `Spec => KeepsMembership`, the refinement of `Membership`

The inductive invariant `PipelineInv` adds to the properties what is behind them.
A session is stored under the id of the request's cookie, so SignedInAsOwn needs
that cookies, requests and response cookies carry only ids issued for this client
(`CookiesHeld`, `Held`), and that a request which is going to store a session has a
row with its email and the client's password (`HasRow`); for a signin the row that
was looked up and the row that was verified are the same because ids are unique
(`UsersUnique`), for a signup the row is the one inserted. Rows are never changed,
so this survives whatever the other requests do (`TablesGrow`, `OthersKept`).
NothingBeforeCheckIn rests on one fact about the generated modules
(`RoutesChecked`): each of the twenty is public or extracts CheckedInUser first.
RoutesAreExact is about the table alone: rows of one length differ in a segment that is
literal in both, or are told apart by `Prefers` (`OneRow`), so it holds for every path
and not only for those that the run asks for.
Of the constants the proofs use that the names for "none" are not among the values,
and that `Targets` are paths and methods.

Only model-checked: the liveness properties CompletedIsAdvanced and TimerResolves, as
liveness under fairness is out of the prover's reach. Every invariant and action property
that a passing run checks is also the statement of a theorem, for those values of the
constants that the theorem names; LeavableIsAdvanced and CancelledStaysCancelled are
violated and have none. The assumptions about the engine in section 2 are part of the
model and so of every theorem about it.

## 6. Abstractions

- Variables, tenant, `version` and the attempt and group of a token are left out;
  `save` writes the version back uncompared, so it orders nothing. Of the merge of
  form variables only "did anything change" remains.
- The timer completes with an empty result, so the merge in
  `external_tasks.rs:79-83` cannot happen in these runs.
- A crash does not leave a statement in flight: a statement that the server sent
  before it died counts as executed before the crash or not at all. A dropped
  transaction releases its advisory lock at once; the pool rolls it back when the
  connection returns.
- The connection that holds an advisory lock runs nothing between the try-lock and the
  commit, while the statements in between use other connections of the pool. If it alone
  is lost, the database frees the lock and the holder goes on without it. This fault is
  not modelled: OneAdvancer, FiredAtMostOnce and their theorems assume that the
  connection lives until its transaction ends or its server dies.
- `now()` moves, so that the largest delay the database can hold shrinks by a second
  each second; `MaxDelay` is a constant, and the engine's `timeout_secs` is small.
- `ORDER BY due_at` is any batch of the right size; the batch of 20 never fills
  in these instances, except the reconciler's where it is 1.
- The order in which a batch is handled is arbitrary.
- In `Decisions`: one token; the order of a node's edges (any edge that matches may be
  taken); the syntax of conditions and durations, except for which of them parse;
  parallel gateways; the wording of labels. Compilation of the XML is external: a
  candidate is a compiled definition.
- In `RequestPipeline`: the theme, error bodies, logs, and everything in a request but its
  cookie, path, method and email. A graceful shutdown is an end of the process that
  comes later: until its timeout the requests in flight go on, as before an `Exit`.
- Sign-in keeps the session id that the request came with. The model assumes that a cookie
  with an id only reaches the client it was issued to; SignedInAsOwn rests on that.
- A session record without `user_id` and no record at all read the same to the code
  and are not told apart.
- A timer task is created by the engine with an empty result; what `fetch_and_lock`
  gives to workers of other types is not modelled, as nothing in the repository calls it.

## 7. Plan

Done: sections 2 to 5. Next, in this order:

1. `TaskWorkers`: `fetch_and_lock` with task types, workers with names of their
   own, results and their merge (`result_of`, the save before the engine call).
2. `Decisions` with several tokens (parallel split and join), which share the
   variables of the instance.
3. The refinement of `Alarms` next to the routes, with cancel and delete as abstract
   actions of a user.

## 8. Not modelled

Pages, editor and export render rows to HTML and change nothing; when they may run
is part of `RequestPipeline`. The values of the configuration and telemetry have no
state; the pool, migrations and session store of `configuration.rs` are in
`Lifecycle`. Password hashing, cookies' encryption, the session middleware and the
BPM engine are libraries outside the repository: they are modelled as the code uses
them, with a choice where it does not tell.
