----------------------------- MODULE UserRoutes -----------------------------
(***************************************************************************)
(* The routes that change process instances (app/src/routes/process:       *)
(* start.rs, advance.rs, cancel.rs, delete_instance and delete_process of  *)
(* list.rs), next to the timer loops of TimerService on the same tables.   *)
(* All instances are of one process.                                       *)
(*                                                                         *)
(* A request is a process that takes one statement at a time.  None of the *)
(* routes holds a lock or a transaction across its statements.  A handler  *)
(* that fails or whose client goes away stops where it is; that counts as  *)
(* a fault.  MaxRequests bounds the requests of a behaviour.               *)
(***************************************************************************)
EXTENDS TimerService

CONSTANTS Requests, MaxRequests

ASSUME RequestsAssumption ==
    /\ Requests \subseteq Procs /\ Requests \cap Servers = {}
    /\ MaxRequests \in Nat

VARIABLES
    req,     \* what each request does
    served,  \* requests so far
    begun,   \* instances whose identifier has been handed out
    manual,  \* some user has advanced a token by hand (history)
    process  \* the process has its row in the table processes

routeVars == <<req, served, begun, manual, process>>
allVars == <<vars, routeVars>>
timerVars == <<srv, advisory>>

Request == [op   : {"none", "start", "advance", "cancel"},
            pc   : {"idle", "row", "tokens", "save", "engine", "kill"},
            inst : Instances \cup {NoInstance},
            id   : Ids \cup {NoId},
            vars : BOOLEAN,
            snap : Snapshot]

NoRequest == [op |-> "none", pc |-> "idle", inst |-> NoInstance, id |-> NoId,
              vars |-> FALSE, snap |-> NoSnapshot]

Respond(r) == req' = [req EXCEPT ![r] = NoRequest]

Accept(r, request) ==
    /\ req[r].pc = "idle" /\ Off(r)
    /\ served < MaxRequests
    /\ served' = served + 1
    /\ req' = [req EXCEPT ![r] = request]

-----------------------------------------------------------------------------
\* start_process: a new instance identifier, then the engine does the rest.
Start(r) ==
    /\ \E i \in Instances \ begun :
         /\ Accept(r, [NoRequest EXCEPT !.op = "start", !.pc = "engine", !.inst = i])
         /\ begun' = begun \cup {i}
         /\ CallStarted(r, i)
    /\ UNCHANGED <<tables, tasks, timerVars, faults, manual, process>>

\* The buttons are on the page of an instance that existed once, and the page
\* may be stale: an advance may name a token that has moved since.
Advance(r) ==
    /\ \E id \in used, i \in begun, vars_changed \in BOOLEAN :
         Accept(r, [NoRequest EXCEPT !.op = "advance", !.pc = "row", !.inst = i,
                                     !.id = id, !.vars = vars_changed])
    /\ manual' = TRUE
    /\ UNCHANGED <<tables, tasks, eng, timerVars, faults, begun, process>>

Cancel(r) ==
    /\ \E i \in begun :
         Accept(r, [NoRequest EXCEPT !.op = "cancel", !.pc = "row", !.inst = i])
    /\ UNCHANGED <<tables, tasks, eng, timerVars, faults, begun, manual, process>>

\* delete_instance: one DELETE, which cascades to tokens and tasks.
Delete(r) ==
    /\ \E i \in begun :
         /\ Accept(r, NoRequest)
         /\ inst[i] # "none"
         /\ DeleteRow(i)
         /\ DeleteTasksOf(i)
    /\ UNCHANGED <<used, fired, eng, timerVars, faults, begun, manual, process>>

\* delete_process: the DELETE cascades to the instances and from them on.  The
\* page may be stale; another DELETE finds no row.
DeleteProcess(r) ==
    /\ Accept(r, NoRequest)
    /\ process
    /\ process' = FALSE
    /\ inst' = [i \in Instances |-> "none"]
    /\ tokens' = {}
    /\ DeleteTasksOfAll
    /\ UNCHANGED <<used, fired, eng, timerVars, faults, begun, manual>>

\* process_instances refers to processes: once the process is gone every save
\* is refused, and start finds no definition.  An engine call ends; advance and
\* cancel answer with an error.
ForeignKey == process' \/ \A i \in Instances : inst'[i] = "none"

EngineRefused(p) ==
    /\ ~process
    /\ eng[p].pc = "save"
    /\ EngineError(p)
    /\ UNCHANGED <<timerVars, faults, routeVars>>

SaveRefused(r) ==
    /\ ~process
    /\ req[r].pc = "save" /\ (req[r].op = "cancel" \/ req[r].vars)
    /\ Respond(r)
    /\ UNCHANGED <<tables, tasks, eng, timerVars, faults, served, begun, manual, process>>

-----------------------------------------------------------------------------
(* advance_instance and cancel_instance begin with the same load.          *)

\* Not found, or not running: an error response.
RequestLoadRow(r) ==
    /\ req[r].pc = "row"
    /\ IF InstanceRow(req[r].inst) = "Running"
       THEN req' = [req EXCEPT ![r].pc = "tokens", ![r].snap.state = "Running"]
       ELSE Respond(r)
    /\ UNCHANGED <<tables, tasks, eng, timerVars, faults, served, begun, manual, process>>

\* advance looks its token up by identifier, whatever its status.
AdvanceLoadTokens(r) ==
    LET toks == TokensOf(req[r].inst) IN
    /\ req[r].pc = "tokens" /\ req[r].op = "advance"
    /\ IF TokenIn(req[r].id, toks, {"Waiting", "Terminated"})
       THEN req' = [req EXCEPT ![r].pc = "save", ![r].snap.toks = toks]
       ELSE Respond(r)
    /\ UNCHANGED <<tables, tasks, eng, timerVars, faults, served, begun, manual, process>>

\* Changed variables are saved, and with them the state and the tokens as
\* they were loaded; then the engine is told that the task is completed.
AdvanceSave(r) ==
    /\ req[r].pc = "save" /\ req[r].op = "advance"
    /\ IF req[r].vars THEN Save(req[r].inst, req[r].snap) ELSE UNCHANGED <<inst, tokens>>
    /\ req' = [req EXCEPT ![r].pc = "engine", ![r].snap = NoSnapshot]
    /\ CallCompleted(r, req[r].inst, req[r].id)
    /\ UNCHANGED <<used, fired, tasks, timerVars, faults, served, begun, manual, process>>

\* start and advance load the instance once more, only to answer.
EngineReturned(r) ==
    /\ req[r].pc = "engine" /\ Off(r)
    /\ Respond(r)
    /\ UNCHANGED <<tables, tasks, eng, timerVars, faults, served, begun, manual, process>>

\* Mutant: a status that token_status_from_str does not know.
MarkCancelled(toks) == {[k EXCEPT !.status = "Cancelled"] : k \in toks}

Terminate(toks) == {[k EXCEPT !.status = "Terminated"] : k \in toks}

CancelLoadTokens(r) ==
    /\ req[r].pc = "tokens" /\ req[r].op = "cancel"
    /\ req' = [req EXCEPT ![r].pc = "save",
                          ![r].snap = [state |-> "Terminated",
                                       toks  |-> Terminate(TokensOf(req[r].inst))]]
    /\ UNCHANGED <<tables, tasks, eng, timerVars, faults, served, begun, manual, process>>

CancelSave(r) ==
    /\ req[r].pc = "save" /\ req[r].op = "cancel"
    /\ Save(req[r].inst, req[r].snap)
    /\ req' = [req EXCEPT ![r].pc = "kill", ![r].snap = NoSnapshot]
    /\ UNCHANGED <<used, fired, tasks, eng, timerVars, faults, served, begun, manual, process>>

CancelTasks(r) ==
    /\ req[r].pc = "kill"
    /\ CancelForInstance(req[r].inst)
    /\ Respond(r)
    /\ UNCHANGED <<tables, eng, timerVars, faults, served, begun, manual, process>>

\* A statement fails, the client goes away, or the server dies.
RequestStops(r) ==
    /\ Fault
    /\ req[r].pc # "idle"
    /\ Respond(r)
    /\ Return(r)
    /\ UNCHANGED <<tables, tasks, timerVars, served, begun, manual, process>>

-----------------------------------------------------------------------------
RoutesInit ==
    /\ Init
    /\ req = [r \in Requests |-> NoRequest]
    /\ served = 0
    /\ begun = {k.inst : k \in Parked}
    /\ manual = FALSE
    /\ process = TRUE

RequestStep(r) ==
    \/ SaveRefused(r)
    \/ EngineRefused(r)
    \/ RequestLoadRow(r)
    \/ AdvanceLoadTokens(r)
    \/ AdvanceSave(r)
    \/ EngineReturned(r)
    \/ CancelLoadTokens(r)
    \/ CancelSave(r)
    \/ CancelTasks(r)
    \/ EngineStep(r) /\ UNCHANGED <<timerVars, faults, routeVars>>

RoutesNext ==
    /\ \/ TimerNext /\ UNCHANGED routeVars
       \/ \E s \in Servers : EngineRefused(s)
       \/ \E r \in Requests :
            \/ Start(r)
            \/ Advance(r)
            \/ Cancel(r)
            \/ Delete(r)
            \/ DeleteProcess(r)
            \/ RequestStep(r)
            \/ RequestStops(r)
    /\ ForeignKey

RoutesSpec == RoutesInit /\ [][RoutesNext]_allVars

RoutesFairness ==
    /\ \A s \in Servers :
         WF_allVars((ServerStep(s) /\ UNCHANGED routeVars /\ ForeignKey) \/ EngineRefused(s))
    /\ \A t \in Ids : WF_allVars(Time(t) /\ UNCHANGED routeVars)
    /\ \A r \in Requests : WF_allVars(RequestStep(r) /\ ForeignKey)

RoutesFairSpec == RoutesSpec /\ RoutesFairness
-----------------------------------------------------------------------------
(* What the routes must guarantee.                                         *)

RoutesTypeOK ==
    /\ TypeOK
    /\ req \in [Requests -> Request]
    /\ served \in 0 .. MaxRequests
    /\ begun \subseteq Instances
    /\ manual \in BOOLEAN
    /\ process \in BOOLEAN

\* The cancel button, "Cannot resume.": whatever else is under way, nothing
\* makes a cancelled instance run or complete again.
CancelledStaysCancelled ==
    [][\A i \in Instances :
         inst[i] = "Terminated" => inst'[i] \in {"Terminated", "none"}]_allVars

\* cancel_for_instance, "kill open tasks so no worker completes them": once
\* the request is answered, and if nothing failed, a cancelled instance has
\* no open task.
CancelledHasNoOpenTask ==
    \A t \in Ids :
        /\ faults = 0
        /\ Present(t)
        /\ inst[InstanceOf(t)] = "Terminated"
        /\ \A r \in Requests : req[r].pc = "kill" => req[r].inst # InstanceOf(t)
        => tasks[t].state \notin Open

\* Cancelling, deleting and starting may race with the timer loop at every
\* statement, and crashes with all of them: as long as no user advances by
\* hand, a token moves at most once and none is left waiting at a task that is
\* marked advanced.
MovedOnceUnlessManual == ~manual => FiredAtMostOnce /\ AdvancedMeansMoved

\* Deleting is complete: no instance outlives its process and no token and no
\* task its instance, even when a loop or another request holds a copy of it.
NoOrphans ==
    /\ process \/ \A i \in Instances : inst[i] = "none"
    /\ TokensHaveInstance
    /\ \A t \in Ids : Present(t) => inst[InstanceOf(t)] # "none"
=============================================================================
