-------------------------- MODULE UserRoutesProofs --------------------------
(***************************************************************************)
(* Proofs about the routes next to the timer loops, for every number of    *)
(* servers, requests, instances and faults.                                *)
(*                                                                         *)
(* A step of a request is one of a few statements on the stores, so what a *)
(* timer step keeps is kept by the routes as well once these statements    *)
(* are looked at: start and the engine calls of a request, the two saves,  *)
(* the two DELETEs and cancel_for_instance.                                *)
(***************************************************************************)
EXTENDS UserRoutes, TimerMovesProofs

\* What a request that is under way works on.
RequestInv ==
    /\ req \in [Requests -> Request]
    /\ served \in 0 .. MaxRequests
    /\ begun \subseteq Instances
    /\ manual \in BOOLEAN
    /\ process \in BOOLEAN
    /\ \A r \in Requests : req[r].pc # "idle" =>
          /\ req[r].inst \in Instances
          /\ req[r].op = "advance" => req[r].id \in Ids

RoutesInv == IndInv /\ RequestInv

-----------------------------------------------------------------------------
(* The statements of the routes.                                           *)

\* Rows change, and keep their instance; the tables keep their types.
LEMMA EngineElsewhere ==
    ASSUME EngineOK, RowsInv', StoreTypeOK', UNCHANGED <<eng, used, fired>>,
           \A t \in Ids : tasks'[t].inst = tasks[t].inst
    PROVE  EngineOK'
<1>1. EngineInv'
  BY DEF EngineOK, EngineInv, Off, Unborn, Call
<1> QED  BY <1>1 DEF EngineOK

\* A DELETE takes rows away; the identifiers stay in use.
LEMMA DeletedRows ==
    ASSUME RowsInv, NEW D,
           \A t \in D \cap Ids : tasks[t].inst \in Instances,
           tasks' = [t \in Ids |-> IF t \in D THEN [NoRow EXCEPT !.inst = tasks[t].inst]
                                   ELSE tasks[t]]
    PROVE  /\ RowsInv' /\ DoneKept
           /\ \A t \in Ids : /\ tasks'[t].inst = tasks[t].inst
                             /\ tasks'[t].state \in {tasks[t].state, "absent"}
                             /\ tasks'[t].advanced => tasks[t].advanced
                             /\ t \in D => tasks'[t].state = "absent"
<1>1. \A i \in Instances : LET r == [NoRow EXCEPT !.inst = i]
                           IN  /\ r \in Row /\ RowOK(r) /\ r.state = "absent"
                               /\ r.inst = i /\ ~r.advanced
  <2>1. /\ NoRow \in Row /\ NoRow.state = "absent" /\ NoRow.owner = NoWorker
        /\ NoRow.expired = FALSE /\ NoRow.settled = FALSE /\ NoRow.advanced = FALSE
    BY RetriesAssumption DEF NoRow, Row, Open
  <2>2. \A r \in Row, i \in Instances :
           LET n == [r EXCEPT !.inst = i]
           IN  /\ n \in Row /\ n.state = r.state /\ n.owner = r.owner
               /\ n.expired = r.expired /\ n.settled = r.settled
               /\ n.advanced = r.advanced /\ n.inst = i
    BY DEF Row
  <2> QED  BY <2>1, <2>2 DEF RowOK, Open
<1>2. \A t \in Ids : tasks[t] \in Row /\ RowOK(tasks[t])
  BY DEF RowsInv, TasksTypeOK, RowsConsistent
<1>3. \A t \in Ids : IF t \in D
                     THEN LET r == tasks'[t]
                          IN  /\ r \in Row /\ RowOK(r) /\ r.state = "absent"
                              /\ r.inst = tasks[t].inst /\ ~r.advanced
                     ELSE tasks'[t] = tasks[t]
  BY <1>1
<1>4. tasks' \in [Ids -> Row]
  BY <1>2, <1>3
<1>5. RowsInv'
  BY <1>2, <1>3, <1>4 DEF RowsInv, TasksTypeOK, RowsConsistent
<1>6. \A t \in Ids : /\ tasks'[t].inst = tasks[t].inst
                     /\ tasks'[t].state \in {tasks[t].state, "absent"}
                     /\ tasks'[t].advanced => tasks[t].advanced
                     /\ t \in D => tasks'[t].state = "absent"
  BY <1>3
<1>7. DoneKept
  BY <1>6 DEF DoneKept, Done
<1> QED  BY <1>5, <1>6, <1>7

\* cancel_for_instance: the open rows fail.
LEMMA CancelledRows ==
    ASSUME RowsInv, NEW i, CancelForInstance(i)
    PROVE  /\ RowsInv' /\ DoneKept
           /\ \A t \in Ids :
                /\ tasks'[t].inst = tasks[t].inst
                /\ tasks'[t].advanced => tasks[t].advanced
                /\ tasks'[t].state = IF t \in OpenOf(i) THEN "FAILED" ELSE tasks[t].state
<1>1. tasks' = [t \in Ids |-> IF t \in OpenOf(i)
                              THEN [tasks[t] EXCEPT !.state = "FAILED", !.owner = NoWorker,
                                                    !.expired = FALSE]
                              ELSE tasks[t]]
  BY DEF CancelForInstance, Update
<1>2. \A t \in Ids : tasks[t] \in Row /\ RowOK(tasks[t])
  BY DEF RowsInv, TasksTypeOK, RowsConsistent
<1>3. \A r \in Row : RowOK(r) /\ r.state \in Open =>
         LET n == [r EXCEPT !.state = "FAILED", !.owner = NoWorker, !.expired = FALSE]
         IN  /\ n \in Row /\ RowOK(n) /\ n.state = "FAILED"
             /\ n.inst = r.inst /\ n.advanced = r.advanced
  BY DEF Row, RowOK, Open
<1>4. \A t \in Ids : t \in OpenOf(i) => tasks[t].state \in Open
  BY DEF OpenOf
<1>5. \A t \in Ids : IF t \in OpenOf(i)
                     THEN LET n == tasks'[t]
                          IN  /\ n \in Row /\ RowOK(n) /\ n.state = "FAILED"
                              /\ n.inst = tasks[t].inst /\ n.advanced = tasks[t].advanced
                     ELSE tasks'[t] = tasks[t]
  BY <1>1, <1>2, <1>3, <1>4
<1>6. tasks' \in [Ids -> Row]
  BY <1>1, <1>2, <1>5
<1>7. RowsInv'
  BY <1>2, <1>5, <1>6 DEF RowsInv, TasksTypeOK, RowsConsistent
<1>8. \A t \in Ids :
        /\ tasks'[t].inst = tasks[t].inst
        /\ tasks'[t].advanced => tasks[t].advanced
        /\ tasks'[t].state = IF t \in OpenOf(i) THEN "FAILED" ELSE tasks[t].state
  BY <1>5
<1>9. DoneKept
  BY <1>4, <1>8 DEF DoneKept, Done, Open
<1> QED  BY <1>7, <1>8, <1>9

LEMMA SavedStore ==
    ASSUME StoreTypeOK, NEW i \in Instances, NEW snapshot \in Snapshot, Save(i, snapshot)
    PROVE  StoreTypeOK'
<1>1. inst' = [inst EXCEPT ![i] = snapshot.state]
      /\ tokens' = (tokens \ TokensOf(i)) \cup snapshot.toks
  BY DEF Save
<1>2. snapshot.state \in InstanceStates \cup {"none"} /\ snapshot.toks \subseteq Token
  BY DEF Snapshot
<1> QED  BY <1>1, <1>2 DEF StoreTypeOK

\* A call begins, whatever the request has saved before.
LEMMA CallBegins ==
    ASSUME EngineOK, StoreTypeOK', UNCHANGED <<tasks, used, fired>>,
           NEW p \in Procs, NEW c \in Call, c.inst \in Instances, c.made = {},
           eng' = [eng EXCEPT ![p] = c]
    PROVE  EngineOK' /\ DoneKept
<1>1. /\ eng' \in [Procs -> Call]
      /\ \A q \in Procs : IF q = p THEN eng'[q] = c ELSE eng'[q] = eng[q]
  BY DEF EngineOK
<1>2. EngineInv'
  BY <1>1 DEF EngineOK, EngineInv, Off, Unborn
<1> QED
  BY <1>1, <1>2 DEF EngineOK, RowsInv, TasksTypeOK, RowsConsistent, DoneKept, Done

-----------------------------------------------------------------------------
(* Types and rows.                                                         *)

\* What a request does.
RouteStep(r) ==
    \/ Start(r) \/ Advance(r) \/ Cancel(r) \/ Delete(r) \/ DeleteProcess(r)
    \/ RequestStep(r) \/ RequestStops(r)

\* The steps of a request that only read, and answer or go on.
Reading(r) ==
    \/ Advance(r) \/ Cancel(r) \/ SaveRefused(r) \/ RequestLoadRow(r)
    \/ AdvanceLoadTokens(r) \/ EngineReturned(r) \/ CancelLoadTokens(r)

LEMMA ReadingChanges ==
    ASSUME NEW r \in Requests, Reading(r)
    PROVE  UNCHANGED <<tables, tasks, eng, srv, advisory, faults>>
  BY DEF Reading, Advance, Cancel, SaveRefused, RequestLoadRow, AdvanceLoadTokens,
         EngineReturned, CancelLoadTokens, timerVars

LEMMA RouteTables ==
    ASSUME RoutesInv, NEW r \in Requests, RouteStep(r)
    PROVE  EngineOK' /\ DoneKept /\ UNCHANGED <<srv, advisory>> /\ faults' \in 0 .. MaxFaults
<1>1. EngineOK /\ LoopsOK /\ r \in Procs /\ req[r] \in Request
  BY IndInvParts, RequestsAssumption DEF RoutesInv, RequestInv
<1>2. RowsInv /\ StoreTypeOK /\ inst \in [Instances -> InstanceStates \cup {"none"}]
      /\ tokens \subseteq Token
  BY <1>1 DEF EngineOK, StoreTypeOK
<1>3. req[r].snap \in Snapshot /\ NoCall \in Call /\ NoCall.made = {}
  BY <1>1 DEF Request, NoCall, Call, NoSnapshot, Snapshot
<1>4. UNCHANGED <<srv, advisory>>
  BY DEF RouteStep, Start, Advance, Cancel, Delete, DeleteProcess, RequestStep, SaveRefused,
         EngineRefused, RequestLoadRow, AdvanceLoadTokens, AdvanceSave, EngineReturned,
         CancelLoadTokens, CancelSave, CancelTasks, RequestStops, timerVars
<1>5. faults' \in 0 .. MaxFaults
  <2>1. faults' = faults \/ Fault
    BY DEF RouteStep, Start, Advance, Cancel, Delete, DeleteProcess, RequestStep, SaveRefused,
           EngineRefused, RequestLoadRow, AdvanceLoadTokens, AdvanceSave, EngineReturned,
           CancelLoadTokens, CancelSave, CancelTasks, RequestStops
  <2> QED  BY <1>1, <2>1, FaultCounted DEF LoopsOK
<1> SUFFICES EngineOK' /\ DoneKept
  BY <1>4, <1>5
<1>6. CASE Reading(r)
  BY <1>1, <1>6, ReadingChanges, ReadsOnly
<1>7. CASE Start(r)
  <2>1. PICK i \in Instances : CallStarted(r, i)
    BY <1>7 DEF Start
  <2>2. PICK c : c = [NoCall EXCEPT !.pc = "save", !.inst = i]
    OBVIOUS
  <2>3. c \in Call /\ c.inst = i /\ c.made = {} /\ eng' = [eng EXCEPT ![r] = c]
    BY <1>3, <2>1, <2>2 DEF CallStarted, Call
  <2> QED  BY <1>1, <1>2, <1>7, <2>3, CallBegins DEF Start, tables, StoreTypeOK
<1>8. CASE Delete(r)
  <2>1. PICK i \in begun : DeleteRow(i) /\ DeleteTasksOf(i)
    BY <1>8 DEF Delete
  <2>2. i \in Instances
    BY DEF RoutesInv, RequestInv
  <2>3. PICK D : /\ D = {t \in Ids : tasks[t].inst = i}
                 /\ tasks' = [t \in Ids |-> IF t \in D THEN [NoRow EXCEPT !.inst = i] ELSE tasks[t]]
    BY <2>1 DEF DeleteTasksOf, Update
  <2>4. tasks' = [t \in Ids |-> IF t \in D THEN [NoRow EXCEPT !.inst = tasks[t].inst]
                                ELSE tasks[t]]
    BY <2>3
  <2>5. /\ RowsInv' /\ DoneKept /\ \A t \in Ids : tasks'[t].inst = tasks[t].inst
    BY <1>2, <2>2, <2>3, <2>4, DeletedRows
  <2>6. StoreTypeOK'
    BY <1>2, <2>1, <2>2 DEF DeleteRow, StoreTypeOK, InstanceStates
  <2> QED  BY <1>1, <1>8, <2>5, <2>6, EngineElsewhere DEF Delete
<1>9. CASE DeleteProcess(r)
  <2>1. PICK D : /\ D = {t \in Ids : Present(t)}
                 /\ tasks' = [t \in Ids |-> IF t \in D THEN [NoRow EXCEPT !.inst = tasks[t].inst]
                                            ELSE tasks[t]]
    BY <1>9 DEF DeleteProcess, DeleteTasksOfAll, Update
  <2>2. \A t \in D : tasks[t].inst \in Instances
    BY <1>2, <2>1 DEF RowsInv, RowsConsistent, RowOK, Present
  <2>3. /\ RowsInv' /\ DoneKept /\ \A t \in Ids : tasks'[t].inst = tasks[t].inst
    BY <1>2, <2>1, <2>2, DeletedRows
  <2>4. StoreTypeOK'
    BY <1>9 DEF DeleteProcess, StoreTypeOK, InstanceStates
  <2> QED  BY <1>1, <1>9, <2>3, <2>4, EngineElsewhere DEF DeleteProcess
<1>10. CASE EngineRefused(r) \/ EngineStep(r)
  BY <1>1, <1>10, EngineStepInv DEF EngineRefused
<1>11. CASE AdvanceSave(r)
  <2>1. req[r].inst \in Instances /\ req[r].id \in Ids
    BY <1>11 DEF AdvanceSave, RoutesInv, RequestInv
  <2>2. StoreTypeOK'
    BY <1>2, <1>3, <1>11, <2>1, SavedStore DEF AdvanceSave, StoreTypeOK
  <2>3. PICK c : c = [NoCall EXCEPT !.pc = "row", !.inst = req[r].inst, !.id = req[r].id]
    OBVIOUS
  <2>4. c \in Call /\ c.inst \in Instances /\ c.made = {} /\ eng' = [eng EXCEPT ![r] = c]
    BY <1>3, <1>11, <2>1, <2>3 DEF AdvanceSave, CallCompleted, Call
  <2> QED  BY <1>1, <1>11, <2>2, <2>4, CallBegins DEF AdvanceSave
<1>12. CASE CancelSave(r)
  <2>1. StoreTypeOK'
    BY <1>2, <1>3, <1>12, SavedStore DEF CancelSave, RoutesInv, RequestInv
  <2>2. RowsInv' /\ RowsKept
    BY <1>2, <1>12, RowsUnchanged DEF CancelSave
  <2> QED  BY <1>1, <1>12, <2>1, <2>2, EngineElsewhere, RowsKeptDone DEF CancelSave
<1>13. CASE CancelTasks(r)
  <2>1. RowsInv' /\ DoneKept /\ \A t \in Ids : tasks'[t].inst = tasks[t].inst
    BY <1>2, <1>13, CancelledRows DEF CancelTasks
  <2> QED  BY <1>1, <1>2, <1>13, <2>1, EngineElsewhere DEF CancelTasks, tables, StoreTypeOK
<1>14. CASE RequestStops(r)
  BY <1>1, <1>14, CallReturned DEF RequestStops, DoneKept, Done
<1> QED
  BY <1>6, <1>7, <1>8, <1>9, <1>10, <1>11, <1>12, <1>13, <1>14
     DEF RouteStep, RequestStep, Reading

\* A request begins, with a record that is a request on an instance.
LEMMA Accepted ==
    ASSUME RequestInv, NEW r \in Requests, NEW c, Accept(r, c), c \in Request,
           c.pc # "idle" => c.inst \in Instances /\ (c.op = "advance" => c.id \in Ids),
           begun' \subseteq Instances, manual' \in BOOLEAN, process' \in BOOLEAN
    PROVE  RequestInv'
<1>1. served' \in 0 .. MaxRequests
  BY RequestsAssumption DEF Accept, RequestInv
<1>2. /\ req' \in [Requests -> Request]
      /\ \A q \in Requests : IF q = r THEN req'[q] = c ELSE req'[q] = req[q]
  BY DEF Accept, RequestInv
<1> QED  BY <1>1, <1>2 DEF RequestInv

\* A request goes on or is answered.
LEMMA GoesOn ==
    ASSUME RequestInv, NEW r \in Requests, NEW c \in Request, req' = [req EXCEPT ![r] = c],
           c.pc = "idle" \/ (req[r].pc # "idle" /\ c.inst = req[r].inst /\ c.id = req[r].id
                             /\ c.op = req[r].op),
           UNCHANGED <<served, begun, manual, process>>
    PROVE  RequestInv'
<1>1. /\ req' \in [Requests -> Request]
      /\ \A q \in Requests : IF q = r THEN req'[q] = c ELSE req'[q] = req[q]
  BY DEF RequestInv
<1> QED  BY <1>1 DEF RequestInv

LEMMA Terminated ==
    ASSUME NEW toks \in SUBSET Token
    PROVE  /\ Terminate(toks) \in SUBSET Token
           /\ \A m \in Terminate(toks) : /\ m.status = "Terminated"
                                         /\ \E k \in toks : /\ m.id = k.id /\ m.inst = k.inst
                                                            /\ m.node = k.node
           /\ (\A k, m \in toks : k = m) => \A k, m \in Terminate(toks) : k = m
<1>1. \A k \in Token : LET m == [k EXCEPT !.status = "Terminated"]
                       IN  /\ m \in Token /\ m.status = "Terminated"
                           /\ m.id = k.id /\ m.inst = k.inst /\ m.node = k.node
  BY DEF Token
<1>2. \A m \in Terminate(toks) : \E k \in toks : m = [k EXCEPT !.status = "Terminated"]
  BY DEF Terminate
<1>3. \A m \in Terminate(toks) :
        \E k \in toks : /\ m = [k EXCEPT !.status = "Terminated"] /\ m \in Token
                        /\ m.status = "Terminated"
                        /\ m.id = k.id /\ m.inst = k.inst /\ m.node = k.node
  <2>1. TAKE m \in Terminate(toks)
  <2>2. PICK k \in toks : m = [k EXCEPT !.status = "Terminated"]
    BY <1>2
  <2>3. k \in Token
    OBVIOUS
  <2>4. /\ m \in Token /\ m.status = "Terminated"
        /\ m.id = k.id /\ m.inst = k.inst /\ m.node = k.node
    BY <1>1, <2>2, <2>3
  <2> QED  BY <2>2, <2>4
<1>4. ASSUME \A k, m \in toks : k = m, NEW k \in Terminate(toks), NEW m \in Terminate(toks)
      PROVE  k = m
  <2>1. PICK k0 \in toks : k = [k0 EXCEPT !.status = "Terminated"]
    BY <1>2
  <2>2. PICK m0 \in toks : m = [m0 EXCEPT !.status = "Terminated"]
    BY <1>2
  <2> QED  BY <1>4, <2>1, <2>2
<1>5. Terminate(toks) \in SUBSET Token
  BY <1>3
<1>6. \A m \in Terminate(toks) : /\ m.status = "Terminated"
                                 /\ \E k \in toks : /\ m.id = k.id /\ m.inst = k.inst
                                                    /\ m.node = k.node
  BY <1>3
<1> QED  BY <1>4, <1>5, <1>6

LEMMA RouteRequests ==
    ASSUME RoutesInv, NEW r \in Requests, RouteStep(r)
    PROVE  RequestInv'
<1>1. /\ RequestInv /\ EngineOK /\ r \in Procs /\ req[r] \in Request
      /\ req \in [Requests -> Request]
      /\ begun \subseteq Instances /\ used \subseteq Ids /\ tokens \subseteq Token
  BY IndInvParts, RequestsAssumption DEF RoutesInv, RequestInv, EngineOK, StoreTypeOK
<1>2. NoRequest \in Request /\ NoRequest.pc = "idle"
  BY DEF NoRequest, Request, NoSnapshot, Snapshot
<1>3. ASSUME Respond(r), UNCHANGED <<served, begun, manual, process>> PROVE RequestInv'
  BY <1>1, <1>2, <1>3, GoesOn DEF Respond
<1>4. CASE Start(r)
  <2>1. PICK i \in Instances \ begun :
          /\ Accept(r, [NoRequest EXCEPT !.op = "start", !.pc = "engine", !.inst = i])
          /\ begun' = begun \cup {i}
    BY <1>4 DEF Start
  <2>2. PICK c : c = [NoRequest EXCEPT !.op = "start", !.pc = "engine", !.inst = i]
    OBVIOUS
  <2>3. c \in Request /\ c.inst = i /\ c.op = "start"
    BY <1>2, <2>2 DEF Request
  <2> QED  BY <1>1, <1>4, <2>1, <2>2, <2>3, Accepted DEF Start, RequestInv
<1>5. CASE Advance(r)
  <2>1. PICK id \in used, i \in begun, v \in BOOLEAN :
          Accept(r, [NoRequest EXCEPT !.op = "advance", !.pc = "row", !.inst = i,
                                      !.id = id, !.vars = v])
    BY <1>5 DEF Advance
  <2>2. PICK c : c = [NoRequest EXCEPT !.op = "advance", !.pc = "row", !.inst = i,
                                       !.id = id, !.vars = v]
    OBVIOUS
  <2>3. c \in Request /\ c.inst = i /\ c.id = id
    BY <1>1, <1>2, <2>2 DEF Request
  <2> QED  BY <1>1, <1>5, <2>1, <2>2, <2>3, Accepted DEF Advance, RequestInv
<1>6. CASE Cancel(r)
  <2>1. PICK i \in begun :
          Accept(r, [NoRequest EXCEPT !.op = "cancel", !.pc = "row", !.inst = i])
    BY <1>6 DEF Cancel
  <2>2. PICK c : c = [NoRequest EXCEPT !.op = "cancel", !.pc = "row", !.inst = i]
    OBVIOUS
  <2>3. c \in Request /\ c.inst = i /\ c.op = "cancel"
    BY <1>1, <1>2, <2>2 DEF Request
  <2> QED  BY <1>1, <1>6, <2>1, <2>2, <2>3, Accepted DEF Cancel, RequestInv
<1>7. CASE Delete(r) \/ DeleteProcess(r)
  BY <1>1, <1>2, <1>7, Accepted DEF Delete, DeleteProcess, RequestInv
<1>8. CASE SaveRefused(r) \/ EngineReturned(r) \/ CancelTasks(r) \/ RequestStops(r)
  BY <1>3, <1>8 DEF SaveRefused, EngineReturned, CancelTasks, RequestStops
<1>9. CASE EngineRefused(r) \/ (EngineStep(r) /\ UNCHANGED <<timerVars, faults, routeVars>>)
  BY <1>1, <1>9 DEF EngineRefused, routeVars, RequestInv
<1>10. CASE RequestLoadRow(r)
  <2>1. CASE Respond(r)
    BY <1>3, <1>10, <2>1 DEF RequestLoadRow
  <2>2. CASE req' = [req EXCEPT ![r].pc = "tokens", ![r].snap.state = "Running"]
    <3>1. PICK c : c = [req[r] EXCEPT !.pc = "tokens", !.snap.state = "Running"]
      OBVIOUS
    <3>2. /\ c \in Request /\ c.inst = req[r].inst /\ c.id = req[r].id /\ c.op = req[r].op
          /\ req' = [req EXCEPT ![r] = c]
      BY <1>1, <2>2, <3>1 DEF Request, Snapshot, InstanceStates
    <3> QED  BY <1>1, <1>10, <3>2, GoesOn DEF RequestLoadRow
  <2> QED  BY <1>10, <2>1, <2>2 DEF RequestLoadRow
<1>11. CASE AdvanceLoadTokens(r)
  <2>1. CASE Respond(r)
    BY <1>3, <1>11, <2>1 DEF AdvanceLoadTokens
  <2>2. CASE req' = [req EXCEPT ![r].pc = "save", ![r].snap.toks = TokensOf(req[r].inst)]
    <3>1. PICK T \in SUBSET Token : T = TokensOf(req[r].inst)
      BY <1>1 DEF TokensOf
    <3>2. PICK c : c = [req[r] EXCEPT !.pc = "save", !.snap.toks = T]
      OBVIOUS
    <3>3. /\ c \in Request /\ c.inst = req[r].inst /\ c.id = req[r].id /\ c.op = req[r].op
          /\ req' = [req EXCEPT ![r] = c]
      BY <1>1, <2>2, <3>1, <3>2 DEF Request, Snapshot
    <3> QED  BY <1>1, <1>11, <3>3, GoesOn DEF AdvanceLoadTokens
  <2> QED  BY <1>11, <2>1, <2>2 DEF AdvanceLoadTokens
<1>12. CASE AdvanceSave(r) \/ CancelSave(r)
  <2>1. PICK label \in {"engine", "kill"} :
          req' = [req EXCEPT ![r].pc = label, ![r].snap = NoSnapshot]
    BY <1>12 DEF AdvanceSave, CancelSave
  <2>2. PICK c : c = [req[r] EXCEPT !.pc = label, !.snap = NoSnapshot]
    OBVIOUS
  <2>3. /\ c \in Request /\ c.inst = req[r].inst /\ c.id = req[r].id /\ c.op = req[r].op
        /\ req' = [req EXCEPT ![r] = c]
    BY <1>1, <2>1, <2>2 DEF Request, Snapshot, NoSnapshot
  <2> QED  BY <1>1, <1>12, <2>3, GoesOn DEF AdvanceSave, CancelSave
<1>13. CASE CancelLoadTokens(r)
  <2>1. PICK S \in Snapshot : S = [state |-> "Terminated",
                                   toks |-> Terminate(TokensOf(req[r].inst))]
    <3>1. TokensOf(req[r].inst) \in SUBSET Token
      BY <1>1 DEF TokensOf
    <3> QED  BY <3>1, Terminated DEF Snapshot, InstanceStates
  <2>2. PICK c : c = [req[r] EXCEPT !.pc = "save", !.snap = S]
    OBVIOUS
  <2>3. /\ c \in Request /\ c.inst = req[r].inst /\ c.id = req[r].id /\ c.op = req[r].op
        /\ req' = [req EXCEPT ![r] = c]
    BY <1>1, <1>13, <2>1, <2>2 DEF Request, CancelLoadTokens
  <2> QED  BY <1>1, <1>13, <2>3, GoesOn DEF CancelLoadTokens
<1> QED
  BY <1>4, <1>5, <1>6, <1>7, <1>8, <1>9, <1>10, <1>11, <1>12, <1>13 DEF RouteStep, RequestStep

LEMMA RoutesInvInit == RoutesInit => RoutesInv
<1> SUFFICES ASSUME RoutesInit PROVE RoutesInv
  OBVIOUS
<1>1. NoRequest \in Request /\ NoRequest.pc = "idle"
  BY DEF NoRequest, Request, NoSnapshot, Snapshot
<1>2. \A k \in Parked : k.inst \in Instances
  BY ParkedAssumption DEF Token
<1>3. req \in [Requests -> Request] /\ \A r \in Requests : req[r] = NoRequest
  BY <1>1 DEF RoutesInit
<1>4. begun \subseteq Instances /\ served \in 0 .. MaxRequests /\ IndInv
  BY <1>2, IndInvInit, RequestsAssumption DEF RoutesInit
<1> QED  BY <1>1, <1>3, <1>4 DEF RoutesInit, RoutesInv, RequestInv

LEMMA RoutesInvStep ==
    ASSUME RoutesInv, [RoutesNext]_allVars
    PROVE  RoutesInv'
<1>0. EngineOK /\ LoopsOK
  BY IndInvParts DEF RoutesInv
<1>1. CASE TimerNext /\ UNCHANGED routeVars
  BY <1>1, IndInvStep DEF RoutesInv, RequestInv, routeVars
<1>2. ASSUME NEW s \in Servers, EngineRefused(s) PROVE RoutesInv'
  <2>1. s \in Procs /\ faults' \in 0 .. MaxFaults
    BY <1>0, <1>2, ServersAssumption DEF EngineRefused, LoopsOK
  <2>2. EngineOK' /\ DoneKept
    BY <1>0, <1>2, <2>1, EngineStepInv DEF EngineRefused
  <2>3. LoopsOK'
    BY <1>0, <1>2, <2>1, <2>2, LoopsUntouched DEF EngineRefused, timerVars
  <2>4. IndInv'
    BY <2>2, <2>3, IndInvParts, PTL
  <2> QED  BY <1>2, <2>4 DEF RoutesInv, RequestInv, EngineRefused, routeVars
<1>3. ASSUME NEW r \in Requests, RouteStep(r) PROVE RoutesInv'
  <2>1. EngineOK' /\ DoneKept /\ UNCHANGED <<srv, advisory>> /\ faults' \in 0 .. MaxFaults
    BY <1>3, RouteTables
  <2>2. LoopsOK'
    BY <1>0, <2>1, LoopsUntouched
  <2>3. IndInv'
    BY <2>1, <2>2, IndInvParts, PTL
  <2> QED  BY <1>3, <2>3, RouteRequests DEF RoutesInv
<1>4. CASE UNCHANGED allVars
  <2>1. UNCHANGED vars
    BY <1>4 DEF allVars
  <2>2. IndInv'
    BY <2>1, IndInvStep DEF RoutesInv
  <2> QED  BY <1>4, <2>2 DEF RoutesInv, RequestInv, allVars, routeVars
<1> QED  BY <1>1, <1>2, <1>3, <1>4 DEF RoutesNext, RouteStep

\* RoutesInv is an invariant of timer loops and routes together.
THEOREM RoutesInvariance == RoutesSpec => []RoutesInv
<1>1. RoutesInit => RoutesInv
  BY RoutesInvInit
<1>2. RoutesInv /\ [RoutesNext]_allVars => RoutesInv'
  BY RoutesInvStep
<1> QED  BY <1>1, <1>2, PTL DEF RoutesSpec

\* Types hold whatever requests, loops and faults do to the tables at once.
THEOREM RoutesTypeCorrect == RoutesSpec => []RoutesTypeOK
<1>1. RoutesInv => RoutesTypeOK
  BY DEF RoutesInv, IndInv, RequestInv, RoutesTypeOK
<1> QED  BY <1>1, RoutesInvariance, PTL

\* Rows stay consistent, and at most one loop advances a task, next to users
\* who start, advance, cancel and delete.
THEOREM RoutesKeepTimers == RoutesSpec => [](RowsConsistent /\ OneAdvancer)
<1>1. RoutesInv => RowsConsistent /\ OneAdvancer
  BY ServersAssumption DEF RoutesInv, IndInv, LockInv, OneAdvancer, Key
<1> QED  BY <1>1, RoutesInvariance, PTL

-----------------------------------------------------------------------------
(* What a step of a request may do to external_tasks.                      *)

RouteStatement ==
    \/ UNCHANGED tasks
    \/ \E i \in Instances : CancelForInstance(i)
    \/ \E i \in Instances : DeleteTasksOf(i) /\ DeleteRow(i)
    \/ DeleteTasksOfAll /\ inst' = [i \in Instances |-> "none"] /\ tokens' = {}
    \/ \E p \in Procs : /\ \E t \in eng[p].made : Create(t, eng[p].inst)
                        /\ inst[eng[p].inst] # "none" /\ UNCHANGED <<inst, tokens>>

LEMMA RouteIsStatement ==
    ASSUME RoutesInv, NEW r \in Requests, RouteStep(r)
    PROVE  RouteStatement
<1>1. r \in Procs /\ begun \subseteq Instances
      /\ (req[r].pc # "idle" => req[r].inst \in Instances)
  BY RequestsAssumption DEF RoutesInv, RequestInv
<1>2. CASE Delete(r)
  BY <1>1, <1>2 DEF Delete, RouteStatement
<1>3. CASE DeleteProcess(r)
  BY <1>3 DEF DeleteProcess, RouteStatement
<1>4. CASE CancelTasks(r)
  BY <1>1, <1>4 DEF CancelTasks, RouteStatement
<1>5. CASE EngineStep(r)
  BY <1>1, <1>5 DEF EngineStep, EngineLoadRow, EngineLoadTokens, EngineSave, EngineCreate,
                    EngineReturn, RouteStatement
<1>6. CASE Reading(r)
  BY <1>6, ReadingChanges DEF RouteStatement
<1>7. CASE \/ Start(r) \/ EngineRefused(r) \/ AdvanceSave(r) \/ CancelSave(r)
           \/ RequestStops(r)
  BY <1>7 DEF Start, EngineRefused, EngineError, AdvanceSave, CancelSave, RequestStops,
              RouteStatement
<1> QED
  BY <1>2, <1>3, <1>4, <1>5, <1>6, <1>7 DEF RouteStep, RequestStep, Reading

\* A statement of a request keeps the rows that are there, or takes them away
\* with their instance.
LEMMA RouteRows ==
    ASSUME IndInv, RouteStatement, NEW t \in Ids, Present(t)
    PROVE  /\ tasks'[t].inst = tasks[t].inst
           /\ tasks'[t].state \in {tasks[t].state, "absent", "FAILED"}
           /\ tasks[t].state \in {"COMPLETED", "FAILED"} =>
                tasks'[t].state \in {tasks[t].state, "absent"}
<1>1. RowsInv /\ tasks \in [Ids -> Row] /\ tasks[t].inst \in Instances
  BY DEF IndInv, TypeOK, EngineTypeOK, RowsInv, TasksTypeOK, RowsConsistent, RowOK, Present
<1>2. CASE \E i \in Instances : CancelForInstance(i)
  <2>1. PICK i \in Instances : CancelForInstance(i)
    BY <1>2
  <2> QED  BY <1>1, <2>1, CancelledRows DEF OpenOf, Open
<1>3. CASE \E i \in Instances : DeleteTasksOf(i)
  <2>0. PICK i \in Instances : DeleteTasksOf(i)
    BY <1>3
  <2>1. PICK D :
          /\ D = {u \in Ids : tasks[u].inst = i}
          /\ tasks' = [u \in Ids |-> IF u \in D THEN [NoRow EXCEPT !.inst = i] ELSE tasks[u]]
    BY <2>0 DEF DeleteTasksOf, Update
  <2>2. tasks' = [u \in Ids |-> IF u \in D THEN [NoRow EXCEPT !.inst = tasks[u].inst]
                                ELSE tasks[u]]
    BY <2>1
  <2> QED  BY <1>1, <2>1, <2>2, DeletedRows
<1>4. CASE DeleteTasksOfAll
  <2>1. PICK D :
          /\ D = {u \in Ids : Present(u)}
          /\ tasks' = [u \in Ids |-> IF u \in D THEN [NoRow EXCEPT !.inst = tasks[u].inst]
                                     ELSE tasks[u]]
    BY <1>4 DEF DeleteTasksOfAll, Update
  <2>2. \A u \in D \cap Ids : tasks[u].inst \in Instances
    BY <1>1, <2>1 DEF RowsInv, RowsConsistent, RowOK, Present
  <2> QED  BY <1>1, <2>1, <2>2, DeletedRows
<1>5. CASE \E p \in Procs : \E u \in eng[p].made : Create(u, eng[p].inst)
  <2>1. PICK p \in Procs : \E v \in eng[p].made : Create(v, eng[p].inst)
    BY <1>5
  <2>2. PICK u \in eng[p].made : Create(u, eng[p].inst)
    BY <2>1
  <2>3. u # t
    BY <1>1, NoInstanceAssumption DEF IndInv, EngineInv, Unborn
  <2> QED  BY <1>1, <2>2, <2>3 DEF Create
<1>6. CASE UNCHANGED tasks
  BY <1>6
<1> QED  BY <1>2, <1>3, <1>4, <1>5, <1>6 DEF RouteStatement

\* COMPLETED and FAILED are final next to the routes as well: cancel changes
\* open rows only, and a DELETE takes the row away for good.
THEOREM SettledRowsAreFinalNextToRoutes == RoutesSpec => SettledRowsStay
<1>1. ASSUME RoutesInv, [RoutesNext]_allVars
      PROVE  [\A t \in Ids : tasks[t].state \in {"COMPLETED", "FAILED"}
                         => tasks'[t].state \in {tasks[t].state, "absent"}]_vars
  <2>1. CASE TimerNext
    BY <1>1, <2>1, StepIsStatement, StatementKeepsSettled DEF RoutesInv
  <2>2. ASSUME NEW s \in Servers, EngineRefused(s)
        PROVE  UNCHANGED tasks
    BY <2>2 DEF EngineRefused, EngineError
  <2>3. ASSUME NEW r \in Requests, RouteStep(r), NEW t \in Ids,
               tasks[t].state \in {"COMPLETED", "FAILED"}
        PROVE  tasks'[t].state \in {tasks[t].state, "absent"}
    BY <1>1, <2>3, RouteIsStatement, RouteRows DEF RoutesInv, Present
  <2>4. CASE UNCHANGED allVars
    BY <2>4 DEF allVars
  <2> QED  BY <1>1, <2>1, <2>2, <2>3, <2>4 DEF RoutesNext, RouteStep
<1> QED  BY <1>1, RoutesInvariance, PTL DEF RoutesSpec, SettledRowsStay

\* What a step of the timer service does besides statements on rows: a call
\* begins or ends, or the engine takes a step.
EngineStatement ==
    \/ UNCHANGED <<tables, eng>> /\ RowsKept
    \/ /\ \E p \in Procs : Return(p) \/ \E i, id : CallCompleted(p, i, id)
       /\ UNCHANGED <<tables, tasks>>
    \/ \E p \in Procs : EngineStep(p)

LEMMA TimerIsStatement ==
    ASSUME IndInv, [TimerNext]_vars
    PROVE  EngineStatement
<1>1. /\ RowsInv /\ Servers \subseteq Procs /\ Worker \in Workers
      /\ \A s \in Servers : srv[s].todo \subseteq Ids
      /\ \A s \in Servers : srv[s].pc = "mark" => Done(Cur(s))
  BY ServersAssumption, WorkerAssumption
     DEF IndInv, TypeOK, EngineTypeOK, RowsInv, LoopInv, Holding, Loop
<1>2. UNCHANGED tasks => RowsKept
  BY <1>1, RowsUnchanged
<1>3. ASSUME NEW s \in Servers, ServerStep(s) PROVE EngineStatement
  <2>1. CASE Reclaim(s)
    BY <1>1, <2>1, ReclaimRows DEF Reclaim, EngineStatement
  <2>2. CASE LockDueTimers(s)
    <3>1. PICK S : S \subseteq Lockable /\ LockReady(Worker, S)
      BY <2>2 DEF LockDueTimers, Batches
    <3> QED  BY <1>1, <2>2, <3>1, LockReadyRows DEF LockDueTimers, EngineStatement
  <2>3. CASE CompleteTask(s)
    <3>1. UNCHANGED tasks \/ \E t \in Ids : Completable(t, Worker) /\ Complete(t)
      BY <1>1, <2>3 DEF CompleteTask
    <3> QED  BY <1>1, <1>2, <2>3, <3>1, CompleteRows DEF CompleteTask, EngineStatement
  <2>4. CASE FailTask(s)
    BY <1>1, <2>4, FailRows DEF FailTask, EngineStatement
  <2>5. CASE Mark(s)
    BY <1>1, <2>5, MarkRows DEF Mark, EngineStatement
  <2>6. CASE \/ GetTask(s) \/ SelectUnadvanced(s) \/ Reconcile(s) \/ EndPoll(s)
             \/ TryAdvisoryLock(s) \/ CheckAdvanced(s) \/ LoadRow(s) \/ VerifyRow(s)
             \/ VerifyTokens(s) \/ Commit(s)
    BY <1>2, <2>6 DEF GetTask, SelectUnadvanced, Reconcile, EndPoll, TryAdvisoryLock,
                      CheckAdvanced, LoadRow, VerifyRow, VerifyTokens, Commit, EngineStatement
  <2>7. CASE LoadTokens(s)
    <3>1. UNCHANGED <<tables, tasks>> /\ (UNCHANGED eng \/ \E i, id : CallCompleted(s, i, id))
      BY <2>7 DEF LoadTokens
    <3> QED  BY <1>1, <1>2, <3>1 DEF EngineStatement
  <2>8. CASE EngineStep(s)
    BY <1>1, <2>8 DEF EngineStatement
  <2> QED
    BY <1>3, <2>1, <2>2, <2>3, <2>4, <2>5, <2>6, <2>7, <2>8 DEF ServerStep, AdvanceStep
<1>4. ASSUME NEW s \in Servers, ServerFault(s) PROVE EngineStatement
  <2>1. CASE CompleteFails(s)
    <3>1. UNCHANGED tasks \/ \E t \in Ids : Completable(t, Worker) /\ Complete(t)
      BY <1>1, <2>1 DEF CompleteFails
    <3> QED  BY <1>1, <1>2, <2>1, <3>1, CompleteRows DEF CompleteFails, EngineStatement
  <2>2. CASE PollFails(s) \/ GetFails(s) \/ FailFails(s) \/ AdvanceFails(s)
    BY <1>2, <2>2 DEF PollFails, GetFails, FailFails, AdvanceFails, EngineStatement
  <2>3. CASE Crash(s) \/ EngineFails(s)
    BY <1>1, <2>3 DEF Crash, EngineFails, EngineError, EngineStatement, tables
  <2> QED  BY <1>4, <2>1, <2>2, <2>3 DEF ServerFault
<1>5. ASSUME NEW t \in Ids, SlowHolder(t) \/ Time(t) PROVE EngineStatement
  BY <1>1, <1>5, TimeRows DEF SlowHolder, Time, AbandonedLockExpires, TimerDue, RowSettles,
                              EngineStatement
<1>6. CASE UNCHANGED vars
  BY <1>2, <1>6 DEF vars, engineVars, tables, EngineStatement
<1> QED  BY <1>3, <1>4, <1>5, <1>6 DEF TimerNext

-----------------------------------------------------------------------------
(* Deleting is complete.                                                   *)

\* The copies of a call and of a request are of their own instance, and a
\* request that may save has loaded the state of a row.
CallCopies == \A p \in Procs : \A k \in eng[p].snap.toks : k.inst = eng[p].inst

RequestCopies ==
    \A r \in Requests :
        /\ \A k \in req[r].snap.toks : k.inst = req[r].inst
        /\ req[r].pc \in {"tokens", "save"} => req[r].snap.state # "none"

RowsHaveInstance == \A t \in Ids : Present(t) => inst[InstanceOf(t)] # "none"

OrphanInv == CallCopies /\ RequestCopies /\ NoOrphans

\* A save of an instance, whether its row was there or not.
LEMMA SaveKeepsOwners ==
    ASSUME EngineOK, TokensHaveInstance, RowsHaveInstance,
           NEW i \in Instances, NEW S, Save(i, S), UNCHANGED tasks,
           S.state # "none", \A k \in S.toks : k.inst = i
    PROVE  TokensHaveInstance' /\ RowsHaveInstance'
<1>1. /\ inst \in [Instances -> InstanceStates \cup {"none"}]
      /\ \A k \in tokens : k.inst \in Instances
      /\ \A t \in Ids : Present(t) => InstanceOf(t) \in Instances
  BY DEF EngineOK, StoreTypeOK, Token, RowsInv, RowsConsistent, RowOK, Present, InstanceOf
<1>2. \A j \in Instances : IF j = i THEN inst'[j] = S.state ELSE inst'[j] = inst[j]
  BY <1>1 DEF Save
<1>3. \A k \in tokens' : k \in tokens \/ k \in S.toks
  BY DEF Save
<1>4. TokensHaveInstance'
  BY <1>1, <1>2, <1>3 DEF TokensHaveInstance
<1>5. RowsHaveInstance'
  BY <1>1, <1>2 DEF RowsHaveInstance, Present, InstanceOf
<1> QED  BY <1>4, <1>5

LEMMA EngineOwners ==
    ASSUME EngineOK, CallCopies, TokensHaveInstance, RowsHaveInstance, EngineStatement
    PROVE  CallCopies' /\ TokensHaveInstance' /\ RowsHaveInstance'
<1>1. /\ eng \in [Procs -> Call] /\ NoCall.snap.toks = {} /\ tasks \in [Ids -> Row]
      /\ \A t \in Ids : Present(t) => tasks[t].inst \in Instances
  BY DEF EngineOK, NoCall, NoSnapshot, RowsInv, TasksTypeOK, RowsConsistent, RowOK, Present
<1>2. CASE UNCHANGED <<tables, eng>> /\ RowsKept
  <2>1. \A t \in Ids : Present(t)' => Present(t) /\ tasks'[t].inst = tasks[t].inst
    BY <1>2 DEF RowsKept, Present, Open
  <2> QED  BY <1>2, <2>1 DEF tables, CallCopies, TokensHaveInstance, RowsHaveInstance, InstanceOf
<1>3. ASSUME NEW p \in Procs, Return(p), UNCHANGED <<tables, tasks>>
      PROVE  CallCopies' /\ TokensHaveInstance' /\ RowsHaveInstance'
  BY <1>1, <1>3 DEF Return, tables, CallCopies, TokensHaveInstance, RowsHaveInstance,
                    InstanceOf, Present
<1>4. ASSUME NEW p \in Procs, NEW i, NEW id, CallCompleted(p, i, id), UNCHANGED <<tables, tasks>>
      PROVE  CallCopies' /\ TokensHaveInstance' /\ RowsHaveInstance'
  <2>1. eng'[p].snap.toks = {} /\ \A q \in Procs : q # p => eng'[q] = eng[q]
    BY <1>1, <1>4 DEF CallCompleted, NoCall, NoSnapshot
  <2> QED  BY <1>4, <2>1 DEF tables, CallCopies, TokensHaveInstance, RowsHaveInstance,
                             InstanceOf, Present
<1>5. ASSUME NEW p \in Procs, EngineStep(p)
      PROVE  CallCopies' /\ TokensHaveInstance' /\ RowsHaveInstance'
  <2>0. eng[p] \in Call
    BY <1>1
  <2>1. CASE EngineLoadRow(p) \/ EngineReturn(p)
    <3>1. UNCHANGED <<tables, tasks>>
      BY <2>1 DEF EngineLoadRow, EngineReturn, tables
    <3>2. CASE Return(p)
      BY <1>3, <3>1, <3>2
    <3>3. CASE \E state : eng' = [eng EXCEPT ![p].pc = "tokens", ![p].snap.state = state]
      <4>1. PICK state : eng' = [eng EXCEPT ![p].pc = "tokens", ![p].snap.state = state]
        BY <3>3
      <4>2. /\ eng'[p].snap.toks = eng[p].snap.toks /\ eng'[p].inst = eng[p].inst
            /\ \A q \in Procs : q # p => eng'[q] = eng[q]
        BY <1>1, <2>0, <4>1 DEF Call, Snapshot
      <4> QED  BY <3>1, <4>2 DEF tables, CallCopies, TokensHaveInstance, RowsHaveInstance,
                                 InstanceOf, Present
    <3> QED  BY <2>1, <3>2, <3>3 DEF EngineLoadRow, EngineReturn
  <2>2. CASE EngineLoadTokens(p)
    <3>1. UNCHANGED <<tables, tasks>>
      BY <2>2 DEF EngineLoadTokens, tables
    <3>2. PICK T : T = TokensOf(eng[p].inst)
      OBVIOUS
    <3>3. CASE Return(p)
      BY <1>3, <3>1, <3>3
    <3>4. CASE eng' = [eng EXCEPT ![p].pc = "save", ![p].snap.toks = T]
      <4>1. /\ eng'[p].snap.toks = T /\ eng'[p].inst = eng[p].inst
            /\ \A q \in Procs : q # p => eng'[q] = eng[q]
        BY <1>1, <2>0, <3>4 DEF Call, Snapshot
      <4>2. \A k \in T : k.inst = eng[p].inst
        BY <3>2 DEF TokensOf
      <4> QED  BY <3>1, <4>1, <4>2 DEF tables, CallCopies, TokensHaveInstance,
                                       RowsHaveInstance, InstanceOf, Present
    <3> QED  BY <2>2, <3>2, <3>3, <3>4 DEF EngineLoadTokens
  <2>3. CASE EngineSave(p)
    <3>1. PICK f : Saves(p, f)
      BY <2>3, SavesSomewhere
    <3>2. PICK S : S = Moved(p, f)
      OBVIOUS
    <3>3. /\ Save(eng[p].inst, S) /\ UNCHANGED tasks /\ eng[p].inst \in Instances
      BY <3>1, <3>2 DEF Saves, EngineOK, EngineInv, Off
    <3>4. S.state # "none" /\ \A k \in S.toks : k.inst = eng[p].inst
      BY <3>2 DEF Moved, Arrive, CallCopies
    <3>5. CallCopies'
      BY <3>1, SavedTokens DEF CallCopies
    <3> QED  BY <3>3, <3>4, <3>5, SaveKeepsOwners
  <2>4. CASE EngineCreate(p)
    <3>1. CASE inst[eng[p].inst] = "none"
      BY <1>3, <2>4, <3>1 DEF EngineCreate, tables
    <3>2. CASE inst[eng[p].inst] # "none"
      <4>1. PICK t \in eng[p].made :
              Create(t, eng[p].inst) /\ eng' = [eng EXCEPT ![p].made = @ \ {t}]
        BY <2>4, <3>2 DEF EngineCreate
      <4>2. /\ \A q \in Procs : eng'[q].snap = eng[q].snap /\ eng'[q].inst = eng[q].inst
            /\ t \in Ids
        BY <1>1, <2>0, <4>1 DEF Call
      <4>3. NewRow(eng[p].inst).inst = eng[p].inst
        BY DEF NewRow, NoRow
      <4>4. \A u \in Ids : IF u = t THEN tasks'[u].inst = eng[p].inst ELSE tasks'[u] = tasks[u]
        BY <1>1, <4>1, <4>2, <4>3 DEF Create
      <4>5. UNCHANGED <<inst, tokens>>
        BY <2>4 DEF EngineCreate
      <4> QED  BY <3>2, <4>2, <4>4, <4>5 DEF CallCopies, TokensHaveInstance, RowsHaveInstance,
                                             InstanceOf, Present
    <3> QED  BY <3>1, <3>2
  <2> QED  BY <1>5, <2>1, <2>2, <2>3, <2>4 DEF EngineStep
<1> QED  BY <1>2, <1>3, <1>4, <1>5 DEF EngineStatement

\* What a step of a request does to the copy of the request.
LEMMA RequestsCopy ==
    ASSUME RoutesInv, RequestCopies, NEW r \in Requests, RouteStep(r)
    PROVE  RequestCopies'
<1>1. /\ req[r] \in Request /\ req \in [Requests -> Request]
      /\ NoRequest.snap.toks = {} /\ NoRequest.pc = "idle"
  BY DEF RoutesInv, RequestInv, NoRequest, NoSnapshot
<1>2. ASSUME NEW c, req' = [req EXCEPT ![r] = c], \A k \in c.snap.toks : k.inst = c.inst,
             c.pc \in {"tokens", "save"} => c.snap.state # "none"
      PROVE  RequestCopies'
  <2>1. \A q \in Requests : IF q = r THEN req'[q] = c ELSE req'[q] = req[q]
    BY <1>1, <1>2
  <2> QED  BY <1>2, <2>1 DEF RequestCopies
<1>3. ASSUME Respond(r) PROVE RequestCopies'
  BY <1>1, <1>2, <1>3 DEF Respond
<1>4. CASE Start(r) \/ Advance(r) \/ Cancel(r)
  <2>1. CASE Start(r)
    <3>1. PICK i \in Instances :
            Accept(r, [NoRequest EXCEPT !.op = "start", !.pc = "engine", !.inst = i])
      BY <2>1 DEF Start
    <3>2. PICK c : c = [NoRequest EXCEPT !.op = "start", !.pc = "engine", !.inst = i]
      OBVIOUS
    <3>3. Accept(r, c) /\ c.snap.toks = {} /\ c.pc = "engine"
      BY <3>1, <3>2 DEF NoRequest, NoSnapshot
    <3> QED  BY <1>2, <3>3 DEF Accept
  <2>2. CASE Advance(r)
    <3>1. PICK id \in used, i \in begun, changed \in BOOLEAN :
            Accept(r, [NoRequest EXCEPT !.op = "advance", !.pc = "row", !.inst = i,
                                        !.id = id, !.vars = changed])
      BY <2>2 DEF Advance
    <3>2. PICK c : c = [NoRequest EXCEPT !.op = "advance", !.pc = "row", !.inst = i,
                                         !.id = id, !.vars = changed]
      OBVIOUS
    <3>3. Accept(r, c) /\ c.snap.toks = {} /\ c.pc = "row"
      BY <3>1, <3>2 DEF NoRequest, NoSnapshot
    <3> QED  BY <1>2, <3>3 DEF Accept
  <2>3. CASE Cancel(r)
    <3>1. PICK i \in begun :
            Accept(r, [NoRequest EXCEPT !.op = "cancel", !.pc = "row", !.inst = i])
      BY <2>3 DEF Cancel
    <3>2. PICK c : c = [NoRequest EXCEPT !.op = "cancel", !.pc = "row", !.inst = i]
      OBVIOUS
    <3>3. Accept(r, c) /\ c.snap.toks = {} /\ c.pc = "row"
      BY <3>1, <3>2 DEF NoRequest, NoSnapshot
    <3> QED  BY <1>2, <3>3 DEF Accept
  <2> QED  BY <1>4, <2>1, <2>2, <2>3
<1>5. CASE Delete(r) \/ DeleteProcess(r)
  BY <1>1, <1>2, <1>5 DEF Delete, DeleteProcess, Accept
<1>6. CASE SaveRefused(r) \/ EngineReturned(r) \/ CancelTasks(r) \/ RequestStops(r)
  BY <1>3, <1>6 DEF SaveRefused, EngineReturned, CancelTasks, RequestStops
<1>7. CASE EngineRefused(r) \/ (EngineStep(r) /\ UNCHANGED <<timerVars, faults, routeVars>>)
  BY <1>7 DEF EngineRefused, routeVars, RequestCopies
<1>8. CASE RequestLoadRow(r)
  <2>1. CASE req' = [req EXCEPT ![r].pc = "tokens", ![r].snap.state = "Running"]
    <3>1. PICK c : c = [req[r] EXCEPT !.pc = "tokens", !.snap.state = "Running"]
      OBVIOUS
    <3>2. /\ c.inst = req[r].inst /\ c.snap.toks = req[r].snap.toks
          /\ c.snap.state = "Running" /\ req' = [req EXCEPT ![r] = c]
      BY <1>1, <2>1, <3>1 DEF Request, Snapshot
    <3> QED  BY <1>2, <3>2 DEF RequestCopies
  <2> QED  BY <1>3, <1>8, <2>1 DEF RequestLoadRow
<1>9. CASE AdvanceLoadTokens(r)
  <2>1. PICK T : T = TokensOf(req[r].inst)
    OBVIOUS
  <2>2. CASE req' = [req EXCEPT ![r].pc = "save", ![r].snap.toks = T]
    <3>1. PICK c : c = [req[r] EXCEPT !.pc = "save", !.snap.toks = T]
      OBVIOUS
    <3>2. /\ c.inst = req[r].inst /\ c.snap.toks = T
          /\ c.snap.state = req[r].snap.state /\ req' = [req EXCEPT ![r] = c]
      BY <1>1, <2>2, <3>1 DEF Request, Snapshot
    <3>3. \A k \in T : k.inst = req[r].inst
      BY <2>1 DEF TokensOf
    <3> QED  BY <1>2, <1>9, <3>2, <3>3 DEF RequestCopies, AdvanceLoadTokens
  <2> QED  BY <1>3, <1>9, <2>1, <2>2 DEF AdvanceLoadTokens
<1>10. CASE AdvanceSave(r) \/ CancelSave(r)
  <2>1. PICK label \in {"engine", "kill"} :
          req' = [req EXCEPT ![r].pc = label, ![r].snap = NoSnapshot]
    BY <1>10 DEF AdvanceSave, CancelSave
  <2>2. PICK c : c = [req[r] EXCEPT !.pc = label, !.snap = NoSnapshot]
    OBVIOUS
  <2>3. c.snap.toks = {} /\ c.pc = label /\ req' = [req EXCEPT ![r] = c]
    BY <1>1, <2>1, <2>2 DEF Request, NoSnapshot
  <2> QED  BY <1>2, <2>3
<1>11. CASE CancelLoadTokens(r)
  <2>1. PICK T \in SUBSET Token : T = TokensOf(req[r].inst)
    BY DEF RoutesInv, IndInv, TypeOK, EngineTypeOK, StoreTypeOK, TokensOf
  <2>2. \A k \in Terminate(T) : k.inst = req[r].inst
    BY <2>1, Terminated DEF TokensOf
  <2>3. PICK c : c = [req[r] EXCEPT !.pc = "save",
                                    !.snap = [state |-> "Terminated", toks |-> Terminate(T)]]
    OBVIOUS
  <2>4. /\ c.inst = req[r].inst /\ c.snap.toks = Terminate(T) /\ c.snap.state = "Terminated"
        /\ req' = [req EXCEPT ![r] = c]
    BY <1>1, <1>11, <2>1, <2>3 DEF Request, CancelLoadTokens
  <2> QED  BY <1>2, <2>2, <2>4
<1> QED
  BY <1>4, <1>5, <1>6, <1>7, <1>8, <1>9, <1>10, <1>11 DEF RouteStep, RequestStep

\* Both DELETEs only take rows away.
LEMMA DeletionDeletes ==
    ASSUME RoutesInv, NEW r \in Requests, Delete(r) \/ DeleteProcess(r)
    PROVE  /\ RowsInv'
           /\ \A t \in Ids : /\ tasks'[t].inst = tasks[t].inst
                             /\ tasks'[t].state \in {tasks[t].state, "absent"}
                             /\ tasks'[t].advanced => tasks[t].advanced
<1>1. RowsInv
  BY IndInvParts DEF RoutesInv, EngineOK
<1>2. CASE Delete(r)
  <2>1. PICK i \in Instances : DeleteTasksOf(i)
    BY <1>2 DEF Delete, RoutesInv, RequestInv
  <2>2. PICK D : /\ D = {t \in Ids : tasks[t].inst = i}
                 /\ tasks' = [t \in Ids |-> IF t \in D THEN [NoRow EXCEPT !.inst = i]
                                            ELSE tasks[t]]
    BY <2>1 DEF DeleteTasksOf, Update
  <2>3. tasks' = [t \in Ids |-> IF t \in D THEN [NoRow EXCEPT !.inst = tasks[t].inst]
                                ELSE tasks[t]]
    BY <2>2
  <2>4. \A t \in D \cap Ids : tasks[t].inst \in Instances
    BY <2>2
  <2> QED  BY <1>1, <2>3, <2>4, DeletedRows
<1>3. CASE DeleteProcess(r)
  <2>1. PICK D : /\ D = {t \in Ids : Present(t)}
                 /\ tasks' = [t \in Ids |-> IF t \in D THEN [NoRow EXCEPT !.inst = tasks[t].inst]
                                            ELSE tasks[t]]
    BY <1>3 DEF DeleteProcess, DeleteTasksOfAll, Update
  <2>2. \A t \in D \cap Ids : tasks[t].inst \in Instances
    BY <1>1, <2>1 DEF RowsInv, RowsConsistent, RowOK, Present
  <2> QED  BY <1>1, <2>1, <2>2, DeletedRows
<1> QED  BY <1>2, <1>3

LEMMA RouteOwners ==
    ASSUME RoutesInv, OrphanInv, NEW r \in Requests, RouteStep(r)
    PROVE  CallCopies' /\ TokensHaveInstance' /\ RowsHaveInstance'
<1>1. /\ EngineOK /\ r \in Procs /\ eng \in [Procs -> Call] /\ NoCall.snap.toks = {}
      /\ CallCopies /\ TokensHaveInstance /\ RowsHaveInstance
      /\ inst \in [Instances -> InstanceStates \cup {"none"}]
      /\ \A k \in tokens : k.inst \in Instances
      /\ \A t \in Ids : Present(t) => tasks[t].inst \in Instances
  BY IndInvParts, RequestsAssumption
     DEF RoutesInv, EngineOK, OrphanInv, NoOrphans, RowsHaveInstance, NoCall, NoSnapshot,
         StoreTypeOK, Token, RowsInv, RowsConsistent, RowOK, Present
<1>2. CASE Reading(r)
  BY <1>1, <1>2, ReadingChanges DEF tables, CallCopies, TokensHaveInstance, RowsHaveInstance,
                                    InstanceOf, Present
<1>3. CASE Start(r)
  <2>1. PICK i \in Instances : CallStarted(r, i)
    BY <1>3 DEF Start
  <2>2. eng'[r].snap.toks = {} /\ \A q \in Procs : q # r => eng'[q] = eng[q]
    BY <1>1, <2>1 DEF CallStarted, NoCall, NoSnapshot
  <2> QED  BY <1>1, <1>3, <2>2 DEF Start, tables, CallCopies, TokensHaveInstance,
                                   RowsHaveInstance, InstanceOf, Present
<1>4. CASE Delete(r) \/ DeleteProcess(r) \/ CancelTasks(r)
  <2>1. UNCHANGED eng
    BY <1>4 DEF Delete, DeleteProcess, CancelTasks
  <2>2. ASSUME NEW t \in Ids, Present(t)'
        PROVE  Present(t) /\ tasks'[t].inst = tasks[t].inst
    <3>1. RowsInv
      BY <1>1 DEF EngineOK
    <3>2. CASE CancelTasks(r)
      BY <2>2, <3>1, <3>2, CancelledRows DEF CancelTasks, Present, OpenOf, Open
    <3>3. CASE Delete(r) \/ DeleteProcess(r)
      BY <2>2, <3>1, <3>3, <1>1, DeletionDeletes DEF Present
    <3> QED  BY <1>4, <3>2, <3>3
  <2>3. CASE CancelTasks(r)
    BY <1>1, <2>1, <2>2, <2>3 DEF CancelTasks, tables, CallCopies, TokensHaveInstance,
                                  RowsHaveInstance, InstanceOf
  <2>4. CASE Delete(r)
    <3>1. PICK i \in begun : DeleteRow(i) /\ DeleteTasksOf(i)
      BY <2>4 DEF Delete
    <3>2. \A t \in Ids : Present(t)' => tasks'[t].inst # i
      <4>1. \A t \in Ids : tasks[t].inst = i => tasks'[t].state = "absent"
        <5>1. PICK D : /\ D = {t \in Ids : tasks[t].inst = i}
                       /\ tasks' = [u \in Ids |-> IF u \in D THEN [NoRow EXCEPT !.inst = i]
                                                  ELSE tasks[u]]
          BY <3>1 DEF DeleteTasksOf, Update
        <5>2. [NoRow EXCEPT !.inst = i].state = "absent"
          BY DEF NoRow
        <5> QED  BY <5>1, <5>2
      <4> QED  BY <2>2, <4>1 DEF Present
    <3>3. \A j \in Instances : j # i => inst'[j] = inst[j]
      BY <1>1, <3>1 DEF DeleteRow
    <3>4. TokensHaveInstance'
      BY <1>1, <3>1, <3>3 DEF DeleteRow, TokensOf, TokensHaveInstance
    <3>5. RowsHaveInstance'
      BY <1>1, <2>2, <3>2, <3>3 DEF RowsHaveInstance, InstanceOf
    <3> QED  BY <1>1, <2>1, <3>4, <3>5 DEF CallCopies
  <2>5. CASE DeleteProcess(r)
    <3>1. tokens' = {} /\ \A t \in Ids : tasks'[t].state = "absent"
      <4>1. PICK D : /\ D = {t \in Ids : Present(t)}
                     /\ tasks' = [u \in Ids |-> IF u \in D
                                                THEN [NoRow EXCEPT !.inst = tasks[u].inst]
                                                ELSE tasks[u]]
        BY <2>5 DEF DeleteProcess, DeleteTasksOfAll, Update
      <4>2. \A i : [NoRow EXCEPT !.inst = i].state = "absent"
        BY DEF NoRow
      <4> QED  BY <2>5, <4>1, <4>2 DEF DeleteProcess, Present
    <3> QED  BY <1>1, <2>1, <3>1 DEF CallCopies, TokensHaveInstance, RowsHaveInstance, Present
  <2> QED  BY <1>4, <2>3, <2>4, <2>5
<1>5. CASE EngineStep(r) \/ EngineRefused(r)
  <2>1. EngineStatement
    BY <1>1, <1>5 DEF EngineRefused, EngineError, EngineStatement, tables
  <2> QED  BY <1>1, <2>1, EngineOwners
<1>6. CASE AdvanceSave(r) \/ CancelSave(r)
  <2>1. /\ req[r].inst \in Instances /\ UNCHANGED tasks
        /\ req[r].snap.state # "none" /\ \A k \in req[r].snap.toks : k.inst = req[r].inst
    BY <1>6 DEF AdvanceSave, CancelSave, RoutesInv, RequestInv, OrphanInv, RequestCopies
  <2>2. Save(req[r].inst, req[r].snap) \/ UNCHANGED <<inst, tokens>>
    BY <1>6 DEF AdvanceSave, CancelSave
  <2>3. TokensHaveInstance' /\ RowsHaveInstance'
    <3>1. CASE Save(req[r].inst, req[r].snap)
      BY <1>1, <2>1, <3>1, SaveKeepsOwners
    <3>2. CASE UNCHANGED <<inst, tokens>>
      BY <1>1, <2>1, <3>2 DEF TokensHaveInstance, RowsHaveInstance, InstanceOf, Present
    <3> QED  BY <2>2, <3>1, <3>2
  <2>4. CallCopies'
    <3>1. CASE AdvanceSave(r)
      <4>1. PICK i, id : CallCompleted(r, i, id)
        BY <3>1 DEF AdvanceSave
      <4>2. eng'[r].snap.toks = {} /\ \A q \in Procs : q # r => eng'[q] = eng[q]
        BY <1>1, <4>1 DEF CallCompleted, NoCall, NoSnapshot
      <4> QED  BY <1>1, <4>2 DEF CallCopies
    <3>2. CASE CancelSave(r)
      BY <1>1, <3>2 DEF CancelSave, CallCopies
    <3> QED  BY <1>6, <3>1, <3>2
  <2> QED  BY <2>3, <2>4
<1>7. CASE RequestStops(r)
  <2>1. EngineStatement
    BY <1>1, <1>7 DEF RequestStops, EngineStatement
  <2> QED  BY <1>1, <2>1, EngineOwners
<1> QED
  BY <1>2, <1>3, <1>4, <1>5, <1>6, <1>7 DEF RouteStep, RequestStep, Reading

LEMMA OrphanInvStep ==
    ASSUME RoutesInv, OrphanInv, [RoutesNext]_allVars
    PROVE  OrphanInv'
<1>1. /\ EngineOK /\ CallCopies /\ TokensHaveInstance /\ RowsHaveInstance /\ RequestCopies
  BY IndInvParts DEF RoutesInv, OrphanInv, NoOrphans, RowsHaveInstance
<1>2. CASE RoutesNext
  <2>1. process' \/ \A i \in Instances : inst'[i] = "none"
    BY <1>2 DEF RoutesNext, ForeignKey
  <2>2. CallCopies' /\ TokensHaveInstance' /\ RowsHaveInstance' /\ RequestCopies'
    <3>1. CASE TimerNext /\ UNCHANGED routeVars
      BY <1>1, <3>1, TimerIsStatement, EngineOwners DEF RoutesInv, RequestCopies, routeVars
    <3>2. ASSUME NEW s \in Servers, EngineRefused(s)
          PROVE  CallCopies' /\ TokensHaveInstance' /\ RowsHaveInstance' /\ RequestCopies'
      <4>1. EngineStatement
        BY <3>2, ServersAssumption DEF EngineRefused, EngineError, EngineStatement, tables
      <4> QED  BY <1>1, <3>2, <4>1, EngineOwners DEF EngineRefused, RequestCopies, routeVars
    <3>3. ASSUME NEW r \in Requests, RouteStep(r)
          PROVE  CallCopies' /\ TokensHaveInstance' /\ RowsHaveInstance' /\ RequestCopies'
      BY <1>1, <3>3, RouteOwners, RequestsCopy
    <3> QED  BY <1>2, <3>1, <3>2, <3>3 DEF RoutesNext, RouteStep
  <2> QED  BY <2>1, <2>2 DEF OrphanInv, NoOrphans, RowsHaveInstance
<1>3. CASE UNCHANGED allVars
  BY <1>3 DEF allVars, vars, engineVars, routeVars, OrphanInv, CallCopies, RequestCopies,
              NoOrphans, TokensHaveInstance, InstanceOf, Present
<1> QED  BY <1>2, <1>3

LEMMA OrphanInvInit == RoutesInit => OrphanInv
<1> SUFFICES ASSUME RoutesInit PROVE OrphanInv
  OBVIOUS
<1>1. CallCopies /\ RequestCopies
  BY DEF RoutesInit, Init, CallCopies, RequestCopies, NoCall, NoRequest, NoSnapshot
<1>2. \A k \in Parked : k.inst \in Instances /\ inst[k.inst] = "Running"
  BY ParkedAssumption DEF RoutesInit, Init, TokensOf, Token
<1>3. TokensHaveInstance
  BY <1>2 DEF RoutesInit, Init, TokensHaveInstance
<1>4. ASSUME NEW t \in Ids, Present(t) PROVE inst[InstanceOf(t)] # "none"
  <2>1. NoRow.state = "absent" /\ \A i \in Instances : NewRow(i).inst = i
    BY DEF NoRow, NewRow
  <2>2. \E k \in Parked : k.id = t /\ tasks[t] = NewRow(k.inst)
    BY <1>4, <2>1 DEF RoutesInit, Init, Present
  <2> QED  BY <1>2, <2>1, <2>2 DEF InstanceOf
<1> QED  BY <1>1, <1>3, <1>4 DEF OrphanInv, NoOrphans, RoutesInit

\* Deleting is complete: no instance outlives its process, no token and no
\* task its instance, whatever copies loops and requests still hold and save.
THEOREM DeletionLeavesNoOrphans == RoutesSpec => []NoOrphans
<1>1. RoutesInit => OrphanInv
  BY OrphanInvInit
<1>2. RoutesInv /\ OrphanInv /\ [RoutesNext]_allVars => OrphanInv'
  BY OrphanInvStep
<1>3. OrphanInv => NoOrphans
  BY DEF OrphanInv
<1> QED  BY <1>1, <1>2, <1>3, RoutesInvariance, PTL DEF RoutesSpec


-----------------------------------------------------------------------------
(* As long as no user advances by hand.                                    *)

\* The tokens that requests are about to save.
Copies == UNION {req[r].snap.toks : r \in Requests}

\* A cancel holds a copy of the tokens of its instance, terminated; each has
\* its identifier, its instance and its node from the table.
CopyInv ==
    /\ \A r \in Requests :
          /\ req[r].pc # "idle" => req[r].op # "advance"
          /\ req[r].pc # "save" => req[r].snap.toks = {}
          /\ \A k \in req[r].snap.toks : k.inst = req[r].inst
          /\ NoSplit => \A k, m \in req[r].snap.toks : k = m
          /\ req[r].pc = "save" => req[r].snap.state = "Terminated"
    /\ \A k \in Copies : /\ k.status = "Terminated" /\ k.id \in used
                         /\ tasks[k.id].inst \in {NoInstance, k.inst}
    /\ \A k \in Copies, m \in Known \cup Copies :
          k.id = m.id => k.inst = m.inst /\ k.node = m.node
    /\ \A k \in Copies, p \in Procs : k.id \in eng[p].made => k.inst = eng[p].inst

UnlessManual == ~manual => MoveInv /\ CopyInv

\* What no step does to identifiers in use: it gives their rows no other
\* instance than that of the call that makes them, and no token another place.
Frame ==
    /\ used \subseteq used'
    /\ \A t \in used :
          \/ tasks'[t].inst = tasks[t].inst
          \/ \E p \in Procs : t \in eng[p].made /\ tasks'[t].inst = eng[p].inst
    /\ \A p \in Procs, t \in used :
          t \in eng'[p].made => t \in eng[p].made /\ eng'[p].inst = eng[p].inst
    /\ \A k \in Known' : k \in Known \cup Copies \/ k.id \notin used

LEMMA CopiesKept ==
    ASSUME CopyInv, Frame, Copies' \subseteq Copies,
           \A r \in Requests :
              /\ req'[r].pc # "idle" => req'[r].op # "advance"
              /\ req'[r].pc # "save" => req'[r].snap.toks = {}
              /\ \A k \in req'[r].snap.toks : k.inst = req'[r].inst
              /\ NoSplit => \A k, m \in req'[r].snap.toks : k = m
              /\ req'[r].pc = "save" => req'[r].snap.state = "Terminated"
    PROVE  CopyInv'
<1>1. ASSUME NEW k \in Copies'
      PROVE  /\ k.status = "Terminated" /\ k.id \in used'
             /\ tasks'[k.id].inst \in {NoInstance, k.inst}
  BY DEF CopyInv, Frame
<1>2. ASSUME NEW k \in Copies', NEW m \in Known' \cup Copies', k.id = m.id
      PROVE  k.inst = m.inst /\ k.node = m.node
  <2>1. k \in Copies /\ k.id \in used
    BY DEF CopyInv
  <2>2. m \in Known \cup Copies
    BY <1>2, <2>1 DEF Frame
  <2> QED  BY <1>2, <2>1, <2>2 DEF CopyInv
<1>3. ASSUME NEW k \in Copies', NEW p \in Procs, k.id \in eng'[p].made
      PROVE  k.inst = eng'[p].inst
  BY <1>3 DEF CopyInv, Frame
<1> QED  BY <1>1, <1>2, <1>3 DEF CopyInv

LEMMA EngineFrame ==
    ASSUME EngineOK, EngineStatement
    PROVE  Frame
<1>1. /\ eng \in [Procs -> Call] /\ NoCall.snap.toks = {} /\ NoCall.made = {}
      /\ tasks \in [Ids -> Row] /\ used \subseteq Ids
  BY DEF EngineOK, NoCall, NoSnapshot, RowsInv, TasksTypeOK
<1>2. CASE UNCHANGED <<tables, eng>> /\ RowsKept
  <2>1. Known' = Known
    BY <1>2 DEF Known, tables
  <2> QED  BY <1>1, <1>2, <2>1 DEF Frame, RowsKept, tables
<1>3. ASSUME NEW p \in Procs, eng'[p].snap.toks = {}, eng'[p].made = {},
             \A q \in Procs : q # p => eng'[q] = eng[q], UNCHANGED <<tables, tasks>>
      PROVE  Frame
  <2>1. Known' \subseteq Known
    BY <1>3 DEF Known, tables
  <2> QED  BY <1>3, <2>1 DEF Frame, tables
<1>4. ASSUME NEW p \in Procs, Return(p), UNCHANGED <<tables, tasks>> PROVE Frame
  BY <1>1, <1>3, <1>4 DEF Return
<1>5. ASSUME NEW p \in Procs, NEW i, NEW id, CallCompleted(p, i, id), UNCHANGED <<tables, tasks>>
      PROVE  Frame
  BY <1>1, <1>3, <1>5 DEF CallCompleted, NoCall, NoSnapshot
<1>6. ASSUME NEW p \in Procs, EngineStep(p) PROVE Frame
  <2>0. eng[p] \in Call
    BY <1>1
  <2>1. CASE Return(p) /\ UNCHANGED <<tables, tasks>>
    BY <1>4, <2>1
  <2>2. CASE EngineLoadRow(p) /\ ~Return(p)
    <3>1. PICK state : eng' = [eng EXCEPT ![p].pc = "tokens", ![p].snap.state = state]
      BY <2>2 DEF EngineLoadRow
    <3>2. \A q \in Procs : /\ eng'[q].snap.toks = eng[q].snap.toks
                           /\ eng'[q].made = eng[q].made /\ eng'[q].inst = eng[q].inst
      BY <1>1, <2>0, <3>1 DEF Call, Snapshot
    <3>3. Known' = Known
      BY <2>2, <3>2 DEF Known, EngineLoadRow
    <3> QED  BY <2>2, <3>2, <3>3 DEF Frame, EngineLoadRow
  <2>3. CASE EngineLoadTokens(p) /\ ~Return(p)
    <3>1. PICK T : T = TokensOf(eng[p].inst)
                   /\ eng' = [eng EXCEPT ![p].pc = "save", ![p].snap.toks = T]
      BY <2>3 DEF EngineLoadTokens
    <3>2. \A q \in Procs : /\ eng'[q].snap.toks = eng[q].snap.toks \/ eng'[q].snap.toks = T
                           /\ eng'[q].made = eng[q].made /\ eng'[q].inst = eng[q].inst
      BY <1>1, <2>0, <3>1 DEF Call, Snapshot
    <3>3. T \subseteq tokens
      BY <3>1 DEF TokensOf
    <3>4. Known' \subseteq Known
      BY <2>3, <3>2, <3>3 DEF Known, EngineLoadTokens
    <3> QED  BY <2>3, <3>2, <3>4 DEF Frame, EngineLoadTokens
  <2>4. CASE EngineSave(p)
    <3>1. PICK f : Saves(p, f)
      BY <2>4, SavesSomewhere
    <3>2. /\ Known' \subseteq (tokens \ TokensOf(eng[p].inst)) \cup Left(p)
                 \cup Arrive(eng[p].inst, f)
                 \cup UNION {eng[q].snap.toks : q \in Procs \ {p}}
          /\ eng'[p].made = {f[n] : n \in Targets(p) \cap Timers}
          /\ \A q \in Procs : q # p => eng'[q] = eng[q]
      BY <3>1, SavedTokens
    <3>3. /\ \A k \in Arrive(eng[p].inst, f) : k.id \notin used
          /\ used \subseteq used'
          /\ {f[n] : n \in Targets(p) \cap Timers} \subseteq Ids \ used
      BY <3>1, ArrivingTokens
    <3>4. Left(p) \subseteq eng[p].snap.toks
      BY DEF Left
    <3>5. \A k \in Known' : k \in Known \/ k.id \notin used
      BY <3>2, <3>3, <3>4 DEF Known
    <3>6. UNCHANGED tasks
      BY <3>1 DEF Saves
    <3> QED  BY <3>2, <3>3, <3>5, <3>6 DEF Frame
  <2>5. CASE EngineCreate(p) /\ inst[eng[p].inst] # "none"
    <3>1. PICK t \in eng[p].made :
            Create(t, eng[p].inst) /\ eng' = [eng EXCEPT ![p].made = @ \ {t}]
      BY <2>5 DEF EngineCreate
    <3>2. \A q \in Procs : /\ eng'[q].snap = eng[q].snap /\ eng'[q].inst = eng[q].inst
                           /\ eng'[q].made \subseteq eng[q].made
      BY <1>1, <2>0, <3>1 DEF Call
    <3>3. NewRow(eng[p].inst).inst = eng[p].inst
      BY DEF NewRow, NoRow
    <3>4. \A u \in Ids : IF u = t THEN tasks'[u].inst = eng[p].inst ELSE tasks'[u] = tasks[u]
      BY <1>1, <3>1, <3>3 DEF Create
    <3>5. Known' = Known
      BY <2>5, <3>2 DEF Known, EngineCreate
    <3> QED  BY <1>1, <2>5, <3>2, <3>4, <3>5 DEF Frame, EngineCreate
  <2> QED
    BY <1>6, <2>1, <2>2, <2>3, <2>4, <2>5
       DEF EngineStep, EngineLoadRow, EngineLoadTokens, EngineCreate, EngineReturn, tables
<1> QED  BY <1>2, <1>4, <1>5, <1>6 DEF EngineStatement

\* A request takes a copy, drops it or gets no copy: what GoesOn says of types.
LEMMA CopyOf ==
    ASSUME CopyInv, req \in [Requests -> Request], Frame, NEW r \in Requests, NEW c,
           req' = [req EXCEPT ![r] = c],
           c.snap.toks = {} \/ c.snap.toks = req[r].snap.toks,
           c.pc # "idle" => c.op # "advance",
           c.pc # "save" => c.snap.toks = {},
           c.pc = "save" => c.snap.state = "Terminated",
           c.inst = req[r].inst \/ c.snap.toks = {}
    PROVE  CopyInv'
<1>1. \A q \in Requests : IF q = r THEN req'[q] = c ELSE req'[q] = req[q]
  OBVIOUS
<1>2. \A q \in Requests : req'[q].snap.toks \subseteq req[q].snap.toks
  BY <1>1
<1>3. Copies' \subseteq Copies
  BY <1>2 DEF Copies
<1>4. \A q \in Requests :
              /\ req'[q].pc # "idle" => req'[q].op # "advance"
              /\ req'[q].pc # "save" => req'[q].snap.toks = {}
              /\ \A k \in req'[q].snap.toks : k.inst = req'[q].inst
              /\ NoSplit => \A k, m \in req'[q].snap.toks : k = m
              /\ req'[q].pc = "save" => req'[q].snap.state = "Terminated"
  BY <1>1 DEF CopyInv
<1> QED  BY <1>3, <1>4, CopiesKept

\* The requests as they were: every copy stays what it is.
LEMMA CopiesUntouched ==
    ASSUME CopyInv, Frame, UNCHANGED req
    PROVE  CopyInv'
<1>1. Copies' = Copies
  BY DEF Copies
<1>2. \A q \in Requests :
              /\ req'[q].pc # "idle" => req'[q].op # "advance"
              /\ req'[q].pc # "save" => req'[q].snap.toks = {}
              /\ \A k \in req'[q].snap.toks : k.inst = req'[q].inst
              /\ NoSplit => \A k, m \in req'[q].snap.toks : k = m
              /\ req'[q].pc = "save" => req'[q].snap.state = "Terminated"
  BY DEF CopyInv
<1> QED  BY <1>1, <1>2, CopiesKept

\* Statements on rows and tables that bring no token and no identifier.
LEMMA QuietFrame ==
    ASSUME \A t \in Ids : tasks'[t].inst = tasks[t].inst, used \subseteq Ids,
           tokens' \subseteq tokens \cup Copies, UNCHANGED <<used, eng>>
    PROVE  Frame
<1>1. \A k \in Known' : k \in Known \cup Copies
  BY DEF Known
<1> QED  BY <1>1 DEF Frame

\* cancel loads the tokens: the copy is the table's.
LEMMA CancelCopies ==
    ASSUME RoutesInv, MoveInv, CopyInv, NEW r \in Requests, CancelLoadTokens(r)
    PROVE  CopyInv'
<1>1. /\ req \in [Requests -> Request] /\ req[r] \in Request
      /\ req[r].op = "cancel" /\ req[r].pc = "tokens"
      /\ UNCHANGED <<tables, tasks, eng>> /\ tokens \subseteq Token
  BY IndInvParts DEF RoutesInv, RequestInv, CancelLoadTokens, EngineOK, StoreTypeOK
<1>2. PICK T \in SUBSET Token : T = TokensOf(req[r].inst)
  BY <1>1 DEF TokensOf
<1>3. PICK c : c = [req[r] EXCEPT !.pc = "save",
                                  !.snap = [state |-> "Terminated", toks |-> Terminate(T)]]
  OBVIOUS
<1>4. /\ c.inst = req[r].inst /\ c.pc = "save" /\ c.op = "cancel"
      /\ c.snap.toks = Terminate(T) /\ c.snap.state = "Terminated"
      /\ req' = [req EXCEPT ![r] = c]
  BY <1>1, <1>2, <1>3 DEF Request, CancelLoadTokens
<1>5. \A q \in Requests : IF q = r THEN req'[q] = c ELSE req'[q] = req[q]
  BY <1>1, <1>4
<1>6. \A k \in Terminate(T) :
        /\ k.status = "Terminated" /\ k.inst = req[r].inst
        /\ \E m \in Known : k.id = m.id /\ k.inst = m.inst /\ k.node = m.node
  <2>1. T \subseteq Known /\ \A m \in T : m.inst = req[r].inst
    BY <1>2 DEF TokensOf, Known
  <2> QED  BY <1>2, <2>1, Terminated
<1>7. \A k \in Copies' : k \in Copies \/ k \in Terminate(T)
  BY <1>4, <1>5 DEF Copies
<1>8. Known' = Known
  BY <1>1 DEF Known, tables
<1>9. ASSUME NEW k \in Copies'
      PROVE  /\ k.status = "Terminated" /\ k.id \in used'
             /\ tasks'[k.id].inst \in {NoInstance, k.inst}
             /\ \A m \in Known : k.id = m.id => k.inst = m.inst /\ k.node = m.node
             /\ \A m \in Copies : k.id = m.id => k.inst = m.inst /\ k.node = m.node
             /\ \A p \in Procs : k.id \in eng'[p].made => k.inst = eng'[p].inst
  <2>1. CASE k \in Copies
    BY <1>1, <2>1 DEF CopyInv, tables
  <2>2. CASE k \in Terminate(T)
    <3>1. PICK m \in Known : k.id = m.id /\ k.inst = m.inst /\ k.node = m.node
      BY <1>6, <2>2
    <3>2. /\ k.id \in used' /\ tasks'[k.id].inst \in {NoInstance, k.inst}
          /\ \A n \in Known : k.id = n.id => k.inst = n.inst /\ k.node = n.node
          /\ \A p \in Procs : k.id \in eng'[p].made => k.inst = eng'[p].inst
      BY <1>1, <3>1 DEF MoveInv, DataInv, TokenInv, tables
    <3>3. ASSUME NEW n \in Copies, k.id = n.id PROVE k.inst = n.inst /\ k.node = n.node
      <4>1. m \in Known \cup Copies /\ n.id = m.id
        BY <3>1, <3>3
      <4>2. n.inst = m.inst /\ n.node = m.node
        BY <4>1 DEF CopyInv
      <4> QED  BY <3>1, <4>2
    <3> QED  BY <1>6, <2>2, <3>2, <3>3
  <2> QED  BY <1>7, <2>1, <2>2
<1>10. ASSUME NEW k \in Copies', NEW m \in Copies', k.id = m.id
       PROVE  k.inst = m.inst /\ k.node = m.node
  <2>1. CASE m \in Copies
    BY <1>9, <1>10, <2>1
  <2>2. CASE m \in Terminate(T)
    <3>1. PICK n \in Known : m.id = n.id /\ m.inst = n.inst /\ m.node = n.node
      BY <1>6, <2>2
    <3> QED  BY <1>9, <1>10, <3>1
  <2> QED  BY <1>7, <2>1, <2>2
<1>11. ASSUME NoSplit PROVE \A k, m \in Terminate(T) : k = m
  <2>1. \A k, m \in T : k = m
    BY <1>2, <1>11 DEF TokensOf, MoveInv, DataInv, SingleInv
  <2> QED  BY <1>2, <2>1, Terminated
<1>12. \A q \in Requests :
              /\ req'[q].pc # "idle" => req'[q].op # "advance"
              /\ req'[q].pc # "save" => req'[q].snap.toks = {}
              /\ \A k \in req'[q].snap.toks : k.inst = req'[q].inst
              /\ NoSplit => \A k, m \in req'[q].snap.toks : k = m
              /\ req'[q].pc = "save" => req'[q].snap.state = "Terminated"
  BY <1>4, <1>5, <1>6, <1>11 DEF CopyInv
<1> QED  BY <1>8, <1>9, <1>10, <1>12 DEF CopyInv

\* cancel saves: tokens that wait disappear, and terminated ones come back.
LEMMA CancelData ==
    ASSUME RoutesInv, MoveInv, CopyInv, NEW r \in Requests, CancelSave(r)
    PROVE  MoveInv'
<1>1. /\ EngineOK /\ req[r].inst \in Instances /\ req[r].pc = "save"
      /\ inst \in [Instances -> InstanceStates \cup {"none"}]
      /\ UNCHANGED <<used, fired, tasks, eng, srv>>
  BY IndInvParts DEF RoutesInv, RequestInv, CancelSave, EngineOK, StoreTypeOK, timerVars
<1>2. PICK i, S : i = req[r].inst /\ S = req[r].snap.toks
  OBVIOUS
<1>3. /\ tokens' = (tokens \ TokensOf(i)) \cup S
      /\ inst' = [inst EXCEPT ![i] = "Terminated"]
  BY <1>1, <1>2 DEF CancelSave, Save, CopyInv
<1>4. /\ S \subseteq Copies
      /\ \A k \in S : k.inst = i /\ k.status = "Terminated"
      /\ NoSplit => \A k, m \in S : k = m
  BY <1>2 DEF Copies, CopyInv
<1>5. \A k \in Known' : k \in Known \/ k \in S
  BY <1>1, <1>3 DEF Known
<1>6. \A p \in Procs : Movable(p, eng[p].snap.toks)' = Movable(p, eng[p].snap.toks)
  BY <1>1 DEF Movable
<1>7. SnapInv'
  BY <1>1, <1>6 DEF MoveInv, DataInv, SnapInv
<1>8. TokenInv'
  <2>1. \A k \in Known' : k.id \in used' /\ tasks'[k.id].inst \in {NoInstance, k.inst}
    BY <1>1, <1>4, <1>5 DEF MoveInv, DataInv, TokenInv, CopyInv
  <2>2. \A k, m \in Known' : k.id = m.id => k.inst = m.inst /\ k.node = m.node
    BY <1>4, <1>5 DEF MoveInv, DataInv, TokenInv, CopyInv
  <2>3. \A k \in Known', p \in Procs : k.id \in eng'[p].made => k.inst = eng'[p].inst
    BY <1>1, <1>4, <1>5 DEF MoveInv, DataInv, TokenInv, CopyInv
  <2>4. ASSUME NEW k \in tokens', k.status = "Waiting" PROVE inst'[k.inst] = "Running"
    <3>1. k \in tokens /\ k.inst # i
      BY <1>3, <1>4, <2>4 DEF TokensOf
    <3>2. k.inst \in Instances
      BY <1>1, <3>1, KnownTyped DEF Known
    <3> QED  BY <1>1, <1>3, <2>4, <3>1, <3>2 DEF MoveInv, DataInv, TokenInv
  <2> QED  BY <2>1, <2>2, <2>3, <2>4 DEF TokenInv
<1>9. FireInv'
  BY <1>1, <1>4, <1>5 DEF MoveInv, DataInv, FireInv
<1>10. NoSplit => SingleInv'
  <2>1. ASSUME NoSplit, NEW k \in tokens', NEW m \in tokens', k.inst = m.inst PROVE k = m
    <3>1. CASE k \in S
      <4>1. m \in S
        BY <1>3, <1>4, <2>1, <3>1 DEF TokensOf
      <4> QED  BY <1>4, <2>1, <3>1, <4>1
    <3>2. CASE k \notin S
      <4>1. k \in tokens /\ m \in tokens
        BY <1>3, <1>4, <2>1, <3>2 DEF TokensOf
      <4> QED  BY <2>1, <4>1 DEF MoveInv, DataInv, SingleInv
    <3> QED  BY <3>1, <3>2
  <2> QED  BY <1>1, <2>1 DEF MoveInv, DataInv, SingleInv
<1>11. CallInv'
  BY <1>1 DEF MoveInv, CallInv, Off, Cur
<1>12. MarkInv'
  <2>1. \A t : Waits(t, tokens)' => Waits(t, tokens)
    BY <1>3, <1>4 DEF Waits, TokenIn
  <2> QED  BY <1>1, <2>1 DEF MoveInv, MarkInv, Cur, Waits, TokenIn
<1> QED  BY <1>7, <1>8, <1>9, <1>10, <1>11, <1>12 DEF MoveInv, DataInv

\* The loops go on, and a call without a copy may have begun or ended, while
\* tokens leave the table and instances stop.
LEMMA QuietMoves ==
    ASSUME EngineOK, MoveInv, RowsQuiet, NEW r \in Procs \ Servers, UNCHANGED <<srv, used, fired>>,
           tokens' \subseteq tokens, \A k \in tokens' : inst'[k.inst] = inst[k.inst],
           \A q \in Procs : q # r => eng'[q] = eng[q],
           \/ eng'[r] = eng[r]
           \/ eng'[r].snap.toks = {} /\ eng'[r].made = {} /\ eng'[r].id = NoId
    PROVE  MoveInv'
<1>1. CallsQuiet
  BY DEF CallsQuiet, CallQuiet
<1>2. DataInv'
  BY <1>1, QuietData DEF MoveInv
<1>3. CallInv'
  BY DEF MoveInv, CallInv, Off, Cur
<1>4. MarkInv'
  BY DEF MoveInv, MarkInv, Cur, Waits, TokenIn
<1> QED  BY <1>2, <1>3, <1>4 DEF MoveInv

LEMMA RouteMoves ==
    ASSUME NoSplit \/ OneServer, RoutesInv, ~manual, MoveInv, CopyInv,
           NEW r \in Requests, RouteStep(r), ~manual'
    PROVE  MoveInv' /\ CopyInv'
<1>1. /\ IndInv /\ EngineOK /\ r \in Procs \ Servers /\ eng \in [Procs -> Call]
      /\ req[r] \in Request /\ req \in [Requests -> Request] /\ used \subseteq Ids
      /\ tasks \in [Ids -> Row] /\ tokens \subseteq Token
      /\ NoCall.snap.toks = {} /\ NoCall.made = {} /\ NoCall.id = NoId
      /\ NoRequest.snap.toks = {} /\ NoRequest.pc = "idle"
  BY IndInvParts, RequestsAssumption
     DEF RoutesInv, RequestInv, EngineOK, RowsInv, TasksTypeOK, StoreTypeOK, NoCall, NoSnapshot,
         NoRequest
<1>2. ASSUME Frame, Respond(r) PROVE CopyInv'
  BY <1>1, <1>2, CopyOf DEF Respond
<1>3. ASSUME Frame, NEW c, req' = [req EXCEPT ![r] = c], c.pc = "idle", c = NoRequest
      PROVE  CopyInv'
  BY <1>1, <1>3, CopyOf
<1>4. CASE Start(r)
  <2>1. PICK i \in Instances :
          /\ Accept(r, [NoRequest EXCEPT !.op = "start", !.pc = "engine", !.inst = i])
          /\ CallStarted(r, i)
    BY <1>4 DEF Start
  <2>2. PICK c : c = [NoRequest EXCEPT !.op = "start", !.pc = "engine", !.inst = i]
    OBVIOUS
  <2>3. /\ c.op = "start" /\ c.pc = "engine" /\ c.snap.toks = {}
        /\ req' = [req EXCEPT ![r] = c]
    BY <2>1, <2>2 DEF Accept, NoRequest, NoSnapshot
  <2>4. /\ eng'[r].snap.toks = {} /\ eng'[r].made = {} /\ eng'[r].id = NoId
        /\ \A q \in Procs : q # r => eng'[q] = eng[q]
    BY <1>1, <2>1 DEF CallStarted, NoCall, NoSnapshot
  <2>5. UNCHANGED <<tables, tasks, srv>>
    BY <1>4 DEF Start, timerVars
  <2>6. MoveInv'
    BY <1>1, <2>4, <2>5, QuietMoves DEF RowsQuiet, tables
  <2>7. Frame
    <3>1. Known' \subseteq Known
      BY <2>4, <2>5 DEF Known, tables
    <3> QED  BY <2>4, <2>5, <3>1 DEF Frame, tables
  <2>8. CopyInv'
    BY <1>1, <2>3, <2>7, CopyOf
  <2> QED  BY <2>6, <2>8
<1>5. CASE Cancel(r)
  <2>1. PICK i \in begun :
          Accept(r, [NoRequest EXCEPT !.op = "cancel", !.pc = "row", !.inst = i])
    BY <1>5 DEF Cancel
  <2>2. PICK c : c = [NoRequest EXCEPT !.op = "cancel", !.pc = "row", !.inst = i]
    OBVIOUS
  <2>3. /\ c.op = "cancel" /\ c.pc = "row" /\ c.snap.toks = {}
        /\ req' = [req EXCEPT ![r] = c]
    BY <2>1, <2>2 DEF Accept, NoRequest, NoSnapshot
  <2>4. UNCHANGED <<tables, tasks, eng, srv>>
    BY <1>5 DEF Cancel, timerVars
  <2>5. MoveInv'
    BY <1>1, <2>4, QuietMoves DEF RowsQuiet, tables
  <2>6. Frame
    BY <1>1, <2>4, QuietFrame DEF tables
  <2> QED  BY <1>1, <2>3, <2>5, <2>6, CopyOf
<1>6. CASE Delete(r) \/ DeleteProcess(r)
  <2>1. \A t \in Ids : /\ tasks'[t].inst = tasks[t].inst
                       /\ tasks'[t].advanced => tasks[t].advanced
    BY <1>6, DeletionDeletes
  <2>2. UNCHANGED <<used, fired, eng, srv>> /\ req' = [req EXCEPT ![r] = NoRequest]
    BY <1>6 DEF Delete, DeleteProcess, timerVars, Accept
  <2>3. tokens' \subseteq tokens /\ \A k \in tokens' : inst'[k.inst] = inst[k.inst]
    <3>1. CASE Delete(r)
      <4>1. PICK i \in begun : DeleteRow(i)
        BY <3>1 DEF Delete
      <4>2. \A k \in tokens : k.inst \in Instances
        BY <1>1 DEF Token
      <4>3. inst \in [Instances -> InstanceStates \cup {"none"}]
        BY <1>1 DEF EngineOK, StoreTypeOK
      <4> QED  BY <4>1, <4>2, <4>3 DEF DeleteRow, TokensOf
    <3>2. CASE DeleteProcess(r)
      BY <3>2 DEF DeleteProcess
    <3> QED  BY <1>6, <3>1, <3>2
  <2>4. MoveInv'
    BY <1>1, <2>1, <2>2, <2>3, QuietMoves DEF RowsQuiet
  <2>5. Frame
    BY <1>1, <2>1, <2>2, <2>3, QuietFrame
  <2> QED  BY <1>1, <1>3, <2>2, <2>4, <2>5
<1>7. CASE SaveRefused(r) \/ EngineReturned(r) \/ RequestLoadRow(r) \/ CancelTasks(r)
  <2>1. \A t \in Ids : /\ tasks'[t].inst = tasks[t].inst
                       /\ tasks'[t].advanced => tasks[t].advanced
    <3>1. CASE CancelTasks(r)
      BY <1>1, <3>1, CancelledRows DEF CancelTasks, EngineOK
    <3>2. CASE UNCHANGED tasks
      BY <3>2
    <3> QED  BY <1>7, <3>1, <3>2 DEF SaveRefused, EngineReturned, RequestLoadRow
  <2>2. UNCHANGED <<tables, eng, srv>>
    BY <1>7 DEF SaveRefused, EngineReturned, RequestLoadRow, CancelTasks, timerVars
  <2>3. MoveInv'
    BY <1>1, <2>1, <2>2, QuietMoves DEF RowsQuiet, tables
  <2>4. Frame
    BY <1>1, <2>1, <2>2, QuietFrame DEF tables
  <2>5. CopyInv'
    <3>1. CASE Respond(r)
      BY <1>2, <2>4, <3>1
    <3>2. CASE /\ req[r].pc = "row"
               /\ req' = [req EXCEPT ![r].pc = "tokens", ![r].snap.state = "Running"]
      <4>1. PICK c : c = [req[r] EXCEPT !.pc = "tokens", !.snap.state = "Running"]
        OBVIOUS
      <4>2. /\ c.inst = req[r].inst /\ c.snap.toks = req[r].snap.toks /\ c.op = req[r].op
            /\ c.pc = "tokens" /\ req' = [req EXCEPT ![r] = c]
        BY <1>1, <3>2, <4>1 DEF Request, Snapshot
      <4>3. req[r].snap.toks = {} /\ req[r].op # "advance"
        BY <3>2 DEF CopyInv
      <4> QED  BY <1>1, <2>4, <4>2, <4>3, CopyOf
    <3> QED  BY <1>7, <3>1, <3>2 DEF SaveRefused, EngineReturned, RequestLoadRow, CancelTasks
  <2> QED  BY <2>3, <2>5
<1>8. CASE CancelLoadTokens(r)
  <2>1. UNCHANGED <<tables, tasks, eng, srv>>
    BY <1>8 DEF CancelLoadTokens, timerVars
  <2>2. MoveInv'
    BY <1>1, <2>1, QuietMoves DEF RowsQuiet, tables
  <2> QED  BY <1>8, <2>2, CancelCopies
<1>9. CASE CancelSave(r)
  <2>1. MoveInv'
    BY <1>9, CancelData
  <2>2. UNCHANGED <<tasks, used, eng>> /\ tokens' \subseteq tokens \cup Copies
    BY <1>9 DEF CancelSave, Save, Copies
  <2>3. Frame
    BY <1>1, <2>2, QuietFrame
  <2>4. PICK c : c = [req[r] EXCEPT !.pc = "kill", !.snap = NoSnapshot]
    OBVIOUS
  <2>5. /\ c.op = "cancel" /\ c.pc = "kill" /\ c.snap.toks = {}
        /\ req' = [req EXCEPT ![r] = c]
    BY <1>1, <1>9, <2>4 DEF CancelSave, Request, NoSnapshot
  <2> QED  BY <1>1, <2>1, <2>3, <2>5, CopyOf
<1>10. CASE EngineRefused(r) \/ (EngineStep(r) /\ UNCHANGED <<timerVars, faults, routeVars>>)
  <2>1. UNCHANGED <<srv, req>> /\ (EngineStep(r) \/ EngineError(r))
    BY <1>10 DEF EngineRefused, timerVars, routeVars
  <2>2. EngineStatement
    BY <1>1, <2>1 DEF EngineError, EngineStatement, tables
  <2> QED  BY <1>1, <2>1, <2>2, EngineMoves, EngineFrame, CopiesUntouched
<1>11. CASE RequestStops(r)
  <2>1. /\ eng'[r] = NoCall /\ \A q \in Procs : q # r => eng'[q] = eng[q]
        /\ UNCHANGED <<tables, tasks, srv>>
    BY <1>1, <1>11 DEF RequestStops, Return, timerVars, vars
  <2>2. MoveInv'
    BY <1>1, <2>1, QuietMoves DEF RowsQuiet, tables
  <2>3. EngineStatement
    BY <1>1, <1>11 DEF RequestStops, EngineStatement
  <2> QED  BY <1>1, <1>2, <1>11, <2>2, <2>3, EngineFrame DEF RequestStops
<1>12. CASE Advance(r) \/ AdvanceLoadTokens(r) \/ AdvanceSave(r)
  BY <1>12 DEF Advance, AdvanceLoadTokens, AdvanceSave, CopyInv
<1> QED
  BY <1>4, <1>5, <1>6, <1>7, <1>8, <1>9, <1>10, <1>11, <1>12 DEF RouteStep, RequestStep

LEMMA UnlessManualStep ==
    ASSUME NoSplit \/ OneServer, RoutesInv, UnlessManual, [RoutesNext]_allVars
    PROVE  UnlessManual'
<1> SUFFICES ASSUME ~manual' PROVE MoveInv' /\ CopyInv'
  BY DEF UnlessManual
<1>1. ~manual /\ MoveInv /\ CopyInv
  <2>1. ASSUME NEW r \in Requests, RouteStep(r) PROVE manual => manual'
    BY <2>1 DEF RouteStep, Start, Advance, Cancel, Delete, DeleteProcess, RequestStep,
                SaveRefused, EngineRefused, RequestLoadRow, AdvanceLoadTokens, AdvanceSave,
                EngineReturned, CancelLoadTokens, CancelSave, CancelTasks, RequestStops,
                routeVars
  <2>2. manual => manual'
    BY <2>1 DEF RoutesNext, RouteStep, EngineRefused, allVars, routeVars
  <2> QED  BY <2>2 DEF UnlessManual
<1>2. IndInv /\ EngineOK
  BY IndInvParts DEF RoutesInv
<1>3. CASE TimerNext /\ UNCHANGED routeVars
  <2>1. Frame
    BY <1>2, <1>3, TimerIsStatement, EngineFrame
  <2> QED  BY <1>1, <1>2, <1>3, <2>1, MoveInvStep, CopiesUntouched DEF routeVars
<1>4. ASSUME NEW s \in Servers, EngineRefused(s) PROVE MoveInv' /\ CopyInv'
  <2>1. s \in Procs /\ EngineError(s) /\ UNCHANGED <<srv, req>>
    BY <1>4, ServersAssumption DEF EngineRefused, timerVars, routeVars
  <2>2. EngineStatement
    BY <2>1 DEF EngineError, EngineStatement, tables
  <2> QED  BY <1>1, <1>2, <2>1, <2>2, EngineMoves, EngineFrame, CopiesUntouched
<1>5. ASSUME NEW r \in Requests, RouteStep(r) PROVE MoveInv' /\ CopyInv'
  BY <1>1, <1>5, RouteMoves
<1>6. CASE UNCHANGED allVars
  <2>1. UNCHANGED <<tables, tasks, eng, req>> /\ UNCHANGED vars
    BY <1>6 DEF allVars, routeVars, vars, engineVars, tables
  <2>2. Frame
    BY <1>2, <2>1, QuietFrame DEF tables, EngineOK
  <2> QED  BY <1>1, <1>2, <2>1, <2>2, MoveInvUnchanged, CopiesUntouched
<1> QED  BY <1>3, <1>4, <1>5, <1>6 DEF RoutesNext, RouteStep

LEMMA UnlessManualInit == RoutesInit => UnlessManual
<1> SUFFICES ASSUME RoutesInit PROVE MoveInv /\ CopyInv
  BY DEF UnlessManual
<1>1. \A r \in Requests : req[r].pc = "idle" /\ req[r].snap.toks = {}
  BY DEF RoutesInit, NoRequest, NoSnapshot
<1>2. Copies = {}
  BY <1>1 DEF Copies
<1> QED  BY <1>1, <1>2, MoveInvInit DEF RoutesInit, CopyInv

\* Cancelling, deleting, starting and crashing may race with the timer loops
\* at every statement: unless a user advances by hand, a token moves at most
\* once and none is left waiting at a marked task.  As for the timers alone,
\* no definition splits or there is one server.
THEOREM TokensMoveOnceUnlessManual ==
    ASSUME NoSplit \/ OneServer
    PROVE  RoutesSpec => []MovedOnceUnlessManual
<1>1. RoutesInit => UnlessManual
  BY UnlessManualInit
<1>2. RoutesInv /\ UnlessManual /\ [RoutesNext]_allVars => UnlessManual'
  BY UnlessManualStep
<1>3. UnlessManual => MovedOnceUnlessManual
  BY DEF UnlessManual, MovedOnceUnlessManual, MoveInv, DataInv, FireInv, Known,
         FiredAtMostOnce, AdvancedMeansMoved
<1> QED  BY <1>1, <1>2, <1>3, RoutesInvariance, PTL DEF RoutesSpec

=============================================================================
