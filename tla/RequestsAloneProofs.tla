-------------------------- MODULE RequestsAloneProofs --------------------------
(***************************************************************************)
(* Proofs about the routes when nothing runs next to them: the timer loop  *)
(* is disabled and one request is handled after the other.  Then, as long  *)
(* as nothing fails, tokens and tasks stay in step: a cancelled instance   *)
(* has no open task, and a token that waits at a timer has its task.  With *)
(* a timer loop or a second request the first is not so; the run           *)
(* cancel_late_task shows it.                                              *)
(***************************************************************************)
EXTENDS UserRoutesProofs

Alone == Servers = {} /\ \A q, r \in Requests : q = r

\* An engine call is that of the request under way.  What it has loaded is
\* still what the tables say, and its instance is not a cancelled one.
CallView ==
    \A p \in Procs :
        /\ ~Off(p) => p \in Requests /\ req[p].pc = "engine" /\ eng[p].inst \in begun
        /\ eng[p].pc # "create" => eng[p].made = {}
        /\ eng[p].pc = "tokens" => eng[p].snap.state = inst[eng[p].inst]
        /\ eng[p].pc \in {"save", "create"} => inst[eng[p].inst] # "Terminated"
        /\ eng[p].pc = "save" => eng[p].snap.toks \subseteq TokensOf(eng[p].inst)
        /\ eng[p].pc = "save" /\ eng[p].snap.toks # {} => inst[eng[p].inst] = "Running"

\* What a request r has loaded is still what the tables say.
LoadedView(r) ==
    /\ req[r].pc # "idle" => req[r].inst \in begun
    /\ req[r].pc = "kill" => inst[req[r].inst] = "Terminated"
    /\ req[r].pc \in {"tokens", "save"} => inst[req[r].inst] = "Running"
    /\ req[r].pc = "tokens" => req[r].snap.state = "Running"
    /\ req[r].pc = "save" /\ req[r].op = "advance" =>
          /\ req[r].snap.state = "Running"
          /\ req[r].snap.toks = TokensOf(req[r].inst)
    /\ req[r].pc = "save" /\ req[r].op = "cancel" =>
          /\ req[r].snap.state = "Terminated"
          /\ \A m \in req[r].snap.toks :
                m.status = "Terminated" /\ \E k \in tokens : k.id = m.id /\ k.inst = m.inst

RequestView == \A r \in Requests : LoadedView(r)

\* An identifier that no request has handed out has no row yet.
FreshView == \A i \in Instances \ begun : inst[i] = "none"

\* A token's task is of its instance, or still to be made by its call.
TokenView ==
    /\ \A k \in tokens : k.id \in used /\ tasks[k.id].inst \in {NoInstance, k.inst}
    /\ \A k \in tokens, p \in Procs : k.id \in eng[p].made => k.inst = eng[p].inst
    /\ WaitingTokenHasTask

AloneInv ==
    faults = 0 =>
        /\ CallView
        /\ RequestView
        /\ FreshView
        /\ TokenView
        /\ CancelledHasNoOpenTask

-----------------------------------------------------------------------------
\* While a request is not in the engine, no call is under way.
LEMMA NobodyCalls ==
    ASSUME Alone, CallView, NEW r \in Requests, req[r].pc # "engine"
    PROVE  \A p \in Procs : Off(p) /\ eng[p].made = {}
  BY DEF Alone, CallView, Off

\* Calls that are not under way say nothing about the tables.
LEMMA NobodyCallsNext ==
    ASSUME \A p \in Procs : Off(p) /\ eng[p].made = {}, UNCHANGED eng
    PROVE  CallView'
  BY DEF CallView, Off

\* The only request reads: its view of the tables is all that changes.
LEMMA ReadingAlone ==
    ASSUME Alone, RoutesInv, AloneInv, faults = 0,
           NEW r \in Requests, req[r].pc # "kill", req[r].pc # "engine" \/ Off(r),
           UNCHANGED <<tables, tasks, eng, faults>>, begun \subseteq begun',
           LoadedView(r)'
    PROVE  AloneInv'
<1>1. /\ CallView /\ FreshView /\ TokenView /\ CancelledHasNoOpenTask
      /\ \A p \in Procs : Off(p) /\ eng[p].made = {}
  <2>1. CallView /\ FreshView /\ TokenView /\ CancelledHasNoOpenTask
    BY DEF AloneInv
  <2>2. \A p \in Procs : p = r \/ Off(p)
    BY <2>1 DEF Alone, CallView
  <2>3. r \in Procs /\ Off(r)
    BY <2>1, RequestsAssumption DEF CallView
  <2> QED  BY <2>1, <2>2, <2>3 DEF CallView, Off
<1>2. CallView'
  BY <1>1, NobodyCallsNext
<1>3. RequestView'
  BY DEF Alone, RequestView
<1>4. FreshView'
  BY <1>1 DEF FreshView, tables
<1>5. TokenView'
  BY <1>1 DEF TokenView, WaitingTokenHasTask, Unadvanced, tables
<1>6. CancelledHasNoOpenTask'
  BY <1>1 DEF CancelledHasNoOpenTask, Present, InstanceOf, Alone, tables
<1> QED  BY <1>2, <1>3, <1>4, <1>5, <1>6 DEF AloneInv

\* The clock goes on: no row opens or closes.
LEMMA TimeAlone ==
    ASSUME Alone, RoutesInv, AloneInv, TimerNext, UNCHANGED routeVars
    PROVE  AloneInv'
<1> SUFFICES ASSUME faults' = 0 PROVE AloneInv'
  BY DEF AloneInv
<1>1. PICK t \in Ids : Time(t)
  BY DEF Alone, TimerNext, SlowHolder, Held
<1>2. /\ UNCHANGED <<tables, eng, faults>>
      /\ BecomesDue(t) \/ LockExpires(t) \/ Settles(t)
  BY <1>1 DEF Time, AbandonedLockExpires, TimerDue, RowSettles
<1>3. tasks \in [Ids -> Row]
  BY DEF RoutesInv, IndInv, TypeOK, EngineTypeOK, TasksTypeOK
<1>4. \A u \in Ids : /\ tasks'[u].state = tasks[u].state /\ tasks'[u].inst = tasks[u].inst
                     /\ tasks'[u].advanced = tasks[u].advanced
  BY <1>2, <1>3 DEF BecomesDue, LockExpires, Settles, Row
<1>5. \A k \in tokens : k.id \in Ids
  BY DEF RoutesInv, IndInv, TypeOK, EngineTypeOK, StoreTypeOK, Token
<1>6. CallView /\ RequestView /\ FreshView /\ TokenView /\ CancelledHasNoOpenTask /\ faults = 0
  BY <1>2 DEF AloneInv
<1>7. CallView' /\ RequestView' /\ FreshView'
  BY <1>2, <1>6 DEF tables, routeVars, CallView, RequestView, LoadedView, FreshView, Off, TokensOf
<1>8. TokenView'
  BY <1>2, <1>4, <1>5, <1>6 DEF tables, TokenView, WaitingTokenHasTask, Unadvanced
<1>9. CancelledHasNoOpenTask'
  BY <1>2, <1>4, <1>6 DEF tables, routeVars, CancelledHasNoOpenTask, Present, InstanceOf
<1> QED  BY <1>7, <1>8, <1>9 DEF AloneInv

-----------------------------------------------------------------------------
(* What a request does between the engine's steps.                         *)

\* Accepting, loading and answering.
LEMMA RequestReads ==
    ASSUME Alone, RoutesInv, AloneInv, faults = 0, NEW r \in Requests, Reading(r)
    PROVE  AloneInv'
<1>1. /\ req[r] \in Request /\ req \in [Requests -> Request] /\ RequestView /\ CallView
      /\ NoRequest.pc = "idle"
  BY DEF RoutesInv, RequestInv, AloneInv, NoRequest
<1>2. UNCHANGED <<tables, tasks, eng, faults>>
  BY ReadingChanges
<1>3. begun' = begun
  BY DEF Reading, Advance, Cancel, SaveRefused, RequestLoadRow, AdvanceLoadTokens,
         EngineReturned, CancelLoadTokens
<1>0. req[r].pc # "idle" => req[r].inst \in begun
  BY <1>1 DEF RequestView, LoadedView
<1>4. req[r].pc # "kill" /\ (req[r].pc # "engine" \/ Off(r))
  BY DEF Reading, Advance, Cancel, Accept, SaveRefused, RequestLoadRow, AdvanceLoadTokens,
         EngineReturned, CancelLoadTokens
<1> SUFFICES LoadedView(r)'
  BY <1>2, <1>3, <1>4, ReadingAlone
<1>5. CASE Respond(r)
  BY <1>1, <1>5 DEF Respond, LoadedView
<1>6. CASE Advance(r) \/ Cancel(r)
  <2>1. req'[r].pc = "row" /\ req'[r].inst \in begun
    <3>1. CASE Advance(r)
      <4>1. PICK id \in used, i \in begun, v \in BOOLEAN :
              Accept(r, [NoRequest EXCEPT !.op = "advance", !.pc = "row", !.inst = i,
                                          !.id = id, !.vars = v])
        BY <3>1 DEF Advance
      <4> QED  BY <1>1, <4>1 DEF Accept, NoRequest
    <3>2. CASE Cancel(r)
      <4>1. PICK i \in begun :
              Accept(r, [NoRequest EXCEPT !.op = "cancel", !.pc = "row", !.inst = i])
        BY <3>2 DEF Cancel
      <4> QED  BY <1>1, <4>1 DEF Accept, NoRequest
    <3> QED  BY <1>6, <3>1, <3>2
  <2> QED  BY <1>3, <2>1 DEF LoadedView
<1>7. CASE RequestLoadRow(r) /\ ~Respond(r)
  <2>1. PICK c : c = [req[r] EXCEPT !.pc = "tokens", !.snap.state = "Running"]
    OBVIOUS
  <2>2. /\ c.pc = "tokens" /\ c.inst = req[r].inst /\ c.snap.state = "Running"
        /\ req'[r] = c /\ inst[req[r].inst] = "Running" /\ req[r].pc = "row"
    BY <1>1, <1>7, <2>1 DEF RequestLoadRow, InstanceRow, Request, Snapshot
  <2> QED  BY <1>0, <1>2, <1>3, <2>2 DEF LoadedView, tables
<1>8. CASE AdvanceLoadTokens(r) /\ ~Respond(r)
  <2>1. PICK T : T = TokensOf(req[r].inst)
    OBVIOUS
  <2>2. PICK c : c = [req[r] EXCEPT !.pc = "save", !.snap.toks = T]
    OBVIOUS
  <2>3. /\ c.pc = "save" /\ c.inst = req[r].inst /\ c.snap.state = req[r].snap.state
        /\ c.snap.toks = T /\ c.op = "advance" /\ req'[r] = c
    BY <1>1, <1>8, <2>1, <2>2 DEF AdvanceLoadTokens, Request, Snapshot
  <2>4. inst[req[r].inst] = "Running" /\ req[r].snap.state = "Running" /\ req[r].inst \in begun
    BY <1>1, <1>8 DEF AdvanceLoadTokens, RequestView, LoadedView
  <2>5. TokensOf(req[r].inst)' = TokensOf(req'[r].inst)
    BY <1>2 DEF TokensOf, tables
  <2> QED  BY <1>2, <1>3, <2>1, <2>3, <2>4, <2>5 DEF LoadedView, tables
<1>9. CASE CancelLoadTokens(r)
  <2>1. PICK T \in SUBSET Token : T = TokensOf(req[r].inst)
    BY DEF RoutesInv, IndInv, TypeOK, EngineTypeOK, StoreTypeOK, TokensOf
  <2>2. PICK c : c = [req[r] EXCEPT !.pc = "save",
                                    !.snap = [state |-> "Terminated", toks |-> Terminate(T)]]
    OBVIOUS
  <2>3. /\ c.pc = "save" /\ c.inst = req[r].inst /\ c.op = "cancel"
        /\ c.snap.state = "Terminated" /\ c.snap.toks = Terminate(T) /\ req'[r] = c
    BY <1>1, <1>9, <2>1, <2>2 DEF CancelLoadTokens, Request
  <2>4. inst[req[r].inst] = "Running" /\ req[r].inst \in begun
    BY <1>1, <1>9 DEF CancelLoadTokens, RequestView, LoadedView
  <2>5. \A m \in Terminate(T) :
           m.status = "Terminated" /\ \E k \in tokens : k.id = m.id /\ k.inst = m.inst
    BY <2>1, Terminated DEF TokensOf
  <2> QED  BY <1>2, <1>3, <2>3, <2>4, <2>5 DEF LoadedView, tables
<1> QED
  BY <1>5, <1>6, <1>7, <1>8, <1>9
     DEF Reading, SaveRefused, EngineReturned, RequestLoadRow, AdvanceLoadTokens

\* start: the new instance has no row, and no token says anything of it.
LEMMA StartAlone ==
    ASSUME Alone, RoutesInv, AloneInv, faults = 0, NEW r \in Requests, Start(r)
    PROVE  AloneInv'
<1>1. /\ CallView /\ FreshView /\ TokenView /\ CancelledHasNoOpenTask
      /\ eng \in [Procs -> Call] /\ r \in Procs /\ req \in [Requests -> Request]
      /\ NoCall.made = {} /\ NoCall.snap.toks = {}
  BY IndInvParts, RequestsAssumption
     DEF AloneInv, RoutesInv, RequestInv, EngineOK, NoCall, NoSnapshot
<1>2. /\ UNCHANGED <<tables, tasks, faults>> /\ req[r].pc = "idle"
  BY DEF Start, Accept
<1>3. \A p \in Procs : Off(p) /\ eng[p].made = {}
  BY <1>1, <1>2, NobodyCalls
<1>4. PICK i \in Instances \ begun :
        /\ Accept(r, [NoRequest EXCEPT !.op = "start", !.pc = "engine", !.inst = i])
        /\ begun' = begun \cup {i}
        /\ CallStarted(r, i)
  BY DEF Start
<1>5. req'[r].pc = "engine" /\ req'[r].inst = i
  <2>1. PICK c : c = [NoRequest EXCEPT !.op = "start", !.pc = "engine", !.inst = i]
    OBVIOUS
  <2>2. c.pc = "engine" /\ c.inst = i
    BY <2>1 DEF NoRequest
  <2> QED  BY <1>1, <1>4, <2>1, <2>2 DEF Accept
<1>6. /\ eng'[r].pc = "save" /\ eng'[r].inst = i /\ eng'[r].made = {}
      /\ eng'[r].snap.toks = {}
      /\ \A q \in Procs : q # r => eng'[q] = eng[q]
  BY <1>1, <1>4 DEF CallStarted, NoCall, NoSnapshot
<1>7. CallView'
  <2>1. inst'[i] = "none"
    BY <1>1, <1>2 DEF FreshView, tables
  <2> QED  BY <1>3, <1>4, <1>5, <1>6, <2>1 DEF CallView, Off
<1>8. RequestView'
  BY <1>4, <1>5 DEF Alone, RequestView, LoadedView
<1>9. FreshView'
  BY <1>1, <1>2, <1>4 DEF FreshView, tables
<1>10. TokenView'
  <2>1. \A p \in Procs : eng'[p].made = {}
    BY <1>3, <1>6
  <2> QED  BY <1>1, <1>2, <1>3, <2>1 DEF TokenView, WaitingTokenHasTask, Unadvanced, tables
<1>11. CancelledHasNoOpenTask'
  BY <1>1, <1>2 DEF CancelledHasNoOpenTask, Present, InstanceOf, Alone, tables
<1> QED  BY <1>7, <1>8, <1>9, <1>10, <1>11 DEF AloneInv

\* The DELETEs: an instance goes with its tokens and its tasks, or all do.
LEMMA DeleteAlone ==
    ASSUME Alone, RoutesInv, AloneInv, faults = 0, NEW r \in Requests,
           Delete(r) \/ DeleteProcess(r)
    PROVE  AloneInv'
<1>1. /\ CallView /\ FreshView /\ TokenView /\ CancelledHasNoOpenTask
      /\ req \in [Requests -> Request]
      /\ tasks \in [Ids -> Row] /\ inst \in [Instances -> InstanceStates \cup {"none"}]
      /\ begun \subseteq Instances
      /\ \A k \in tokens : k.id \in Ids /\ k.inst \in Instances
      /\ \A t \in Ids : Present(t) => tasks[t].inst \in Instances
  BY IndInvParts
     DEF AloneInv, RoutesInv, RequestInv, EngineOK, StoreTypeOK, RowsInv, TasksTypeOK, Token,
         RowsConsistent, RowOK, Present
<1>2. /\ UNCHANGED <<used, eng, faults, begun>> /\ req[r].pc = "idle" /\ req'[r].pc = "idle"
  BY <1>1 DEF Delete, DeleteProcess, Accept, NoRequest
<1>3. \A p \in Procs : Off(p) /\ eng[p].made = {}
  BY <1>1, <1>2, NobodyCalls
<1>4. CallView'
  BY <1>2, <1>3, NobodyCallsNext
<1>5. RequestView'
  BY <1>2 DEF Alone, RequestView, LoadedView
<1>6. \A t \in Ids : /\ tasks'[t].inst = tasks[t].inst
                     /\ tasks'[t].state \in {tasks[t].state, "absent"}
  BY DeletionDeletes
<1>7. CASE Delete(r)
  <2>1. PICK i \in begun : DeleteRow(i) /\ DeleteTasksOf(i)
    BY <1>7 DEF Delete
  <2>2. i \in Instances /\ NoInstance # i
    BY <1>1, NoInstanceAssumption
  <2>3. \A t \in Ids : IF tasks[t].inst = i THEN tasks'[t].state = "absent"
                                            ELSE tasks'[t] = tasks[t]
    <3>1. tasks' = [t \in Ids |-> IF t \in {u \in Ids : tasks[u].inst = i}
                                  THEN [NoRow EXCEPT !.inst = i] ELSE tasks[t]]
      BY <2>1 DEF DeleteTasksOf, Update
    <3>2. [NoRow EXCEPT !.inst = i].state = "absent"
      BY DEF NoRow
    <3> QED  BY <3>1, <3>2
  <2>4. /\ \A j \in Instances : IF j = i THEN inst'[j] = "none" ELSE inst'[j] = inst[j]
        /\ \A k \in tokens' : k \in tokens /\ k.inst # i
    BY <1>1, <2>1, <2>2 DEF DeleteRow, TokensOf
  <2>5. FreshView'
    BY <1>1, <1>2, <2>4 DEF FreshView
  <2>6. TokenView'
    <3>1. \A k \in tokens' : /\ k \in tokens /\ tasks'[k.id] = tasks[k.id]
                             /\ inst'[k.inst] = inst[k.inst]
      BY <1>1, <2>2, <2>3, <2>4 DEF TokenView
    <3> QED  BY <1>1, <1>2, <1>3, <3>1 DEF TokenView, WaitingTokenHasTask, Unadvanced
  <2>7. CancelledHasNoOpenTask'
    <3>1. ASSUME NEW t \in Ids, Present(t)'
          PROVE  Present(t) /\ tasks'[t] = tasks[t] /\ inst'[InstanceOf(t)] = inst[InstanceOf(t)]
      BY <1>1, <1>6, <2>3, <2>4, <3>1 DEF Present, InstanceOf
    <3> QED  BY <1>1, <1>2, <3>1 DEF CancelledHasNoOpenTask, InstanceOf, Alone
  <2> QED  BY <1>4, <1>5, <2>5, <2>6, <2>7 DEF AloneInv
<1>8. CASE DeleteProcess(r)
  <2>1. tokens' = {} /\ \A i \in Instances : inst'[i] = "none"
    BY <1>8 DEF DeleteProcess
  <2>2. FreshView' /\ TokenView'
    BY <2>1 DEF FreshView, TokenView, WaitingTokenHasTask
  <2>3. CancelledHasNoOpenTask'
    BY <1>1, <1>6, <2>1 DEF CancelledHasNoOpenTask, Present, InstanceOf
  <2> QED  BY <1>4, <1>5, <2>2, <2>3 DEF AloneInv
<1> QED  BY <1>7, <1>8

\* advance saves what it has loaded, which is what the tables say, and the
\* engine is called for the token.
LEMMA AdvanceAlone ==
    ASSUME Alone, RoutesInv, AloneInv, faults = 0, NEW r \in Requests, AdvanceSave(r)
    PROVE  AloneInv'
<1>1. /\ CallView /\ RequestView /\ FreshView /\ TokenView /\ CancelledHasNoOpenTask
      /\ eng \in [Procs -> Call] /\ r \in Procs
      /\ req \in [Requests -> Request] /\ req[r] \in Request
      /\ inst \in [Instances -> InstanceStates \cup {"none"}]
      /\ NoCall.made = {} /\ NoCall.snap.toks = {}
  BY IndInvParts, RequestsAssumption
     DEF AloneInv, RoutesInv, RequestInv, EngineOK, StoreTypeOK, NoCall, NoSnapshot
<1>2. /\ UNCHANGED <<used, tasks, faults, begun>> /\ req[r].pc = "save" /\ req[r].op = "advance"
  BY DEF AdvanceSave
<1>3. UNCHANGED <<inst, tokens>>
  <2>1. CASE Save(req[r].inst, req[r].snap)
    <3>1. /\ inst[req[r].inst] = "Running" /\ req[r].snap.state = "Running"
          /\ req[r].snap.toks = TokensOf(req[r].inst)
      BY <1>1, <1>2 DEF RequestView, LoadedView
    <3>2. inst' = inst
      BY <1>1, <2>1, <3>1 DEF Save
    <3>3. tokens' = tokens
      BY <2>1, <3>1 DEF Save, TokensOf
    <3> QED  BY <3>2, <3>3
  <2> QED  BY <2>1 DEF AdvanceSave
<1>4. \A p \in Procs : Off(p) /\ eng[p].made = {}
  BY <1>1, <1>2, NobodyCalls
<1>5. req'[r].pc = "engine" /\ req'[r].inst = req[r].inst /\ req[r].inst \in begun
  <2>1. PICK c : c = [req[r] EXCEPT !.pc = "engine", !.snap = NoSnapshot]
    OBVIOUS
  <2>2. c.pc = "engine" /\ c.inst = req[r].inst /\ req'[r] = c
    BY <1>1, <2>1 DEF AdvanceSave, Request
  <2> QED  BY <1>1, <1>2, <2>2 DEF RequestView, LoadedView
<1>6. /\ eng'[r].pc = "row" /\ eng'[r].made = {} /\ eng'[r].inst = req[r].inst
      /\ \A q \in Procs : q # r => eng'[q] = eng[q]
  <2>1. PICK i, id : i = req[r].inst /\ CallCompleted(r, i, id)
    BY DEF AdvanceSave
  <2> QED  BY <1>1, <2>1 DEF CallCompleted, NoCall
<1>7. CallView'
  BY <1>2, <1>4, <1>5, <1>6 DEF CallView, Off
<1>8. RequestView'
  BY <1>2, <1>5 DEF Alone, RequestView, LoadedView
<1>9. FreshView'
  BY <1>1, <1>2, <1>3 DEF FreshView
<1>10. TokenView'
  <2>1. \A p \in Procs : eng'[p].made = {}
    BY <1>4, <1>6
  <2> QED  BY <1>1, <1>2, <1>3, <1>4, <2>1 DEF TokenView, WaitingTokenHasTask, Unadvanced
<1>11. CancelledHasNoOpenTask'
  BY <1>1, <1>2, <1>3 DEF CancelledHasNoOpenTask, Present, InstanceOf, Alone
<1> QED  BY <1>7, <1>8, <1>9, <1>10, <1>11 DEF AloneInv

\* cancel saves, and then kills the open tasks of its instance.
LEMMA CancelAlone ==
    ASSUME Alone, RoutesInv, AloneInv, faults = 0, NEW r \in Requests, CancelSave(r)
    PROVE  AloneInv'
<1>1. /\ CallView /\ RequestView /\ FreshView /\ TokenView /\ CancelledHasNoOpenTask
      /\ req \in [Requests -> Request] /\ req[r] \in Request
      /\ inst \in [Instances -> InstanceStates \cup {"none"}]
      /\ req[r].inst \in Instances
      /\ \A k \in tokens : k.inst \in Instances
      /\ \A t \in Ids : Present(t) => tasks[t].inst \in Instances
  BY IndInvParts
     DEF AloneInv, RoutesInv, RequestInv, EngineOK, StoreTypeOK, Token, CancelSave,
         RowsInv, RowsConsistent, RowOK, Present
<1>2. /\ UNCHANGED <<used, tasks, faults, begun, eng>> /\ req[r].pc = "save"
      /\ req[r].op = "cancel"
  BY DEF CancelSave
<1>3. PICK i, S : i = req[r].inst /\ S = req[r].snap.toks
  OBVIOUS
<1>4. /\ inst[i] = "Running"
      /\ \A m \in S : m.status = "Terminated" /\ \E k \in tokens : k.id = m.id /\ k.inst = m.inst
      /\ req[r].snap.state = "Terminated"
  BY <1>1, <1>2, <1>3 DEF RequestView, LoadedView
<1>5. /\ tokens' = (tokens \ TokensOf(i)) \cup S
      /\ \A j \in Instances : IF j = i THEN inst'[j] = "Terminated" ELSE inst'[j] = inst[j]
  BY <1>1, <1>3, <1>4 DEF CancelSave, Save
<1>6. \A p \in Procs : Off(p) /\ eng[p].made = {}
  BY <1>1, <1>2, NobodyCalls
<1>7. req'[r].pc = "kill" /\ req'[r].inst = i
  <2>1. PICK c : c = [req[r] EXCEPT !.pc = "kill", !.snap = NoSnapshot]
    OBVIOUS
  <2>2. c.pc = "kill" /\ c.inst = i /\ req'[r] = c
    BY <1>1, <1>3, <2>1 DEF CancelSave, Request
  <2> QED  BY <2>2
<1>8. CallView'
  BY <1>2, <1>6, NobodyCallsNext
<1>9. RequestView'
  BY <1>1, <1>2, <1>3, <1>5, <1>7 DEF Alone, RequestView, LoadedView
<1>10. FreshView'
  BY <1>1, <1>2, <1>3, <1>4, <1>5 DEF FreshView
<1>11. TokenView'
  <2>1. \A k \in tokens' : k.id \in used' /\ tasks'[k.id].inst \in {NoInstance, k.inst}
    <3>1. \A k \in tokens' : \E m \in tokens : k.id = m.id /\ k.inst = m.inst
      BY <1>4, <1>5
    <3> QED  BY <1>1, <1>2, <3>1 DEF TokenView
  <2>2. \A k \in tokens', p \in Procs : k.id \in eng'[p].made => k.inst = eng'[p].inst
    BY <1>2, <1>6
  <2>3. WaitingTokenHasTask'
    <3>1. ASSUME NEW k \in tokens', k.status = "Waiting", inst'[k.inst] = "Running"
          PROVE  k \in tokens /\ inst[k.inst] = "Running"
      BY <1>1, <1>3, <1>4, <1>5, <3>1
    <3> QED  BY <1>1, <1>2, <3>1 DEF TokenView, WaitingTokenHasTask, Unadvanced
  <2> QED  BY <2>1, <2>2, <2>3 DEF TokenView
<1>12. CancelledHasNoOpenTask'
  <2>1. ASSUME NEW t \in Ids, Present(t), inst'[InstanceOf(t)] = "Terminated", InstanceOf(t) # i
        PROVE  tasks[t].state \notin Open
    <3>1. inst[InstanceOf(t)] = "Terminated"
      BY <1>1, <1>5, <2>1 DEF InstanceOf
    <3> QED  BY <1>2, <2>1, <3>1 , <1>1 DEF CancelledHasNoOpenTask, Alone
  <2> QED  BY <1>2, <1>7, <2>1 DEF CancelledHasNoOpenTask, Present, InstanceOf
<1> QED  BY <1>8, <1>9, <1>10, <1>11, <1>12 DEF AloneInv

LEMMA KillAlone ==
    ASSUME Alone, RoutesInv, AloneInv, faults = 0, NEW r \in Requests, CancelTasks(r)
    PROVE  AloneInv'
<1>1. /\ CallView /\ RequestView /\ FreshView /\ TokenView /\ CancelledHasNoOpenTask
      /\ req \in [Requests -> Request] /\ RowsInv
      /\ req[r].inst \in Instances
      /\ \A k \in tokens : k.id \in Ids
  BY IndInvParts
     DEF AloneInv, RoutesInv, RequestInv, EngineOK, StoreTypeOK, Token, CancelTasks
<1>2. /\ UNCHANGED <<tables, faults, begun, eng>> /\ req[r].pc = "kill"
      /\ req'[r].pc = "idle"
  BY <1>1 DEF CancelTasks, Respond, NoRequest
<1>3. PICK i : i = req[r].inst
  OBVIOUS
<1>4. inst[i] = "Terminated"
  BY <1>1, <1>2, <1>3 DEF RequestView, LoadedView
<1>5. \A p \in Procs : Off(p) /\ eng[p].made = {}
  BY <1>1, <1>2, NobodyCalls
<1>6. \A t \in Ids :
        /\ tasks'[t].inst = tasks[t].inst
        /\ tasks'[t].advanced => tasks[t].advanced
        /\ tasks'[t].state = IF t \in OpenOf(i) THEN "FAILED" ELSE tasks[t].state
  BY <1>1, <1>3, CancelledRows DEF CancelTasks
<1>7. CallView'
  BY <1>2, <1>5, NobodyCallsNext
<1>8. RequestView'
  BY <1>2 DEF Alone, RequestView, LoadedView
<1>9. FreshView'
  BY <1>1, <1>2 DEF FreshView, tables
<1>10. TokenView'
  <2>1. ASSUME NEW k \in tokens, inst[k.inst] = "Running"
        PROVE  tasks'[k.id].state = tasks[k.id].state
    <3>1. k.id \in OpenOf(i) => tasks[k.id].inst = i
      BY DEF OpenOf
    <3>2. tasks[k.id].inst # i
      BY <1>1, <1>3, <1>4, <2>1, NoInstanceAssumption DEF TokenView
    <3> QED  BY <1>1, <1>6, <3>1, <3>2
  <2>2. WaitingTokenHasTask'
    BY <1>1, <1>2, <1>6, <2>1 DEF tables, TokenView, WaitingTokenHasTask, Unadvanced
  <2> QED  BY <1>1, <1>2, <1>6, <2>2 DEF tables, TokenView
<1>11. CancelledHasNoOpenTask'
  <2>1. ASSUME NEW t \in Ids, tasks'[t].state \in Open, inst[InstanceOf(t)] = "Terminated"
        PROVE  FALSE
    <3>1. t \notin OpenOf(i) /\ tasks[t].state \in Open
      BY <1>6, <2>1 DEF Open
    <3>2. InstanceOf(t) # i
      BY <3>1 DEF OpenOf, InstanceOf
    <3> QED  BY <1>1, <1>2, <1>3, <2>1, <3>1, <3>2
             DEF CancelledHasNoOpenTask, Alone, Present, Open
  <2> QED  BY <1>2, <1>6, <2>1 DEF CancelledHasNoOpenTask, InstanceOf, tables
<1> QED  BY <1>7, <1>8, <1>9, <1>10, <1>11 DEF AloneInv

-----------------------------------------------------------------------------
(* The engine, called by the only request.                                 *)

\* The call ends: nothing it was to make is left.
LEMMA ReturnAlone ==
    ASSUME Alone, RoutesInv, AloneInv, faults = 0, NEW r \in Requests, Return(r),
           \/ eng[r].made = {}
           \/ inst[eng[r].inst] = "none",
           UNCHANGED <<tables, tasks, faults, routeVars>>
    PROVE  AloneInv'
<1>1. /\ CallView /\ RequestView /\ FreshView /\ TokenView /\ CancelledHasNoOpenTask
      /\ r \in Procs /\ eng \in [Procs -> Call] /\ NoCall.made = {} /\ NoCall.pc = "off"
  BY IndInvParts, RequestsAssumption DEF AloneInv, RoutesInv, EngineOK, NoCall
<1>2. eng'[r] = NoCall /\ \A q \in Procs : q # r => eng'[q] = eng[q]
  BY <1>1 DEF Return
<1>3. CallView'
  BY <1>1, <1>2 DEF CallView, Off, TokensOf, tables, routeVars
<1>4. RequestView' /\ FreshView' /\ CancelledHasNoOpenTask'
  BY <1>1 DEF RequestView, LoadedView, FreshView, CancelledHasNoOpenTask, Present, InstanceOf,
              TokensOf, tables, routeVars
<1>5. TokenView'
  <2>1. \A k \in tokens, p \in Procs : k.id \in eng'[p].made => k.inst = eng'[p].inst
    BY <1>1, <1>2 DEF TokenView
  <2>2. \A k \in tokens : inst[k.inst] = "Running" => k.id \notin eng[r].made
    BY <1>1 DEF TokenView
  <2>3. WaitingTokenHasTask'
    BY <1>1, <1>2, <2>2 DEF TokenView, WaitingTokenHasTask, Unadvanced, tables
  <2> QED  BY <1>1, <2>1, <2>3 DEF TokenView, tables
<1> QED  BY <1>3, <1>4, <1>5 DEF AloneInv

\* The engine saves: the tokens it moves arrive with the tasks to be made.
LEMMA SaveAlone ==
    ASSUME Alone, RoutesInv, AloneInv, faults = 0, NEW r \in Requests, EngineSave(r),
           UNCHANGED <<faults, routeVars>>
    PROVE  AloneInv'
<1>1. /\ CallView /\ RequestView /\ FreshView /\ TokenView /\ CancelledHasNoOpenTask
      /\ r \in Procs /\ EngineOK /\ eng[r].inst \in Instances /\ eng[r].pc = "save"
      /\ inst \in [Instances -> InstanceStates \cup {"none"}]
      /\ \A k \in tokens : k.inst \in Instances /\ k.id \in Ids
      /\ \A t \in Ids : Present(t) => tasks[t].inst \in Instances
      /\ \A t \in Ids \ used : Unborn(t)
  BY IndInvParts, RequestsAssumption
     DEF AloneInv, RoutesInv, EngineOK, EngineInv, Off, EngineSave, StoreTypeOK, Token,
         RowsInv, RowsConsistent, RowOK, Present
<1>2. PICK f : Saves(r, f)
  BY SavesSomewhere
<1>3. PICK i, A, L, N :
        /\ i = eng[r].inst /\ A = Arrive(eng[r].inst, f) /\ L = Left(r)
        /\ N = {f[n] : n \in Targets(r) \cap Timers}
  OBVIOUS
<1>4. /\ tokens' = (tokens \ TokensOf(i)) \cup L \cup A
      /\ inst' = [inst EXCEPT ![i] = IF L \cup A = {} THEN "Completed" ELSE "Running"]
      /\ eng'[r].pc = "create" /\ eng'[r].inst = i /\ eng'[r].made = N
      /\ \A q \in Procs : q # r => eng'[q] = eng[q]
      /\ UNCHANGED tasks /\ used \subseteq used'
  BY ZenonT(60), <1>1, <1>2, <1>3, SavedTokens, ArrivingTokens DEF Saves
<1>5. /\ \A k \in A : /\ k.inst = i /\ k.id \in Ids \ used /\ k.id \in used'
                      /\ k.node \in Targets(r) /\ f[k.node] = k.id
      /\ N \subseteq Ids \ used
  BY <1>1, <1>2, <1>3, ArrivingTokens
<1>6. req[r].pc = "engine"
  BY <1>1 DEF CallView, Off
<1>7. \A p \in Procs : p # r => Off(p) /\ eng[p].made = {}
  BY <1>1 DEF Alone, CallView, Off
<1>8. /\ eng[r].made = {}
      /\ L \subseteq TokensOf(i) /\ (L # {} => inst[i] = "Running")
      /\ inst[i] # "Terminated"
  BY <1>1, <1>3 DEF CallView, Left
<1>9. \A j \in Instances : j # i => inst'[j] = inst[j]
  BY <1>1, <1>4
<1>10. inst'[i] \in {"Completed", "Running"}
  BY <1>1, <1>3, <1>4
<1>11. CallView'
  <2>1. ASSUME NEW p \in Procs, p # r
        PROVE  eng'[p].pc = "off" /\ eng'[p].made = {}
    BY <1>4, <1>7, <2>1 DEF Off
  <2>2. req'[r].pc = "engine"
    BY <1>6 DEF routeVars
  <2>3. eng'[r].inst \in begun'
    BY <1>1, <1>3, <1>4 DEF CallView, Off, routeVars
  <2> QED  BY <1>4, <1>10, <2>1, <2>2, <2>3 DEF CallView, Off
<1>12. RequestView'
  BY <1>1, <1>6 DEF routeVars, Alone, RequestView, LoadedView
<1>13. FreshView'
  <2>1. i \in begun
    BY <1>1, <1>3 DEF CallView, Off
  <2> QED  BY <1>1, <1>9, <2>1 DEF routeVars, FreshView
<1>14. TokenView'
  <2>1. \A k \in tokens' : k \in A \/ k \in tokens
    BY <1>4, <1>8 DEF TokensOf
  <2>2. ASSUME NEW k \in tokens'
        PROVE  k.id \in used' /\ tasks'[k.id].inst \in {NoInstance, k.inst}
    BY <1>1, <1>4, <1>5, <2>1 DEF TokenView, Unborn
  <2>3. ASSUME NEW k \in tokens', NEW p \in Procs, k.id \in eng'[p].made
        PROVE  k.inst = eng'[p].inst
    <3>1. p = r /\ k.id \in N
      BY <1>4, <1>7, <2>3
    <3>2. k \in A
      BY <1>1, <1>5, <2>1, <3>1 DEF TokenView
    <3> QED  BY <1>4, <1>5, <3>1, <3>2
  <2>4. ASSUME NEW k \in tokens', k.status = "Waiting", inst'[k.inst] = "Running", k.node \in Timers
        PROVE  \/ tasks'[k.id].state \in Open
               \/ k.id \in Unadvanced'
               \/ \E p \in Procs : k.id \in eng'[p].made
    <3>1. CASE k \in A
      <4>1. k.id \in N
        BY <1>3, <1>5, <2>4, <3>1
      <4> QED  BY <1>1, <1>4, <4>1
    <3>2. CASE k \in tokens
      <4>1. inst[k.inst] = "Running"
        <5>1. CASE k.inst # i
          BY <1>1, <1>9, <2>4, <3>2, <5>1
        <5>2. CASE k.inst = i /\ k \notin A
          <6>1. k \in L
            BY <1>4, <3>2, <5>2 DEF TokensOf
          <6> QED  BY <1>8, <5>2, <6>1
        <5>3. CASE k \in A
          BY <1>1, <1>5, <3>2, <5>3 DEF TokenView
        <5> QED  BY <5>1, <5>2, <5>3
      <4>2. \A p \in Procs : eng[p].made = {}
        BY <1>7, <1>8
      <4> QED  BY <1>1, <1>4, <2>4, <3>2, <4>1, <4>2
               DEF TokenView, WaitingTokenHasTask, Unadvanced
    <3> QED  BY <2>1, <3>1, <3>2
  <2>5. WaitingTokenHasTask'
    BY <2>4 DEF WaitingTokenHasTask
  <2> QED  BY <2>2, <2>3, <2>5 DEF TokenView
<1>15. CancelledHasNoOpenTask'
  <2>1. ASSUME NEW t \in Ids, Present(t), inst'[InstanceOf(t)] = "Terminated"
        PROVE  inst[InstanceOf(t)] = "Terminated"
    BY <1>1, <1>9, <1>10, <2>1 DEF InstanceOf
  <2> QED  BY <1>1, <1>4, <1>6, <2>1
           DEF CancelledHasNoOpenTask, Present, InstanceOf, Alone, routeVars
<1> QED  BY <1>11, <1>12, <1>13, <1>14, <1>15 DEF AloneInv

\* The engine loads: alone with the tables, its copy is what they say.
LEMMA LoadAlone ==
    ASSUME Alone, RoutesInv, AloneInv, faults = 0, NEW r \in Requests,
           EngineLoadRow(r) \/ EngineLoadTokens(r), ~Return(r),
           UNCHANGED <<faults, routeVars>>
    PROVE  AloneInv'
<1>1. /\ CallView /\ RequestView /\ FreshView /\ TokenView /\ CancelledHasNoOpenTask
      /\ r \in Procs /\ eng \in [Procs -> Call] /\ eng[r] \in Call
      /\ UNCHANGED <<tables, tasks>>
  BY IndInvParts, RequestsAssumption
     DEF AloneInv, RoutesInv, EngineOK, EngineLoadRow, EngineLoadTokens, tables
<1>2. /\ ~Off(r) /\ eng'[r].pc \in {"tokens", "save"} /\ eng'[r].made = eng[r].made
      /\ eng'[r].inst = eng[r].inst
      /\ eng'[r].pc = "tokens" => eng'[r].snap.state = inst[eng[r].inst]
      /\ eng'[r].pc = "save" => /\ inst[eng[r].inst] = "Running"
                                /\ eng'[r].snap.toks = TokensOf(eng[r].inst)
      /\ \A q \in Procs : q # r => eng'[q] = eng[q]
  <2>1. CASE EngineLoadRow(r)
    <3>1. PICK c : c = [eng[r] EXCEPT !.pc = "tokens", !.snap.state = inst[eng[r].inst]]
      OBVIOUS
    <3>2. eng' = [eng EXCEPT ![r] = c]
      BY <1>1, <2>1, <3>1 DEF EngineLoadRow, InstanceRow, Call, Snapshot
    <3>3. /\ c.pc = "tokens" /\ c.made = eng[r].made /\ c.inst = eng[r].inst
          /\ c.snap.state = inst[eng[r].inst]
      BY <1>1, <3>1 DEF Call, Snapshot
    <3> QED  BY <1>1, <2>1, <3>2, <3>3 DEF EngineLoadRow, Off
  <2>2. CASE EngineLoadTokens(r)
    <3>1. PICK T : T = TokensOf(eng[r].inst)
      OBVIOUS
    <3>2. PICK c : c = [eng[r] EXCEPT !.pc = "save", !.snap.toks = T]
      OBVIOUS
    <3>3. eng' = [eng EXCEPT ![r] = c] /\ eng[r].snap.state = "Running"
      BY <1>1, <2>2, <3>1, <3>2 DEF EngineLoadTokens, Call, Snapshot
    <3>4. /\ c.pc = "save" /\ c.made = eng[r].made /\ c.inst = eng[r].inst
          /\ c.snap.toks = T
      BY <1>1, <3>2 DEF Call, Snapshot
    <3>5. inst[eng[r].inst] = "Running" /\ eng[r].pc = "tokens"
      BY <1>1, <2>2, <3>3 DEF CallView, EngineLoadTokens
    <3> QED  BY <1>1, <3>1, <3>3, <3>4, <3>5 DEF Off
  <2> QED  BY <2>1, <2>2
<1>3. CallView'
  <2>1. TokensOf(eng[r].inst)' = TokensOf(eng'[r].inst)
    BY <1>1 DEF TokensOf, tables
  <2>2. eng[r].made = {}
    BY <1>1 DEF CallView, EngineLoadRow, EngineLoadTokens
  <2>3. \A q \in Procs : q # r => eng'[q].pc = "off" /\ eng'[q].made = {}
    BY <1>1, <1>2 DEF CallView, Off, Alone
  <2> QED  BY <1>1, <1>2, <2>1, <2>2, <2>3 DEF CallView, Off, tables, routeVars
<1>4. RequestView' /\ FreshView' /\ CancelledHasNoOpenTask'
  BY <1>1 DEF RequestView, LoadedView, FreshView, CancelledHasNoOpenTask, Present, InstanceOf,
              TokensOf, tables, routeVars
<1>5. TokenView'
  <2>1. \A p \in Procs : eng'[p].made = eng[p].made /\ eng'[p].inst = eng[p].inst
    BY <1>2
  <2> QED  BY <1>1, <2>1 DEF TokenView, WaitingTokenHasTask, Unadvanced, tables
<1> QED  BY <1>3, <1>4, <1>5 DEF AloneInv

\* The engine makes a task, of an instance that runs or is complete.
LEMMA CreateAlone ==
    ASSUME Alone, RoutesInv, AloneInv, faults = 0, NEW r \in Requests, EngineCreate(r),
           inst[eng[r].inst] # "none", UNCHANGED <<faults, routeVars>>
    PROVE  AloneInv'
<1>1. /\ CallView /\ RequestView /\ FreshView /\ TokenView /\ CancelledHasNoOpenTask
      /\ r \in Procs /\ eng \in [Procs -> Call] /\ eng[r] \in Call
      /\ UNCHANGED tables /\ tasks \in [Ids -> Row]
      /\ eng[r].inst \in Instances /\ eng[r].pc = "create"
      /\ \A k \in tokens : k.id \in Ids
  BY IndInvParts, RequestsAssumption
     DEF AloneInv, RoutesInv, EngineOK, EngineInv, Off, EngineCreate, tables, RowsInv,
         TasksTypeOK, StoreTypeOK, Token
<1>2. PICK t \in eng[r].made :
        Create(t, eng[r].inst) /\ eng' = [eng EXCEPT ![r].made = @ \ {t}]
  BY DEF EngineCreate
<1>3. /\ t \in Ids
      /\ eng'[r].made = eng[r].made \ {t} /\ eng'[r].inst = eng[r].inst
      /\ eng'[r].pc = "create"
      /\ \A q \in Procs : q # r => eng'[q] = eng[q]
  BY <1>1, <1>2 DEF Call
<1>4. NewRow(eng[r].inst).inst = eng[r].inst /\ NewRow(eng[r].inst).state = "READY"
  BY DEF NewRow, NoRow
<1>5. \A u \in Ids : IF u = t THEN tasks'[u].inst = eng[r].inst /\ tasks'[u].state = "READY"
                     ELSE tasks'[u] = tasks[u]
  BY <1>1, <1>2, <1>3, <1>4 DEF Create
<1>6. req[r].pc = "engine" /\ inst[eng[r].inst] # "Terminated"
  BY <1>1 DEF CallView, Off
<1>7. CallView'
  <2>1. \A q \in Procs : q # r => eng'[q].pc = "off" /\ eng'[q].made = {}
    BY <1>1, <1>3 DEF CallView, Off, Alone
  <2> QED  BY <1>1, <1>3, <1>6, <2>1 DEF CallView, Off, tables, routeVars
<1>8. RequestView' /\ FreshView'
  BY <1>1 DEF RequestView, LoadedView, FreshView, TokensOf, tables, routeVars
<1>9. TokenView'
  <2>1. \A k \in tokens : tasks'[k.id].inst \in {NoInstance, k.inst}
    BY <1>1, <1>2, <1>5 DEF TokenView
  <2>2. \A k \in tokens, p \in Procs : k.id \in eng'[p].made => k.inst = eng'[p].inst
    BY <1>1, <1>3 DEF TokenView
  <2>3. ASSUME NEW k \in tokens, k.status = "Waiting", inst[k.inst] = "Running", k.node \in Timers
        PROVE  \/ tasks'[k.id].state \in Open
               \/ k.id \in Unadvanced'
               \/ \E p \in Procs : k.id \in eng'[p].made
    <3>1. CASE k.id = t
      BY <1>3, <1>5, <3>1 DEF Open
    <3>2. CASE k.id # t
      <4>1. tasks'[k.id] = tasks[k.id] /\ k.id \in Ids
        BY <1>1, <1>5, <3>2
      <4>2. \A p \in Procs : k.id \in eng[p].made => k.id \in eng'[p].made
        BY <1>3, <3>2
      <4> QED  BY <1>1, <2>3, <4>1, <4>2 DEF TokenView, WaitingTokenHasTask, Unadvanced
    <3> QED  BY <3>1, <3>2
  <2>4. WaitingTokenHasTask'
    BY <1>1, <2>3 DEF WaitingTokenHasTask, tables
  <2> QED  BY <1>1, <2>1, <2>2, <2>4 DEF TokenView, tables
<1>10. CancelledHasNoOpenTask'
  <2>1. ASSUME NEW u \in Ids, Present(u)', inst[tasks'[u].inst] = "Terminated"
        PROVE  u # t /\ tasks'[u] = tasks[u]
    BY <1>5, <1>6, <2>1
  <2> QED  BY <1>1, <2>1 DEF CancelledHasNoOpenTask, Present, InstanceOf, tables, routeVars
<1> QED  BY <1>7, <1>8, <1>9, <1>10 DEF AloneInv

LEMMA EngineAlone ==
    ASSUME Alone, RoutesInv, AloneInv, faults = 0, NEW r \in Requests, EngineStep(r),
           UNCHANGED <<faults, routeVars>>
    PROVE  AloneInv'
<1>1. CallView
  BY DEF AloneInv
<1>2. CASE Return(r) /\ UNCHANGED <<tables, tasks>> /\ eng[r].made = {}
  BY <1>2, ReturnAlone
<1>3. CASE EngineLoadRow(r) \/ EngineLoadTokens(r)
  <2>1. UNCHANGED <<tables, tasks>> /\ eng[r].made = {}
    BY <1>1, <1>3, RequestsAssumption DEF EngineLoadRow, EngineLoadTokens, tables, CallView
  <2> QED  BY <1>2, <1>3, <2>1, LoadAlone
<1>4. CASE EngineSave(r)
  BY <1>4, SaveAlone
<1>5. CASE EngineCreate(r)
  <2>1. CASE inst[eng[r].inst] = "none"
    BY <1>5, <2>1, ReturnAlone DEF EngineCreate, tables
  <2> QED  BY <1>5, <2>1, CreateAlone
<1>6. CASE EngineReturn(r)
  BY <1>2, <1>6 DEF EngineReturn, tables
<1> QED  BY <1>3, <1>4, <1>5, <1>6 DEF EngineStep

-----------------------------------------------------------------------------
LEMMA AloneInvStep ==
    ASSUME Alone, RoutesInv, AloneInv, [RoutesNext]_allVars
    PROVE  AloneInv'
<1> SUFFICES ASSUME faults' = 0 PROVE AloneInv'
  BY DEF AloneInv
<1>1. ASSUME NEW r \in Requests, RouteStep(r) PROVE AloneInv'
  <2>1. faults = 0 /\ ~RequestStops(r)
    <3>1. faults' = faults \/ Fault
      BY <1>1 DEF RouteStep, Start, Advance, Cancel, Delete, DeleteProcess, RequestStep,
             SaveRefused, EngineRefused, RequestLoadRow, AdvanceLoadTokens, AdvanceSave,
             EngineReturned, CancelLoadTokens, CancelSave, CancelTasks, RequestStops
    <3>2. faults \in Nat
      BY LimitsAssumption DEF RoutesInv, IndInv, TypeOK
    <3>3. ~Fault
      BY <3>2 DEF Fault
    <3> QED  BY <3>1, <3>3 DEF RequestStops
  <2>2. CASE Reading(r)
    BY <2>1, <2>2, RequestReads
  <2>3. CASE Start(r)
    BY <2>1, <2>3, StartAlone
  <2>4. CASE Delete(r) \/ DeleteProcess(r)
    BY <2>1, <2>4, DeleteAlone
  <2>5. CASE AdvanceSave(r)
    BY <2>1, <2>5, AdvanceAlone
  <2>6. CASE CancelSave(r)
    BY <2>1, <2>6, CancelAlone
  <2>7. CASE CancelTasks(r)
    BY <2>1, <2>7, KillAlone
  <2>8. CASE EngineStep(r) /\ UNCHANGED <<timerVars, faults, routeVars>>
    BY <2>1, <2>8, EngineAlone
  <2>9. CASE EngineRefused(r)
    <3>1. eng[r].made = {}
      BY <2>1, <2>9, RequestsAssumption DEF AloneInv, CallView, EngineRefused
    <3> QED  BY <2>1, <2>9, <3>1, ReturnAlone DEF EngineRefused, EngineError, tables
  <2> QED
    BY <1>1, <2>1, <2>2, <2>3, <2>4, <2>5, <2>6, <2>7, <2>8, <2>9
       DEF RouteStep, RequestStep, Reading
<1>2. CASE TimerNext /\ UNCHANGED routeVars
  BY <1>2, TimeAlone
<1>3. ~\E s \in Servers : EngineRefused(s)
  BY DEF Alone
<1>4. CASE UNCHANGED allVars
  <2>1. UNCHANGED <<inst, tokens, used, tasks, eng, faults, req, begun>>
    BY <1>4 DEF allVars, routeVars, vars, engineVars
  <2> QED
    BY <2>1 DEF AloneInv, CallView, RequestView, LoadedView, FreshView, TokenView, Off, TokensOf,
                CancelledHasNoOpenTask, WaitingTokenHasTask, Unadvanced, Present, InstanceOf
<1> QED  BY <1>1, <1>2, <1>3, <1>4 DEF RoutesNext, RouteStep

LEMMA AloneInvInit == RoutesInit => AloneInv
<1> SUFFICES ASSUME RoutesInit PROVE AloneInv
  OBVIOUS
<1>1. /\ \A p \in Procs : eng[p].pc = "off" /\ eng[p].made = {}
      /\ \A r \in Requests : req[r].pc = "idle"
  BY DEF RoutesInit, Init, NoCall, NoRequest
<1>2. \A k \in Parked : /\ k.id \in Ids /\ k.inst \in Instances /\ k.status = "Waiting"
                        /\ inst[k.inst] = "Running"
  BY ParkedAssumption DEF RoutesInit, Init, TokensOf, Token
<1>3. CallView /\ RequestView
  BY <1>1 DEF CallView, RequestView, LoadedView, Off
<1>4. FreshView
  BY DEF RoutesInit, Init, FreshView, TokensOf
<1>5. /\ NoRow.inst = NoInstance /\ NoRow.state = "absent"
      /\ \A i \in Instances : NewRow(i).inst = i /\ NewRow(i).state = "READY"
  BY DEF NoRow, NewRow
<1>6. ASSUME NEW t \in Ids
      PROVE  \/ tasks[t] = NoRow
             \/ \E k \in Parked : k.id = t /\ tasks[t] = NewRow(k.inst)
  BY DEF RoutesInit, Init
<1>7. TokenView
  <2>1. \A k \in tokens : k.id \in used /\ tasks[k.id].inst \in {NoInstance, k.inst}
    <3>1. ASSUME NEW k \in Parked PROVE tasks[k.id].inst \in {NoInstance, k.inst}
      <4>1. CASE tasks[k.id] = NoRow
        BY <1>5, <4>1
      <4>2. CASE tasks[k.id] # NoRow
        <5>1. PICK m \in Parked : m.id = k.id /\ tasks[k.id] = NewRow(m.inst)
          BY <1>2, <1>6, <4>2
        <5>2. m = k
          BY <5>1, ParkedAssumption
        <5> QED  BY <1>2, <1>5, <5>1, <5>2
      <4> QED  BY <4>1, <4>2
    <3> QED  BY <3>1 DEF RoutesInit, Init
  <2>2. \A k \in tokens : k.node \in Timers => tasks[k.id].state \in Open
    <3>1. ASSUME NEW k \in Parked, k.node \in Timers PROVE tasks[k.id].state \in Open
      <4>1. PICK m \in Parked : tasks[k.id] = NewRow(m.inst)
        BY <1>2, <3>1 DEF RoutesInit, Init
      <4> QED  BY <1>2, <1>5, <4>1 DEF Open
    <3> QED  BY <3>1 DEF RoutesInit, Init
  <2> QED  BY <1>1, <2>1, <2>2 DEF TokenView, WaitingTokenHasTask
<1>8. CancelledHasNoOpenTask
  <2>1. ASSUME NEW t \in Ids, Present(t) PROVE inst[InstanceOf(t)] = "Running"
    <3>1. PICK k \in Parked : k.id = t /\ tasks[t] = NewRow(k.inst)
      BY <1>5, <1>6, <2>1 DEF Present
    <3> QED  BY <1>2, <1>5, <3>1 DEF InstanceOf
  <2> QED  BY <2>1 DEF CancelledHasNoOpenTask
<1> QED  BY <1>3, <1>4, <1>7, <1>8 DEF AloneInv

THEOREM AloneInvariance ==
    ASSUME Alone
    PROVE  RoutesSpec => []AloneInv
<1>1. RoutesInit => AloneInv
  BY AloneInvInit
<1>2. RoutesInv /\ AloneInv /\ [RoutesNext]_allVars => AloneInv'
  BY AloneInvStep
<1> QED  BY <1>1, <1>2, RoutesInvariance, PTL DEF RoutesSpec

\* cancel_for_instance, "kill open tasks so no worker completes them": with no
\* loop and no second request, once cancel is answered its instance has no
\* open task, whatever was started, advanced, cancelled and deleted before.
THEOREM CancelKillsTasksAlone ==
    ASSUME Alone
    PROVE  RoutesSpec => []CancelledHasNoOpenTask
<1>1. AloneInv => CancelledHasNoOpenTask
  BY DEF AloneInv, CancelledHasNoOpenTask
<1> QED  BY <1>1, AloneInvariance, PTL

\* Nor do the requests forget a timer: a token that waits at one keeps its
\* task, though advance saves the tokens it has loaded and cancel kills tasks.
THEOREM RequestsAloneKeepTasks ==
    ASSUME Alone
    PROVE  RoutesSpec => []WaitingTokenHasTask
<1>1. AloneInv => WaitingTokenHasTask
  BY DEF AloneInv, TokenView, WaitingTokenHasTask
<1> QED  BY <1>1, AloneInvariance, PTL

=============================================================================
