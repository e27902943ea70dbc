------------------------------ MODULE BpmEngine ------------------------------
(***************************************************************************)
(* BpmEngine::run_async of the bpm_engine_* crates, which are not part of  *)
(* the repository, as the code uses it: a call loads the instance through  *)
(* the process store, moves the token of the event, saves the instance and *)
(* creates a row in external_tasks for every timer node a token arrives    *)
(* at.  Each of these is a statement of its own, with no lock and no       *)
(* transaction around them, and a failing one ends the call silently       *)
(* ("run_async swallows errors", external_tasks.rs).                       *)
(*                                                                         *)
(* A definition is reduced to Flow: from a waiting node to the waiting     *)
(* nodes a token reaches next, through gateways and other nodes that do    *)
(* not wait.  Two successors are a parallel split, none is an end event.   *)
(***************************************************************************)
EXTENDS ExternalTaskStore, ProcessStore

CONSTANTS
    Procs,   \* who calls the engine: timer loops and request handlers
    NoId,
    Flow,    \* [Nodes -> SUBSET Nodes]
    First,   \* waiting nodes reached from the start event
    Timers,  \* nodes with an external task; at the others a user decides
    Stuck    \* nodes the engine cannot leave, e.g. no gateway edge matches

ASSUME NoIdAssumption == NoId \notin Ids
ASSUME FlowAssumption == /\ Flow \in [Nodes -> SUBSET Nodes]
                         /\ First \subseteq Nodes
                         /\ Timers \subseteq Nodes
                         /\ Stuck \subseteq Nodes

VARIABLES
    eng,     \* the engine call of each process
    used,    \* identifiers handed out so far
    fired    \* how often the transition of a token was saved (history)

engineVars == <<tasks, inst, tokens, eng, used, fired>>

Call == [pc   : {"off", "row", "tokens", "save", "create"},
         inst : Instances \cup {NoInstance},
         id   : Ids \cup {NoId},
         snap : Snapshot,
         made : SUBSET Ids]

NoCall == [pc |-> "off", inst |-> NoInstance, id |-> NoId,
           snap |-> NoSnapshot, made |-> {}]

Off(p) == eng[p].pc = "off"

\* run_async(UserTaskCompleted), run_async(ProcessStarted): the call begins.
CallCompleted(p, i, id) ==
    eng' = [eng EXCEPT ![p] = [NoCall EXCEPT !.pc = "row", !.inst = i, !.id = id]]

CallStarted(p, i) ==
    eng' = [eng EXCEPT ![p] = [NoCall EXCEPT !.pc = "save", !.inst = i]]

Return(p) == eng' = [eng EXCEPT ![p] = NoCall]

-----------------------------------------------------------------------------
EngineLoadRow(p) ==
    /\ eng[p].pc = "row"
    /\ IF InstanceRow(eng[p].inst) = "none"
       THEN Return(p)
       ELSE eng' = [eng EXCEPT ![p].pc = "tokens",
                               ![p].snap.state = InstanceRow(eng[p].inst)]
    /\ UNCHANGED <<tasks, inst, tokens, used, fired>>

\* The token the event is about, in the call's copy of the instance.
Movable(p, toks) ==
    {k \in toks : k.id = eng[p].id /\ k.status = "Waiting" /\ k.node \notin Stuck}

\* The engine moves a waiting token of a running instance; any other event
\* is an error, which it swallows.
EngineLoadTokens(p) ==
    LET toks == TokensOf(eng[p].inst) IN
    /\ eng[p].pc = "tokens"
    /\ IF eng[p].snap.state = "Running" /\ Movable(p, toks) # {}
       THEN eng' = [eng EXCEPT ![p].pc = "save", ![p].snap.toks = toks]
       ELSE Return(p)
    /\ UNCHANGED <<tasks, inst, tokens, used, fired>>

Fresh(f) ==
    /\ \A n \in DOMAIN f : f[n] \in Ids \ used
    /\ \A m, n \in DOMAIN f : f[m] = f[n] => m = n

Arrive(i, f) ==
    {[inst |-> i, id |-> f[n], node |-> n, status |-> "Waiting"] : n \in DOMAIN f}

\* Nodes the tokens arrive at, and the tokens that leave.
Targets(p) ==
    IF eng[p].id = NoId
    THEN First
    ELSE UNION {Flow[k.node] : k \in Movable(p, eng[p].snap.toks)}

\* The event's token leaves its node, tokens with fresh identifiers arrive
\* at the next ones; the instance is complete when none is left.
Moved(p, f) ==
    LET toks == (eng[p].snap.toks \ Movable(p, eng[p].snap.toks))
                  \cup Arrive(eng[p].inst, f) IN
    [state |-> IF toks = {} THEN "Completed" ELSE "Running", toks |-> toks]

EngineSave(p) ==
    /\ eng[p].pc = "save"
    /\ \E f \in [Targets(p) -> Ids \ used] :
         /\ Fresh(f)
         /\ Save(eng[p].inst, Moved(p, f))
         /\ used' = used \cup {f[n] : n \in Targets(p)}
         /\ eng' = [eng EXCEPT ![p].pc = "create",
                               ![p].snap = NoSnapshot,
                               ![p].made = {f[n] : n \in Targets(p) \cap Timers}]
    /\ fired' = [id \in Ids |-> IF id = eng[p].id THEN fired[id] + 1 ELSE fired[id]]
    /\ UNCHANGED tasks

\* store.create for one arrived token; the foreign key refuses it when the
\* instance is gone, which ends the call.
EngineCreate(p) ==
    /\ eng[p].pc = "create"
    /\ \E id \in eng[p].made :
         IF inst[eng[p].inst] = "none"
         THEN /\ Return(p)
              /\ UNCHANGED tasks
         ELSE /\ Create(id, eng[p].inst)
              /\ eng' = [eng EXCEPT ![p].made = @ \ {id}]
    /\ UNCHANGED <<inst, tokens, used, fired>>

EngineReturn(p) ==
    /\ eng[p].pc = "create"
    /\ eng[p].made = {}
    /\ Return(p)
    /\ UNCHANGED <<tasks, inst, tokens, used, fired>>

\* A failing statement ends the call; the caller is not told.
EngineError(p) ==
    /\ ~Off(p)
    /\ Return(p)
    /\ UNCHANGED <<tasks, inst, tokens, used, fired>>

EngineStep(p) ==
    \/ EngineLoadRow(p)
    \/ EngineLoadTokens(p)
    \/ EngineSave(p)
    \/ EngineCreate(p)
    \/ EngineReturn(p)

EngineTypeOK ==
    /\ TasksTypeOK
    /\ StoreTypeOK
    /\ eng \in [Procs -> Call]
    /\ used \subseteq Ids
    /\ fired \in [Ids -> Nat]
=============================================================================
