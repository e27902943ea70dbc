------------------------------ MODULE Decisions ------------------------------
(***************************************************************************)
(* A definition from its upload on, and an instance of it whose users      *)
(* answer what the instance page asks.  One token; the engine, which is    *)
(* not part of the repository, runs the definition that the definition     *)
(* store returns, with the decision tasks in it, and not the drawn one.    *)
(*                                                                         *)
(* The engine leaves tokens Waiting at start events and gateways it has    *)
(* passed (comment of pick_active_marker); left is where.                  *)
(***************************************************************************)
EXTENDS Definitions

CONSTANTS
    Candidates,     \* compiled definitions that users upload
    NoDefinition, NoNode, NoTask, Unset,
    AsF64,          \* the f64 nearest to a u64
    F64Exact,       \* 2^53: up to here that is the integer itself
    MaxDelay        \* seconds from now() that a timestamptz can still hold

ASSUME CandidatesAssumption == \A d \in Candidates : IsDefinition(d)

\* Nothing in the code reserves the suffix; the properties need that no drawn
\* id ends in it.
ASSUME SuffixAssumption ==
    \A d \in Candidates : \A n \in DOMAIN d.kind : ~EndsWithSuffix(n)
ASSUME NoDefinitionAssumption == NoDefinition \notin Candidates
ASSUME NoNodeAssumption == NoNode \notin NodeIds
ASSUME NoTaskAssumption == NoTask \notin Nat
ASSUME RoundingAssumption ==
    /\ F64Exact \in Nat
    /\ AsF64 \in [0 .. U64Max -> Nat]
    /\ \A n \in 0 .. U64Max : IF n <= F64Exact THEN AsF64[n] = n ELSE AsF64[n] >= F64Exact

\* A timestamptz ends after about 2^43 seconds.
ASSUME DatabaseAssumption == MaxDelay \in Nat /\ MaxDelay < F64Exact

VARIABLES
    stored,      \* the row of processes
    state,       \* of the instance
    at,          \* the node its token is at
    left,        \* nodes with a token that the engine left Waiting
    variables,   \* of the instance
    delay        \* seconds until the token's external task is due

decisionVars == <<stored, state, at, left, variables, delay>>

NoVariables == [k \in Keys |-> Unset]

Init ==
    /\ stored = NoDefinition
    /\ state = "none"
    /\ at = NoNode
    /\ left = {}
    /\ variables = NoVariables
    /\ delay = NoTask

\* ProcessDefinitionStore::load, by the engine and by the page.
Loaded == InsertDecisionTasks(stored)

Kind(n) == Loaded.kind[n]

Upload ==
    /\ stored = NoDefinition
    /\ \E d \in Candidates : ValidDefinition(d) /\ stored' = d
    /\ UNCHANGED <<state, at, left, variables, delay>>

Start ==
    /\ stored # NoDefinition
    /\ state # "Running"
    /\ state' = "Running"
    /\ at' \in OfKind(Loaded, "Start")
    /\ left' = {}
    /\ variables' = NoVariables
    /\ delay' = NoTask
    /\ UNCHANGED stored

\* Mutant: the seconds are put into the range of the database.
CreateDelayCapped(t) ==
    IF BadTimer(t) THEN NoTask
    ELSE IF ~IsTimer(t) THEN 0
    ELSE LET secs == AsF64[Duration(t)] IN IF secs <= MaxDelay THEN secs ELSE MaxDelay

\* create: a timer is due after its duration, rounded to an f64, any other
\* task at once.  A bad timer is an error, and so is a time that
\* now() + make_interval cannot hold; the engine swallows both, and the token
\* has no task.
CreateDelay(t) ==
    IF BadTimer(t) THEN NoTask
    ELSE IF ~IsTimer(t) THEN 0
    ELSE LET secs == AsF64[Duration(t)] IN IF secs <= MaxDelay THEN secs ELSE NoTask

\* The token moves along e; at a service task the engine creates its task.
Move(e) ==
    /\ at' = e.to
    /\ delay' = IF Kind(e.to) = "ExternalTask" THEN CreateDelay(Loaded.type[e.to])
                                               ELSE NoTask
    /\ UNCHANGED <<stored, state>>

LeaveStart ==
    /\ state = "Running"
    /\ Kind(at) = "Start"
    /\ \E e \in Out(Loaded, at) : Move(e)
    /\ left' = left \cup {at}
    /\ UNCHANGED variables

\* The form has a select for every key, with the values to choose from.
Answers(n) ==
    {f \in [ChoiceKeys(Loaded, n) -> Values] :
        \A k \in DOMAIN f : [key |-> k, value |-> f[k]] \in GatewayChoices(Loaded, n)}

Advance ==
    /\ state = "Running"
    /\ Kind(at) = "UserTask"
    /\ ~Unanswerable(Loaded, at)
    /\ \E f \in Answers(at) :
         variables' = [k \in Keys |-> IF k \in DOMAIN f THEN f[k] ELSE variables[k]]
    /\ \E e \in Out(Loaded, at) : Move(e)
    /\ UNCHANGED left

\* Edges an exclusive gateway may take: one that is unconditional or whose
\* condition holds, else the default.
Takes(g) ==
    LET Holds(c) == c \in Conditions /\ variables[c.key] = c.value
        matching == {e \in Out(Loaded, g) : e.cond = Unconditional \/ Holds(e.cond)}
    IN  IF matching # {} THEN matching
                         ELSE {e \in Out(Loaded, g) : e.cond = Default}

Route ==
    /\ state = "Running"
    /\ Kind(at) = "ExclusiveGateway"
    /\ \E e \in Takes(at) : Move(e)
    /\ left' = left \cup {at}
    /\ UNCHANGED variables

CompleteTask ==
    /\ state = "Running"
    /\ Kind(at) = "ExternalTask"
    /\ delay # NoTask
    /\ \E e \in Out(Loaded, at) : Move(e)
    /\ UNCHANGED <<left, variables>>

Complete ==
    /\ state = "Running"
    /\ Kind(at) = "End"
    /\ state' = "Completed"
    /\ at' = NoNode
    /\ UNCHANGED <<stored, left, variables, delay>>

\* Mutant: the tokens are left as they are.
CancelStateOnly ==
    /\ state = "Running"
    /\ state' = "Terminated"
    /\ UNCHANGED <<stored, at, left, variables, delay>>

\* cancel_instance marks every token Terminated.
Cancel ==
    /\ state = "Running"
    /\ state' = "Terminated"
    /\ at' = NoNode
    /\ left' = {}
    /\ delay' = NoTask
    /\ UNCHANGED <<stored, variables>>

Next ==
    \/ Upload
    \/ Start
    \/ LeaveStart
    \/ Advance
    \/ Route
    \/ CompleteTask
    \/ Complete
    \/ Cancel

Spec == Init /\ [][Next]_decisionVars

-----------------------------------------------------------------------------
DecisionsTypeOK ==
    /\ stored \in Candidates \cup {NoDefinition}
    /\ state \in {"none", "Running", "Completed", "Terminated"}
    /\ stored = NoDefinition => state = "none"
    /\ IF state = "Running" THEN at \in DOMAIN Loaded.kind ELSE at = NoNode
    /\ left \subseteq NodeIds
    /\ variables \in [Keys -> Values \cup {Unset}]
    /\ delay \in Nat \cup {NoTask}

\* Gateways of a definition that need an answer.
Asking(d) ==
    {g \in OfKind(d, "ExclusiveGateway") :
        \E e \in Out(d, g) : e.cond \in Conditions \cup {Malformed}}

Offered(d, g) == {e.cond : e \in Out(d, g)} \cap Conditions

\* Wherever a token is, the only edge to a gateway that branches on variables
\* is that of this gateway's own decision task, also when the token is at
\* another such gateway or at this one (insert_decision_tasks).
EnteredByDecision ==
    state = "Running" =>
        \A e \in Out(Loaded, at) : e.to \in Asking(stored) => at = Decide(e.to)

\* When a token is at such a gateway, each of its variables has a value that
\* one of its own conditions names, and some edge can be taken: nothing the
\* page offers leads to a gateway that the engine cannot leave.
AnsweredDecision ==
    state = "Running" /\ at \in Asking(stored) =>
        /\ Takes(at) # {}
        /\ \A c \in Offered(stored, at) :
             [key |-> c.key, value |-> variables[c.key]] \in Offered(stored, at)

\* The page of a decision task asks for the variables of its gateway and no
\* others, the page of a drawn user task asks for nothing: no question comes
\* early or twice, although gateway_choices_after walks through gateways.
AsksItsOwnGateway ==
    state = "Running" /\ Kind(at) = "UserTask" =>
        /\ GatewayChoices(Loaded, at) =
             IF EndsWithSuffix(at) THEN Offered(stored, StripSuffix(at)) ELSE {}
        /\ Unanswerable(Loaded, at) => EndsWithSuffix(at)

\* While a token waits for a user or a task, the one marked node is where it
\* waits in the diagram as drawn; stale tokens at starts and gateways never
\* attract the marker, and it never names a node the diagram does not have.
MarkerFits ==
    LET markers == ActiveMarkers(Loaded, state, left \cup {at}) IN
    state # "none" =>
        /\ markers \subseteq DOMAIN stored.kind
        /\ state = "Running" =>
             markers = IF Kind(at) \in {"UserTask", "ExternalTask"}
                       THEN {StripSuffix(at)} ELSE {}

\* When a token waits at a service task, its task is due after exactly the
\* time drawn: neither parse_duration, the conversion to f64 nor the database
\* makes it zero, wraps it around or moves it.  Of what validate_definition
\* accepts, only a time that the database cannot hold leaves a token without
\* its task.
TaskDueAsDrawn ==
    state = "Running" /\ Kind(at) = "ExternalTask" =>
        LET t == stored.type[at] IN
        /\ t.form # "default"
        /\ CASE ~IsTimer(t) -> delay = 0
             [] IsTimer(t) /\ delay = NoTask -> t.n > MaxDelay \div SecondsPer[t.unit]
             [] OTHER -> /\ delay \in 1 .. MaxDelay
                         /\ delay % SecondsPer[t.unit] = 0
                         /\ delay \div SecondsPer[t.unit] = t.n

Drawn == INSTANCE Diagram WITH place <- IF at = NoNode THEN NoNode ELSE StripSuffix(at)

\* With the decision tasks taken for their gateways, an instance follows the
\* diagram as drawn, arrow by arrow.
FollowsDiagram == Drawn!FollowsArrows
=============================================================================
