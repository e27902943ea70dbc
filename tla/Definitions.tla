----------------------------- MODULE Definitions -----------------------------
(***************************************************************************)
(* Process definitions and what the program makes of them:                 *)
(* engine_def_store.rs inserts a decision task before every gateway that   *)
(* branches on a variable, timer.rs checks the types of service tasks,     *)
(* routes/process/mod.rs finds out what a page must ask and which node to  *)
(* mark.  Pure operators; Decisions runs them.                             *)
(*                                                                         *)
(* A node id is a name with a number of suffixes "__decide".  The order of *)
(* a node's edges is left out: where the first matching one is taken, any  *)
(* matching one may be.                                                    *)
(***************************************************************************)
EXTENDS Integers, FiniteSets

CONSTANTS
    Names,
    Keys, Values,    \* of process variables
    Unconditional,   \* an edge without a condition
    Default,         \* EdgeCondition::Default
    Malformed,       \* an expression that is not key == "value"
    U64Max           \* u64::MAX, scaled down for TLC

ASSUME ConditionAssumption ==
    /\ {Unconditional, Default, Malformed} \cap [key : Keys, value : Values] = {}
    /\ Malformed \notin {Unconditional, Default}
ASSUME WidthAssumption == U64Max \in Nat

NodeIds == [name : Names, suffixes : Nat]

Decide(g) == [name |-> g.name, suffixes |-> g.suffixes + 1]

EndsWithSuffix(n) == n.suffixes > 0

StripSuffix(n) ==
    IF EndsWithSuffix(n) THEN [name |-> n.name, suffixes |-> n.suffixes - 1] ELSE n

Kinds == {"Start", "End", "UserTask", "ExternalTask", "ExclusiveGateway"}

Conditions == [key : Keys, value : Values]

Edges == [from : NodeIds, to : NodeIds,
          cond : Conditions \cup {Unconditional, Default, Malformed}]

\* A compiled definition: its nodes with their kinds, its edges, and the task
\* types of its service tasks.
IsDefinition(d) ==
    /\ DOMAIN d.kind \subseteq NodeIds
    /\ \A n \in DOMAIN d.kind : d.kind[n] \in Kinds
    /\ d.edges \subseteq Edges
    /\ \A e \in d.edges : {e.from, e.to} \subseteq DOMAIN d.kind
    /\ \A n \in DOMAIN d.kind : d.kind[n] = "ExternalTask" => n \in DOMAIN d.type

OfKind(d, k) == {n \in DOMAIN d.kind : d.kind[n] = k}

Out(d, n) == {e \in d.edges : e.from = n}

-----------------------------------------------------------------------------
\* Gateways that branch on a variable: some edge has a condition other than
\* the default's.
Deciding(d) ==
    {g \in OfKind(d, "ExclusiveGateway") :
        \E e \in Out(d, g) : e.cond \notin {Unconditional, Default}}

\* Mutants: a gateway's edge to itself is forgotten; edges between gateways
\* are; all edges go to the decision task of one gateway.
RedirectNoLoop(e, gates) ==
    IF e.to \in gates /\ e.from # e.to /\ ~EndsWithSuffix(e.from)
    THEN [e EXCEPT !.to = Decide(@)]
    ELSE e

RedirectFromTasks(e, gates) ==
    IF e.to \in gates /\ e.from \notin gates /\ ~EndsWithSuffix(e.from)
    THEN [e EXCEPT !.to = Decide(@)]
    ELSE e

RedirectToOne(e, gates) ==
    IF e.to \in gates /\ ~EndsWithSuffix(e.from)
    THEN [e EXCEPT !.to = Decide(CHOOSE g \in gates : TRUE)]
    ELSE e

\* Edges into a gateway of gates lead to its decision task instead, unless
\* they come from a decision task.
Redirect(e, gates) ==
    IF e.to \in gates /\ ~EndsWithSuffix(e.from)
    THEN [e EXCEPT !.to = Decide(@)]
    ELSE e

DecisionEdge(g) == [from |-> Decide(g), to |-> g, cond |-> Unconditional]

\* An inserted task replaces a node of the same id, edges included.
InsertDecisionTasks(d) ==
    LET gates == Deciding(d)
        decisions == {Decide(g) : g \in gates}
    IN  [kind  |-> [n \in DOMAIN d.kind \cup decisions |->
                      IF n \in decisions THEN "UserTask" ELSE d.kind[n]],
         type  |-> d.type,
         edges |-> {Redirect(e, gates) : e \in {f \in d.edges : f.from \notin decisions}}
                     \cup {DecisionEdge(g) : g \in gates}]

-----------------------------------------------------------------------------
(***************************************************************************)
(* A task type: "default" when the diagram names none, "timer:<n><unit>",  *)
(* or the topic of a worker.  n = -1 stands for digits that do not parse.  *)
(***************************************************************************)
SecondsPer == [s |-> 1, m |-> 60, h |-> 3600, d |-> 86400]

IsTimer(t) == t.form = "timer"

\* Mutant: a duration of zero is accepted.
ParsesZero(t) ==
    /\ t.unit \in DOMAIN SecondsPer
    /\ t.n \in 0 .. U64Max
    /\ t.n * SecondsPer[t.unit] <= U64Max

\* parse_duration returns None for any other.
Parses(t) ==
    /\ t.unit \in DOMAIN SecondsPer
    /\ t.n \in 1 .. U64Max
    /\ t.n * SecondsPer[t.unit] <= U64Max

Duration(t) == t.n * SecondsPer[t.unit]

BadTimer(t) == IsTimer(t) /\ ~Parses(t)

ValidDefinition(d) ==
    \A n \in OfKind(d, "ExternalTask") :
        d.type[n].form # "default" /\ ~BadTimer(d.type[n])

-----------------------------------------------------------------------------
\* Mutant: the walk goes on behind nodes that are not gateways.
VisitedAll(d, from) ==
    LET Reach(n) == {e.to : e \in Out(d, n)}
        closed == {S \in SUBSET DOMAIN d.kind : \A n \in {from} \cup S : Reach(n) \subseteq S}
    IN  {n \in DOMAIN d.kind : \A S \in closed : n \in S}

\* What a walk that started at from has behind it when it can go no further:
\* with a gateway, all that follows the gateway.
WalkedOut(d, from) ==
    LET Reach(n) == {e.to : e \in Out(d, n)}
    IN  {S \in SUBSET DOMAIN d.kind :
            \A n \in {from} \cup (S \cap OfKind(d, "ExclusiveGateway")) : Reach(n) \subseteq S}

\* Nodes that gateway_choices_after visits: what follows from, what follows an
\* exclusive gateway visited before, and no others.
Visited(d, from) == {n \in DOMAIN d.kind : \A S \in WalkedOut(d, from) : n \in S}

\* Conditions, the default's left out, on edges of the gateways visited.
Met(d, from) ==
    {e.cond : e \in UNION {Out(d, g) : g \in Visited(d, from)
                                            \cap OfKind(d, "ExclusiveGateway")}}
       \ {Unconditional, Default}

\* gateway_choices_after returns Err, and the page cannot be shown.
Unanswerable(d, from) == Malformed \in Met(d, from)

\* What it returns otherwise: a list of values for each key.
GatewayChoices(d, from) == Met(d, from) \ {Malformed}

ChoiceKeys(d, from) == {c.key : c \in GatewayChoices(d, from)}

-----------------------------------------------------------------------------
\* Mutant: the marker names the decision task.
MarkersUnstripped(d, state, waiting) ==
    CASE state = "Completed"  -> OfKind(d, "End")
      [] state = "Running"    ->
           waiting \cap (OfKind(d, "UserTask") \cup OfKind(d, "ExternalTask"))
      [] OTHER -> {}

\* The node pick_active_marker may choose, none or one of several, for an
\* instance with tokens Waiting at the given nodes.
ActiveMarkers(d, state, waiting) ==
    CASE state = "Completed"  -> OfKind(d, "End")
      [] state = "Running"    ->
           {StripSuffix(n) : n \in waiting
               \cap (OfKind(d, "UserTask") \cup OfKind(d, "ExternalTask"))}
      [] OTHER -> {}
=============================================================================
