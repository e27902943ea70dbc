--------------------------- MODULE DecisionsProofs ---------------------------
(***************************************************************************)
(* Theorems about Decisions for every set of definitions whose node ids do *)
(* not end in the suffix of decision tasks: no token enters a gateway that *)
(* branches but from its decision task, an instance follows the diagram as *)
(* drawn, the questions of a page are those of the gateway that comes next *)
(* and its answers leave it a way, the marker shows where the token waits, *)
(* and an accepted timer is due when drawn, or later than the database can *)
(* hold.                                                                   *)
(***************************************************************************)
EXTENDS Decisions, TLAPS

\* What candidates are known to be.
Plain(d) == IsDefinition(d) /\ \A n \in DOMAIN d.kind : ~EndsWithSuffix(n)

LEMMA CandidatesArePlain == \A d \in Candidates : Plain(d)
BY CandidatesAssumption, SuffixAssumption DEF Plain

-----------------------------------------------------------------------------
\* Ids: a suffix put on can be taken off, and makes an id no drawn one has.
LEMMA SuffixFacts ==
    ASSUME NEW n \in NodeIds
    PROVE  /\ Decide(n) \in NodeIds
           /\ EndsWithSuffix(Decide(n))
           /\ StripSuffix(Decide(n)) = n
           /\ ~EndsWithSuffix(n) => StripSuffix(n) = n
<1>1. n = [name |-> n.name, suffixes |-> n.suffixes] /\ n.suffixes \in Nat /\ n.name \in Names
  BY DEF NodeIds
<1>2. Decide(n) \in NodeIds /\ EndsWithSuffix(Decide(n))
  BY <1>1 DEF NodeIds, Decide, EndsWithSuffix
<1>3. StripSuffix(Decide(n)) = [name |-> n.name, suffixes |-> n.suffixes + 1 - 1]
  BY <1>1 DEF StripSuffix, EndsWithSuffix, Decide
<1> QED
  BY <1>1, <1>2, <1>3 DEF StripSuffix

LEMMA DecisionsAreNew ==
    ASSUME NEW d, Plain(d), NEW g \in Deciding(d)
    PROVE  /\ g \in DOMAIN d.kind /\ g \in NodeIds
           /\ Decide(g) \notin DOMAIN d.kind
<1>1. g \in DOMAIN d.kind /\ g \in NodeIds
  BY DEF Plain, IsDefinition, Deciding, OfKind
<1>2. EndsWithSuffix(Decide(g))
  BY <1>1, SuffixFacts
<1> QED
  BY <1>1, <1>2 DEF Plain

\* Nodes of the definition with its decision tasks: those drawn, of the same
\* kind, and the decision tasks, which are user tasks.
LEMMA NodesOfInserted ==
    ASSUME NEW d, Plain(d), NEW n \in DOMAIN InsertDecisionTasks(d).kind
    PROVE  LET kind == InsertDecisionTasks(d).kind IN
           /\ n \in NodeIds
           /\ \/ n \in DOMAIN d.kind /\ ~EndsWithSuffix(n) /\ kind[n] = d.kind[n]
              \/ \E g \in Deciding(d) : n = Decide(g) /\ EndsWithSuffix(n)
                                                   /\ kind[n] = "UserTask"
<1> DEFINE decisions == {Decide(g) : g \in Deciding(d)}
           loaded == InsertDecisionTasks(d)
<1>1. loaded.kind = [m \in DOMAIN d.kind \cup decisions |->
                       IF m \in decisions THEN "UserTask" ELSE d.kind[m]]
  BY DEF InsertDecisionTasks
<1>2. CASE n \in decisions
  <2>1. PICK g \in Deciding(d) : n = Decide(g)
    BY <1>2
  <2>2. g \in NodeIds
    BY DecisionsAreNew
  <2> QED
    BY <1>1, <1>2, <2>1, <2>2, SuffixFacts
<1>3. CASE n \notin decisions
  <2>1. n \in DOMAIN d.kind /\ loaded.kind[n] = d.kind[n]
    BY <1>1, <1>3
  <2> QED
    BY <2>1 DEF Plain, IsDefinition
<1> QED
  BY <1>2, <1>3

\* Drawn nodes are all there.
LEMMA DrawnNodesKept ==
    ASSUME NEW d, Plain(d)
    PROVE  /\ DOMAIN d.kind \subseteq DOMAIN InsertDecisionTasks(d).kind
           /\ \A g \in Deciding(d) : Decide(g) \in DOMAIN InsertDecisionTasks(d).kind
BY DEF InsertDecisionTasks

\* Edges of it: from a decision task to its gateway; or a drawn edge, led to
\* the gateway's decision task if it enters one that branches.
LEMMA EdgesOfInserted ==
    ASSUME NEW d, Plain(d), NEW e \in InsertDecisionTasks(d).edges
    PROVE  \/ e.to \in Deciding(d) /\ e.from = Decide(e.to)
           \/ /\ ~EndsWithSuffix(e.from)
              /\ \E f \in d.edges :
                   /\ e.from = f.from
                   /\ IF f.to \in Deciding(d) THEN e.to = Decide(f.to) ELSE e.to = f.to
<1> DEFINE gates == Deciding(d)
           decisions == {Decide(g) : g \in gates}
           kept == {f \in d.edges : f.from \notin decisions}
<1>1. \/ \E g \in gates : e = DecisionEdge(g)
      \/ \E f \in kept : e = Redirect(f, gates)
  BY DEF InsertDecisionTasks
<1>2. CASE \E g \in gates : e = DecisionEdge(g)
  BY <1>2 DEF DecisionEdge
<1>3. ASSUME NEW f \in kept, e = Redirect(f, gates)
      PROVE  /\ ~EndsWithSuffix(e.from)
             /\ e.from = f.from
             /\ IF f.to \in gates THEN e.to = Decide(f.to) ELSE e.to = f.to
  <2>1. f \in Edges /\ f.from \in DOMAIN d.kind
    BY DEF Plain, IsDefinition
  <2>2. ~EndsWithSuffix(f.from)
    BY <2>1 DEF Plain
  <2> QED
    BY <1>3, <2>1, <2>2 DEF Redirect, Edges
<1> QED
  BY <1>1, <1>2, <1>3

-----------------------------------------------------------------------------
\* What a gateway asks for is what insert_decision_tasks takes for deciding.
LEMMA AskingIsDeciding ==
    ASSUME NEW d, Plain(d)
    PROVE  Asking(d) = Deciding(d)
<1>1. \A g, e : e \in Out(d, g) => e.cond \in Conditions \cup {Unconditional, Default, Malformed}
  BY DEF Out, Plain, IsDefinition, Edges
<1>2. Unconditional \notin Conditions /\ Default \notin Conditions
  BY ConditionAssumption DEF Conditions
<1>3. Malformed \notin {Unconditional, Default}
  BY ConditionAssumption
<1> QED
  BY <1>1, <1>2, <1>3 DEF Asking, Deciding

\* The target of an edge is a node of the definition.
LEMMA TargetsInserted ==
    ASSUME NEW d, Plain(d), NEW e \in InsertDecisionTasks(d).edges
    PROVE  e.to \in DOMAIN InsertDecisionTasks(d).kind
<1>1. CASE e.to \in Deciding(d)
  BY <1>1, DecisionsAreNew, DrawnNodesKept
<1>2. ASSUME NEW f \in d.edges,
             IF f.to \in Deciding(d) THEN e.to = Decide(f.to) ELSE e.to = f.to
      PROVE  e.to \in DOMAIN InsertDecisionTasks(d).kind
  <2>1. f.to \in DOMAIN d.kind
    BY DEF Plain, IsDefinition
  <2> QED
    BY <1>2, <2>1, DrawnNodesKept
<1> QED
  BY <1>1, <1>2, EdgesOfInserted

\* A duration in u64 has an f64, itself if the database can hold it.
LEMMA Rounding ==
    ASSUME NEW n \in 0 .. U64Max
    PROVE  /\ AsF64[n] \in Nat
           /\ AsF64[n] <= MaxDelay => AsF64[n] = n
           /\ AsF64[n] > MaxDelay => n > MaxDelay
<1>1. n \in Nat /\ AsF64[n] \in Nat
  BY RoundingAssumption, WidthAssumption
<1>2. IF n <= F64Exact THEN AsF64[n] = n ELSE AsF64[n] >= F64Exact
  BY RoundingAssumption
<1> QED
  BY <1>1, <1>2, RoundingAssumption, DatabaseAssumption

\* What parse_duration accepts does not wrap: the units divide it.
LEMMA DurationOfParsed ==
    ASSUME NEW t, Parses(t)
    PROVE  /\ Duration(t) \in 1 .. U64Max
           /\ Duration(t) % SecondsPer[t.unit] = 0
           /\ Duration(t) \div SecondsPer[t.unit] = t.n
           /\ Duration(t) > MaxDelay => t.n > MaxDelay \div SecondsPer[t.unit]
<1>1. t.n \in Nat \ {0} /\ U64Max \in Nat /\ Duration(t) = t.n * SecondsPer[t.unit]
        /\ Duration(t) <= U64Max /\ MaxDelay \in Nat
  BY WidthAssumption, DatabaseAssumption DEF Parses, Duration
<1>2. CASE t.unit = "s"
  BY <1>1, <1>2 DEF SecondsPer
<1>3. CASE t.unit = "m"
  BY <1>1, <1>3 DEF SecondsPer
<1>4. CASE t.unit = "h"
  BY <1>1, <1>4 DEF SecondsPer
<1>5. CASE t.unit = "d"
  BY <1>1, <1>5 DEF SecondsPer
<1> QED
  BY <1>2, <1>3, <1>4, <1>5 DEF Parses, SecondsPer

\* create has a delay for every task type, or no task.
LEMMA DelayType ==
    ASSUME NEW t
    PROVE  CreateDelay(t) \in Nat \cup {NoTask}
<1>1. CASE Parses(t)
  <2>1. Duration(t) \in 0 .. U64Max
    BY <1>1, DurationOfParsed, WidthAssumption
  <2>2. AsF64[Duration(t)] \in Nat
    BY <2>1, Rounding
  <2> QED
    BY <2>2 DEF CreateDelay
<1>2. CASE ~Parses(t)
  BY <1>2 DEF CreateDelay, BadTimer
<1> QED
  BY <1>1, <1>2

-----------------------------------------------------------------------------
\* A running instance is one of a candidate, and its token is at a node.
LEMMA RunningFacts ==
    ASSUME DecisionsTypeOK, state = "Running"
    PROVE  /\ stored \in Candidates
           /\ Plain(stored)
           /\ at \in DOMAIN Loaded.kind
           /\ at \in NodeIds
<1>1. stored \in Candidates /\ at \in DOMAIN Loaded.kind
  BY DEF DecisionsTypeOK
<1>2. Plain(stored)
  BY <1>1, CandidatesArePlain
<1> QED
  BY <1>1, <1>2, NodesOfInserted DEF Loaded

\* One move of the token, along an edge of the loaded definition.
LEMMA MoveType ==
    ASSUME DecisionsTypeOK, state = "Running",
           NEW e \in Out(Loaded, at), Move(e),
           left' \subseteq NodeIds,
           variables' \in [Keys -> Values \cup {Unset}]
    PROVE  DecisionsTypeOK'
<1>1. /\ stored' = stored
      /\ state' = state
      /\ at' = e.to
      /\ e \in Loaded.edges
  BY DEF Move, Out
<1>2. e.to \in DOMAIN Loaded.kind
  BY <1>1, RunningFacts, TargetsInserted DEF Loaded
<1>3. Loaded' = Loaded
  BY <1>1 DEF Loaded
<1>4. delay' \in Nat \cup {NoTask}
  BY DelayType DEF Move
<1> QED
  BY <1>1, <1>2, <1>3, <1>4 DEF DecisionsTypeOK

\* Every action preserves the types.
LEMMA DecisionsTypeStep ==
    ASSUME DecisionsTypeOK, [Next]_decisionVars
    PROVE  DecisionsTypeOK'
<1>1. CASE Upload
  <2>1. stored' \in Candidates /\ stored = NoDefinition
    BY <1>1 DEF Upload
  <2> QED
    BY <1>1, <2>1 DEF Upload, DecisionsTypeOK
<1>2. CASE Start
  <2>1. at' \in DOMAIN Loaded.kind /\ Loaded' = Loaded
    BY <1>2 DEF Start, OfKind, Loaded
  <2>2. variables' \in [Keys -> Values \cup {Unset}]
    BY <1>2 DEF Start, NoVariables
  <2> QED
    BY <1>2, <2>1, <2>2 DEF Start, DecisionsTypeOK
<1>3. CASE LeaveStart
  <2>1. left' \subseteq NodeIds /\ variables' = variables
    BY <1>3, RunningFacts DEF LeaveStart, DecisionsTypeOK
  <2> QED
    BY <1>3, <2>1, MoveType DEF LeaveStart, DecisionsTypeOK
<1>4. CASE Advance
  <2>1. PICK f \in Answers(at) :
          variables' = [k \in Keys |-> IF k \in DOMAIN f THEN f[k] ELSE variables[k]]
    BY <1>4 DEF Advance
  <2>2. f \in [ChoiceKeys(Loaded, at) -> Values]
    BY DEF Answers
  <2>3. variables' \in [Keys -> Values \cup {Unset}]
    BY <2>1, <2>2 DEF DecisionsTypeOK
  <2> QED
    BY <1>4, <2>3, MoveType DEF Advance, DecisionsTypeOK
<1>5. CASE Route
  <2>1. left' \subseteq NodeIds /\ variables' = variables
    BY <1>5, RunningFacts DEF Route, DecisionsTypeOK
  <2>2. Takes(at) \subseteq Out(Loaded, at)
    BY DEF Takes
  <2> QED
    BY <1>5, <2>1, <2>2, MoveType DEF Route, DecisionsTypeOK
<1>6. CASE CompleteTask
  BY <1>6, MoveType DEF CompleteTask, DecisionsTypeOK
<1>7. CASE Complete
  BY <1>7 DEF Complete, DecisionsTypeOK
<1>8. CASE Cancel
  BY <1>8 DEF Cancel, DecisionsTypeOK
<1>9. CASE UNCHANGED decisionVars
  BY <1>9 DEF decisionVars, DecisionsTypeOK, Loaded
<1> QED
  BY <1>1, <1>2, <1>3, <1>4, <1>5, <1>6, <1>7, <1>8, <1>9 DEF Next

\* Type correctness of an upload and the instances that follow it: a token is
\* always at a node of the loaded definition, whatever was inserted.
THEOREM DecisionsTypeCorrect == Spec => []DecisionsTypeOK
<1>1. Init => DecisionsTypeOK
  BY DEF Init, DecisionsTypeOK, NoVariables
<1> QED
  BY <1>1, DecisionsTypeStep, PTL DEF Spec

-----------------------------------------------------------------------------
\* For every definition, whatever its gateways and loops: an edge to a
\* deciding gateway comes from that gateway's decision task.
LEMMA OnlyDecisionsEnter ==
    ASSUME NEW d, Plain(d), NEW e \in InsertDecisionTasks(d).edges,
           e.to \in Deciding(d)
    PROVE  e.from = Decide(e.to)
<1>1. SUFFICES ASSUME NEW f \in d.edges,
                      IF f.to \in Deciding(d) THEN e.to = Decide(f.to) ELSE e.to = f.to
               PROVE  FALSE
  BY EdgesOfInserted
<1>2. CASE f.to \in Deciding(d)
  <2>1. e.to \in DOMAIN d.kind
    BY DecisionsAreNew
  <2> QED
    BY <1>1, <1>2, <2>1, DecisionsAreNew
<1> QED
  BY <1>1, <1>2

\* No instance of any definition reaches a gateway that branches without
\* passing this gateway's decision task.
THEOREM DecisionComesFirst == Spec => []EnteredByDecision
<1>1. DecisionsTypeOK => EnteredByDecision
  <2> SUFFICES ASSUME DecisionsTypeOK, state = "Running",
                      NEW e \in Out(Loaded, at), e.to \in Asking(stored)
               PROVE  at = Decide(e.to)
    BY DEF EnteredByDecision
  <2>1. Plain(stored)
    BY RunningFacts
  <2>2. e.from = at /\ e \in InsertDecisionTasks(stored).edges
    BY DEF Out, Loaded
  <2> QED
    BY <2>1, <2>2, AskingIsDeciding, OnlyDecisionsEnter
<1> QED
  BY <1>1, DecisionsTypeCorrect, PTL

-----------------------------------------------------------------------------
\* Seen on the drawn diagram, an edge of the loaded definition is a drawn one
\* or leads nowhere.
LEMMA EdgesSeenAsDrawn ==
    ASSUME NEW d, Plain(d), NEW e \in InsertDecisionTasks(d).edges
    PROVE  \/ StripSuffix(e.to) = StripSuffix(e.from)
           \/ \E f \in d.edges : f.from = StripSuffix(e.from) /\ f.to = StripSuffix(e.to)
<1>1. CASE e.to \in Deciding(d) /\ e.from = Decide(e.to)
  <2>1. e.to \in NodeIds /\ ~EndsWithSuffix(e.to)
    BY <1>1, DecisionsAreNew DEF Plain
  <2> QED
    BY <1>1, <2>1, SuffixFacts
<1>2. ASSUME ~EndsWithSuffix(e.from),
             NEW f \in d.edges, e.from = f.from,
             IF f.to \in Deciding(d) THEN e.to = Decide(f.to) ELSE e.to = f.to
      PROVE  f.from = StripSuffix(e.from) /\ f.to = StripSuffix(e.to)
  <2>1. /\ f.from \in NodeIds /\ f.to \in NodeIds
        /\ ~EndsWithSuffix(f.to)
    BY DEF Plain, IsDefinition
  <2>2. StripSuffix(f.from) = f.from /\ StripSuffix(f.to) = f.to
    BY <1>2, <2>1, SuffixFacts
  <2>3. StripSuffix(Decide(f.to)) = f.to
    BY <2>1, SuffixFacts
  <2> QED
    BY <1>2, <2>2, <2>3
<1> QED
  BY <1>1, <1>2, EdgesOfInserted

\* Starts and ends are the drawn ones.
LEMMA EventsAreDrawn ==
    ASSUME NEW d, Plain(d), NEW n \in DOMAIN InsertDecisionTasks(d).kind,
           InsertDecisionTasks(d).kind[n] \in {"Start", "End"}
    PROVE  /\ StripSuffix(n) = n
           /\ n \in DOMAIN d.kind
           /\ d.kind[n] = InsertDecisionTasks(d).kind[n]
BY NodesOfInserted, SuffixFacts

Place == IF at = NoNode THEN NoNode ELSE StripSuffix(at)

LEMMA RunningPlace ==
    ASSUME DecisionsTypeOK, state = "Running"
    PROVE  Place = StripSuffix(at)
BY RunningFacts, NoNodeAssumption DEF Place

\* A move is an arrow of the diagram, or no step at all.
LEMMA MoveFollows ==
    ASSUME DecisionsTypeOK, state = "Running",
           NEW e \in Out(Loaded, at), Move(e)
    PROVE  [Drawn!Walk]_(Drawn!diagramVars)
<1>1. Plain(stored) /\ e \in InsertDecisionTasks(stored).edges /\ e.from = at
  BY RunningFacts DEF Out, Loaded
<1>2. stored' = stored /\ state' = state /\ at' = e.to
  BY DEF Move
<1>3. e.to \in NodeIds
  BY <1>1, TargetsInserted, NodesOfInserted
<1>4. Place = StripSuffix(e.from) /\ Place' = StripSuffix(e.to)
  BY <1>1, <1>2, <1>3, RunningPlace, NoNodeAssumption DEF Place
<1>5. CASE StripSuffix(e.to) = StripSuffix(e.from)
  BY <1>2, <1>4, <1>5 DEF Drawn!diagramVars, Place
<1>6. CASE \E f \in stored.edges : f.from = StripSuffix(e.from) /\ f.to = StripSuffix(e.to)
  BY <1>2, <1>4, <1>6 DEF Drawn!Walk, Drawn!Follow, Place
<1> QED
  BY <1>1, <1>5, <1>6, EdgesSeenAsDrawn

\* Every step of an instance, with decision tasks, is a step of the diagram.
LEMMA StepFollows ==
    ASSUME DecisionsTypeOK, [Next]_decisionVars
    PROVE  [Drawn!Walk]_(Drawn!diagramVars)
<1>1. CASE Upload
  <2>1. stored' # NoDefinition
    BY <1>1, NoDefinitionAssumption DEF Upload
  <2> QED
    BY <1>1, <2>1 DEF Upload, Drawn!Walk, Drawn!Draw
<1>2. CASE Start
  <2>1. Plain(stored)
    BY <1>2, CandidatesArePlain DEF Start, DecisionsTypeOK
  <2>2. at' \in DOMAIN InsertDecisionTasks(stored).kind
          /\ InsertDecisionTasks(stored).kind[at'] = "Start"
    BY <1>2 DEF Start, OfKind, Loaded
  <2>3. StripSuffix(at') = at' /\ at' \in DOMAIN stored.kind /\ stored.kind[at'] = "Start"
    BY <2>1, <2>2, EventsAreDrawn
  <2>4. at' # NoNode
    BY <2>1, <2>2, NodesOfInserted, NoNodeAssumption
  <2> QED
    BY <1>2, <2>3, <2>4 DEF Start, Drawn!Walk, Drawn!Begin
<1>3. CASE LeaveStart
  BY <1>3, MoveFollows DEF LeaveStart
<1>4. CASE Advance
  BY <1>4, MoveFollows DEF Advance
<1>5. CASE Route
  <2>1. Takes(at) \subseteq Out(Loaded, at)
    BY DEF Takes
  <2> QED
    BY <1>5, <2>1, MoveFollows DEF Route
<1>6. CASE CompleteTask
  BY <1>6, MoveFollows DEF CompleteTask
<1>7. CASE Complete
  <2>1. Plain(stored) /\ at \in DOMAIN InsertDecisionTasks(stored).kind
          /\ InsertDecisionTasks(stored).kind[at] = "End"
    BY <1>7, RunningFacts DEF Complete, Kind, Loaded
  <2>2. Place = at /\ stored.kind[at] = "End"
    BY <1>7, <2>1, EventsAreDrawn, RunningPlace DEF Complete
  <2> QED
    BY <1>7, <2>2 DEF Complete, Drawn!Walk, Drawn!Finish, Place
<1>8. CASE Cancel
  BY <1>8 DEF Cancel, Drawn!Walk, Drawn!GiveUp
<1>9. CASE UNCHANGED decisionVars
  BY <1>9 DEF decisionVars, Drawn!diagramVars
<1> QED
  BY <1>1, <1>2, <1>3, <1>4, <1>5, <1>6, <1>7, <1>8, <1>9 DEF Next

\* The loaded definition implements the drawn one: with decision tasks taken
\* for their gateways, an instance only follows arrows of the diagram, begins
\* at its start events and completes at its end events.
THEOREM InstancesFollowDiagram == Spec => FollowsDiagram
<1>1. Init => Drawn!Blank
  BY DEF Init, Drawn!Blank
<1> QED
  BY <1>1, StepFollows, DecisionsTypeCorrect, PTL DEF Spec, FollowsDiagram, Drawn!FollowsArrows
-----------------------------------------------------------------------------
(***************************************************************************)
(* What an instance carries along: its definition passed validation, the   *)
(* task of a token at a service task is the one create made for its type,  *)
(* and the tokens the engine leaves behind are at start events and         *)
(* gateways only.                                                          *)
(***************************************************************************)
Accepted == stored # NoDefinition => ValidDefinition(stored)

TaskDue ==
    state = "Running" /\ Kind(at) = "ExternalTask" => delay = CreateDelay(stored.type[at])

Passed(d) == {n \in DOMAIN d.kind : d.kind[n] \in {"Start", "ExclusiveGateway"}}

LeftBehind == IF stored = NoDefinition THEN left = {} ELSE left \subseteq Passed(stored)

DecisionsInv == DecisionsTypeOK /\ Accepted /\ TaskDue /\ LeftBehind

LEMMA TypesKept == ASSUME NEW d PROVE InsertDecisionTasks(d).type = d.type
BY DEF InsertDecisionTasks

\* Nodes of the loaded definition that are no user tasks are drawn ones.
LEMMA OthersAreDrawn ==
    ASSUME NEW d, Plain(d), NEW n \in DOMAIN InsertDecisionTasks(d).kind,
           InsertDecisionTasks(d).kind[n] # "UserTask"
    PROVE  /\ n \in DOMAIN d.kind
           /\ d.kind[n] = InsertDecisionTasks(d).kind[n]
           /\ ~EndsWithSuffix(n)
BY NodesOfInserted

LEMMA MoveTask ==
    ASSUME NEW e, Move(e)
    PROVE  TaskDue'
<1>1. /\ stored' = stored /\ at' = e.to
      /\ delay' = IF Kind(e.to) = "ExternalTask" THEN CreateDelay(Loaded.type[e.to])
                                                 ELSE NoTask
  BY DEF Move
<1>2. Kind(at)' = Kind(e.to)
  BY <1>1 DEF Kind, Loaded
<1>3. Loaded.type = stored.type
  BY TypesKept DEF Loaded
<1>4. Kind(e.to) = "ExternalTask" => delay' = CreateDelay(stored'.type[at'])
  BY <1>1, <1>3
<1> QED
  BY <1>2, <1>4 DEF TaskDue

LEMMA DecisionsInvStep ==
    ASSUME DecisionsInv, [Next]_decisionVars
    PROVE  DecisionsInv'
<1>1. DecisionsTypeOK /\ DecisionsTypeOK'
  BY DecisionsTypeStep DEF DecisionsInv
<1>2. Accepted'
  <2>1. CASE Upload
    BY <2>1 DEF Upload, Accepted
  <2>2. CASE ~Upload
    <3>1. stored' = stored
      BY <2>2 DEF Next, Start, LeaveStart, Advance, Route, CompleteTask, Complete, Cancel,
                  Move, decisionVars
    <3> QED  BY <3>1 DEF DecisionsInv, Accepted
  <2> QED  BY <2>1, <2>2
<1>3. TaskDue'
  <2>1. CASE LeaveStart \/ Advance \/ Route \/ CompleteTask
    <3>1. \E e : Move(e)
      BY <2>1 DEF LeaveStart, Advance, Route, CompleteTask
    <3> QED  BY <3>1, MoveTask
  <2>2. CASE Start
    <3>1. Kind(at)' = "Start"
      BY <2>2 DEF Start, OfKind, Kind, Loaded
    <3> QED  BY <3>1 DEF TaskDue
  <2>3. CASE Complete \/ Cancel
    BY <2>3 DEF Complete, Cancel, TaskDue
  <2>4. CASE Upload
    BY <1>1, <2>4 DEF Upload, TaskDue, DecisionsTypeOK
  <2>5. CASE UNCHANGED decisionVars
    BY <2>5 DEF decisionVars, TaskDue, DecisionsInv, Kind, Loaded
  <2> QED  BY <2>1, <2>2, <2>3, <2>4, <2>5 DEF Next
<1>4. LeftBehind'
  <2>1. CASE LeaveStart \/ Route
    <3>1. /\ state = "Running" /\ Kind(at) \in {"Start", "ExclusiveGateway"}
          /\ left' = left \cup {at} /\ stored' = stored
      BY <2>1 DEF LeaveStart, Route, Move
    <3>2. Plain(stored) /\ at \in DOMAIN InsertDecisionTasks(stored).kind
            /\ stored # NoDefinition
      BY <1>1, <3>1, RunningFacts, NoDefinitionAssumption DEF Loaded
    <3>3. at \in Passed(stored)
      BY <3>1, <3>2, OthersAreDrawn DEF Passed, Kind, Loaded
    <3> QED  BY <3>1, <3>2, <3>3 DEF LeftBehind, DecisionsInv
  <2>2. CASE Start \/ Cancel
    BY <2>2 DEF Start, Cancel, LeftBehind
  <2>3. CASE Upload
    BY <2>3 DEF Upload, LeftBehind, DecisionsInv
  <2>4. CASE Advance \/ CompleteTask \/ Complete \/ UNCHANGED decisionVars
    BY <2>4 DEF Advance, CompleteTask, Complete, Move, decisionVars, LeftBehind, DecisionsInv
  <2> QED  BY <2>1, <2>2, <2>3, <2>4 DEF Next
<1> QED
  BY <1>1, <1>2, <1>3, <1>4 DEF DecisionsInv

THEOREM DecisionsInvariance == Spec => []DecisionsInv
<1>1. Init => DecisionsInv
  BY DEF Init, DecisionsInv, DecisionsTypeOK, Accepted, TaskDue, LeftBehind, NoVariables
<1> QED
  BY <1>1, DecisionsInvStep, PTL DEF Spec

-----------------------------------------------------------------------------
\* A type that create does not refuse has a duration that fits, and the count
\* that was drawn can be read from it.
\* For every definition that validation accepts: the task of a token that
\* waits at a service task is due after exactly the time drawn, and only a time
\* that the database cannot hold leaves the token without one.
THEOREM TasksAreDueAsDrawn == Spec => []TaskDueAsDrawn
<1>1. DecisionsInv => TaskDueAsDrawn
  <2> SUFFICES ASSUME DecisionsInv, state = "Running", Kind(at) = "ExternalTask"
               PROVE  TaskDueAsDrawn
    BY DEF TaskDueAsDrawn
  <2>1. PICK t : t = stored.type[at]
    OBVIOUS
  <2>2. Plain(stored) /\ at \in DOMAIN InsertDecisionTasks(stored).kind
          /\ ValidDefinition(stored)
    BY RunningFacts, NoDefinitionAssumption DEF DecisionsInv, Accepted, Loaded
  <2>3. at \in OfKind(stored, "ExternalTask")
    BY <2>2, OthersAreDrawn DEF OfKind, Kind, Loaded
  <2>4. t.form # "default" /\ ~BadTimer(t) /\ delay = CreateDelay(t)
    BY <2>1, <2>2, <2>3 DEF ValidDefinition, DecisionsInv, TaskDue
  <2>5. CASE IsTimer(t)
    <3>1. Parses(t)
      BY <2>4, <2>5 DEF BadTimer
    <3>2. /\ Duration(t) \in 1 .. U64Max
          /\ Duration(t) % SecondsPer[t.unit] = 0
          /\ Duration(t) \div SecondsPer[t.unit] = t.n
          /\ Duration(t) > MaxDelay => t.n > MaxDelay \div SecondsPer[t.unit]
      BY <3>1, DurationOfParsed
    <3>3. Duration(t) \in 0 .. U64Max
      BY <3>2, WidthAssumption
    <3>4. CASE AsF64[Duration(t)] <= MaxDelay
      <4>1. delay = Duration(t)
        BY <2>4, <2>5, <3>3, <3>4, Rounding DEF CreateDelay
      <4>2. delay \in 1 .. MaxDelay /\ delay # NoTask
        BY <3>2, <3>3, <3>4, <4>1, Rounding, WidthAssumption, DatabaseAssumption, NoTaskAssumption
      <4> QED  BY <2>1, <2>4, <2>5, <3>2, <4>1, <4>2 DEF TaskDueAsDrawn
    <3>5. CASE ~(AsF64[Duration(t)] <= MaxDelay)
      <4>1. delay = NoTask
        BY <2>4, <2>5, <3>5 DEF CreateDelay
      <4>2. AsF64[Duration(t)] > MaxDelay
        BY <3>3, <3>5, Rounding, DatabaseAssumption
      <4>3. Duration(t) > MaxDelay
        BY <3>3, <4>2, Rounding
      <4> QED  BY <2>1, <2>4, <2>5, <3>2, <4>1, <4>3 DEF TaskDueAsDrawn
    <3> QED  BY <3>4, <3>5
  <2>6. CASE ~IsTimer(t)
    <3>1. delay = 0
      BY <2>4, <2>6 DEF CreateDelay
    <3> QED  BY <2>1, <2>4, <2>6, <3>1 DEF TaskDueAsDrawn
  <2> QED  BY <2>5, <2>6
<1> QED
  BY <1>1, DecisionsInvariance, PTL

\* Whatever tokens the engine leaves behind, the page of a running instance
\* marks the drawn node where the token waits, and nothing between two waits;
\* no marker ever names a node that the diagram does not have.
THEOREM MarkerShowsTheWait == Spec => []MarkerFits
<1>1. DecisionsInv => MarkerFits
  <2> SUFFICES ASSUME DecisionsInv, state # "none"
               PROVE  MarkerFits
    BY DEF MarkerFits
  <2>1. /\ stored \in Candidates /\ Plain(stored) /\ stored # NoDefinition
        /\ state \in {"Running", "Completed", "Terminated"}
        /\ left \subseteq Passed(stored)
    BY CandidatesArePlain, NoDefinitionAssumption DEF DecisionsInv, DecisionsTypeOK, LeftBehind
  <2>2. PICK M : M = ActiveMarkers(Loaded, state, left \cup {at})
    OBVIOUS
  <2>3. CASE state = "Completed"
    <3>1. M = OfKind(Loaded, "End")
      BY <2>2, <2>3 DEF ActiveMarkers
    <3>2. M \subseteq DOMAIN stored.kind
      BY <2>1, <3>1, OthersAreDrawn DEF OfKind, Loaded
    <3> QED  BY <2>2, <2>3, <3>2 DEF MarkerFits
  <2>4. CASE state = "Terminated"
    <3>1. M = {}
      BY <2>2, <2>4 DEF ActiveMarkers
    <3> QED  BY <2>2, <2>4, <3>1 DEF MarkerFits
  <2>5. CASE state = "Running"
    <3>1. at \in DOMAIN Loaded.kind
      BY <2>5 DEF DecisionsInv, DecisionsTypeOK
    <3>2. M = {StripSuffix(n) : n \in (left \cup {at})
                 \cap (OfKind(Loaded, "UserTask") \cup OfKind(Loaded, "ExternalTask"))}
      BY <2>2, <2>5 DEF ActiveMarkers
    <3>3. \A n \in left : n \notin OfKind(Loaded, "UserTask") \cup OfKind(Loaded, "ExternalTask")
      <4> SUFFICES ASSUME NEW n \in left
                   PROVE  Loaded.kind[n] \notin {"UserTask", "ExternalTask"}
        BY DEF OfKind
      <4>1. n \in DOMAIN stored.kind /\ stored.kind[n] \in {"Start", "ExclusiveGateway"}
        BY <2>1 DEF Passed
      <4>2. n \in DOMAIN InsertDecisionTasks(stored).kind /\ ~EndsWithSuffix(n)
        BY <2>1, <4>1, DrawnNodesKept DEF Plain
      <4> QED  BY <2>1, <4>1, <4>2, NodesOfInserted DEF Loaded
    <3>4. (left \cup {at}) \cap (OfKind(Loaded, "UserTask") \cup OfKind(Loaded, "ExternalTask"))
            = IF Kind(at) \in {"UserTask", "ExternalTask"} THEN {at} ELSE {}
      BY <3>1, <3>3 DEF OfKind, Kind
    <3>5. M = IF Kind(at) \in {"UserTask", "ExternalTask"} THEN {StripSuffix(at)} ELSE {}
      BY <3>2, <3>4
    <3>6. StripSuffix(at) \in DOMAIN stored.kind
      <4>1. at \in DOMAIN InsertDecisionTasks(stored).kind
        BY <3>1 DEF Loaded
      <4>2. CASE \E g \in Deciding(stored) : at = Decide(g)
        BY <2>1, <4>2, DecisionsAreNew, SuffixFacts
      <4>3. CASE at \in DOMAIN stored.kind /\ ~EndsWithSuffix(at)
        BY <4>3 DEF StripSuffix
      <4> QED  BY <2>1, <4>1, <4>2, <4>3, NodesOfInserted
    <3>7. M \subseteq DOMAIN stored.kind
      BY <3>5, <3>6
    <3> QED  BY <2>2, <3>5, <3>7 DEF MarkerFits
  <2> QED  BY <2>1, <2>3, <2>4, <2>5
<1> QED
  BY <1>1, DecisionsInvariance, PTL
-----------------------------------------------------------------------------
\* A walk finds what follows its beginning, and only what every set that the
\* walk cannot leave has.
LEMMA WalkFinds ==
    ASSUME NEW d, NEW from, NEW e \in Out(d, from), e.to \in DOMAIN d.kind
    PROVE  e.to \in Visited(d, from)
BY DEF Visited, WalkedOut

LEMMA WalkStaysIn ==
    ASSUME NEW d, NEW from, NEW S \in SUBSET DOMAIN d.kind,
           \A e \in Out(d, from) : e.to \in S,
           \A n \in S : d.kind[n] = "ExclusiveGateway" => \A e \in Out(d, n) : e.to \in S
    PROVE  Visited(d, from) \subseteq S
<1>1. S \in WalkedOut(d, from)
  BY DEF WalkedOut, OfKind
<1> QED
  BY <1>1 DEF Visited

\* The nodes a walk may see when it begins at a decision task of g, or at any
\* other node (no g): of the gateways that branch, g only.
Clear(d, g) == {n \in DOMAIN InsertDecisionTasks(d).kind : n \in Deciding(d) => n = g}

LEMMA WalkMeetsOne ==
    ASSUME NEW d, Plain(d), NEW g,
           NEW from, \A e \in Out(InsertDecisionTasks(d), from) : e.to \in Clear(d, g)
    PROVE  Visited(InsertDecisionTasks(d), from) \subseteq Clear(d, g)
<1> DEFINE loaded == InsertDecisionTasks(d)
<1>1. Clear(d, g) \in SUBSET DOMAIN loaded.kind
  BY DEF Clear
<1>2. ASSUME NEW n \in Clear(d, g), loaded.kind[n] = "ExclusiveGateway", NEW e \in Out(loaded, n)
      PROVE  e.to \in Clear(d, g)
  <2>1. e \in loaded.edges /\ e.from = n
    BY DEF Out
  <2>2. n \in DOMAIN loaded.kind /\ ~EndsWithSuffix(n)
    BY <1>2, OthersAreDrawn DEF Clear
  <2>3. e.to \in DOMAIN loaded.kind
    BY <2>1, TargetsInserted
  <2>4. e.to \notin Deciding(d)
    BY <2>1, <2>2, OnlyDecisionsEnter, DecisionsAreNew, SuffixFacts
  <2> QED  BY <2>3, <2>4 DEF Clear
<1> QED
  BY <1>1, <1>2, WalkStaysIn

\* A decision task leads to its gateway and nowhere else.
LEMMA DecisionLeadsToGateway ==
    ASSUME NEW d, Plain(d), NEW g \in Deciding(d)
    PROVE  /\ DecisionEdge(g) \in Out(InsertDecisionTasks(d), Decide(g))
           /\ \A e \in Out(InsertDecisionTasks(d), Decide(g)) : e.to = g
<1>1. g \in NodeIds
  BY DecisionsAreNew
<1>2. DecisionEdge(g) \in InsertDecisionTasks(d).edges
  BY DEF InsertDecisionTasks
<1>3. ASSUME NEW e \in InsertDecisionTasks(d).edges, e.from = Decide(g)
      PROVE  e.to = g
  <2>1. EndsWithSuffix(e.from)
    BY <1>1, <1>3, SuffixFacts
  <2>2. e.to \in Deciding(d) /\ Decide(e.to) = Decide(g)
    BY <1>3, <2>1, EdgesOfInserted
  <2> QED  BY <1>1, <2>2, DecisionsAreNew, SuffixFacts
<1> QED
  BY <1>2, <1>3 DEF Out, DecisionEdge

\* The conditions on the edges of a drawn node are the drawn ones.
ConditionsAt(d, n) == {e.cond : e \in Out(d, n)}

LEMMA ConditionsKept ==
    ASSUME NEW d, Plain(d), NEW n \in DOMAIN d.kind
    PROVE  ConditionsAt(InsertDecisionTasks(d), n) = ConditionsAt(d, n)
<1> DEFINE gates == Deciding(d)
           decisions == {Decide(g) : g \in gates}
           kept == {f \in d.edges : f.from \notin decisions}
           loaded == InsertDecisionTasks(d)
<1>1. /\ loaded.edges = {Redirect(f, gates) : f \in kept} \cup {DecisionEdge(g) : g \in gates}
      /\ n \notin decisions
  BY DecisionsAreNew DEF InsertDecisionTasks
<1>2. \A f \in d.edges : /\ Redirect(f, gates).from = f.from
                         /\ Redirect(f, gates).cond = f.cond
  BY DEF Redirect, Plain, IsDefinition, Edges
<1>3. \A g \in gates : DecisionEdge(g).from \in decisions
  BY DEF DecisionEdge
<1>4. ASSUME NEW e \in loaded.edges, e.from = n
      PROVE  e.cond \in ConditionsAt(d, n)
  <2>1. PICK f \in kept : e = Redirect(f, gates)
    BY <1>1, <1>3, <1>4
  <2> QED  BY <1>2, <1>4, <2>1 DEF ConditionsAt, Out
<1>5. ASSUME NEW f \in d.edges, f.from = n
      PROVE  f.cond \in ConditionsAt(loaded, n)
  <2>1. Redirect(f, gates) \in loaded.edges
    BY <1>1, <1>5
  <2> QED  BY <1>2, <1>5, <2>1 DEF ConditionsAt, Out
<1> QED
  BY <1>4, <1>5 DEF ConditionsAt, Out

\* What the walk from a node met: the conditions of the one gateway it saw
\* that branches, those of a default left out.
LEMMA MetAt ==
    ASSUME NEW d, Plain(d), NEW g, NEW from,
           \A e \in Out(InsertDecisionTasks(d), from) : e.to \in Clear(d, g)
    PROVE  /\ Met(InsertDecisionTasks(d), from) \subseteq
                 {c \in ConditionsAt(d, g) : g \in Deciding(d)} \ {Unconditional, Default}
           /\ g \in Visited(InsertDecisionTasks(d), from) /\ g \in Deciding(d) =>
                 Met(InsertDecisionTasks(d), from) = ConditionsAt(d, g) \ {Unconditional, Default}
<1> DEFINE loaded == InsertDecisionTasks(d)
           seen == Visited(loaded, from) \cap OfKind(loaded, "ExclusiveGateway")
<1>1. \A c : c \in Met(loaded, from) <=>
               /\ \E n \in seen : c \in ConditionsAt(loaded, n)
               /\ c \notin {Unconditional, Default}
  <2>1. Met(loaded, from) = {e.cond : e \in UNION {Out(loaded, n) : n \in seen}}
                              \ {Unconditional, Default}
    BY DEF Met
  <2>2. \A c : c \in {e.cond : e \in UNION {Out(loaded, n) : n \in seen}} <=>
                 \E n \in seen : c \in {e.cond : e \in Out(loaded, n)}
    OBVIOUS
  <2> QED  BY <2>1, <2>2 DEF ConditionsAt
<1>2. ASSUME NEW n \in seen
      PROVE  /\ n \in OfKind(d, "ExclusiveGateway")
             /\ n \in Deciding(d) => n = g
             /\ ConditionsAt(loaded, n) = ConditionsAt(d, n)
  <2>1. n \in Clear(d, g) /\ n \in DOMAIN loaded.kind /\ loaded.kind[n] = "ExclusiveGateway"
    BY WalkMeetsOne DEF OfKind
  <2> QED  BY <2>1, OthersAreDrawn, ConditionsKept DEF Clear, OfKind
<1>3. \A n \in OfKind(d, "ExclusiveGateway") :
        n \notin Deciding(d) => ConditionsAt(d, n) \subseteq {Unconditional, Default}
  BY DEF Deciding, ConditionsAt
<1>4. g \in Visited(loaded, from) /\ g \in Deciding(d) => g \in seen
  BY DecisionsAreNew, DrawnNodesKept, NodesOfInserted DEF Deciding, OfKind
<1>5. ASSUME NEW c \in Met(loaded, from)
      PROVE  g \in Deciding(d) /\ c \in ConditionsAt(d, g) /\ c \notin {Unconditional, Default}
  <2>1. PICK n \in seen : c \in ConditionsAt(loaded, n) /\ c \notin {Unconditional, Default}
    BY <1>1
  <2> QED  BY <1>2, <1>3, <2>1
<1>6. ASSUME g \in Visited(loaded, from), g \in Deciding(d),
             NEW c \in ConditionsAt(d, g), c \notin {Unconditional, Default}
      PROVE  c \in Met(loaded, from)
  <2>1. g \in seen /\ c \in ConditionsAt(loaded, g)
    BY <1>2, <1>4, <1>6
  <2> QED  BY <1>1, <1>6, <2>1
<1> QED
  BY <1>5, <1>6

LEMMA ConditionTypes ==
    ASSUME NEW d, Plain(d), NEW g
    PROVE  /\ ConditionsAt(d, g) \subseteq Conditions \cup {Unconditional, Default, Malformed}
           /\ Offered(d, g) = ConditionsAt(d, g) \ {Unconditional, Default, Malformed}
<1>1. ConditionsAt(d, g) \subseteq Conditions \cup {Unconditional, Default, Malformed}
  BY DEF ConditionsAt, Out, Plain, IsDefinition, Edges
<1>2. {Unconditional, Default, Malformed} \cap Conditions = {}
  BY ConditionAssumption DEF Conditions
<1> QED
  BY <1>1, <1>2 DEF Offered, ConditionsAt

\* The page of a decision task asks what the edges of its gateway offer.
LEMMA DecisionAsks ==
    ASSUME NEW d, Plain(d), NEW g \in Deciding(d)
    PROVE  /\ GatewayChoices(InsertDecisionTasks(d), Decide(g)) = Offered(d, g)
           /\ Unanswerable(InsertDecisionTasks(d), Decide(g)) <=> Malformed \in ConditionsAt(d, g)
<1> DEFINE loaded == InsertDecisionTasks(d)
<1>1. g \in DOMAIN loaded.kind
  BY DecisionsAreNew, DrawnNodesKept
<1>2. \A e \in Out(loaded, Decide(g)) : e.to \in Clear(d, g)
  BY <1>1, DecisionLeadsToGateway DEF Clear
<1>3. g \in Visited(loaded, Decide(g))
  <2>1. PICK e \in Out(loaded, Decide(g)) : e.to = g
    BY DecisionLeadsToGateway
  <2> QED  BY <1>1, <2>1, WalkFinds
<1>4. Met(loaded, Decide(g)) = ConditionsAt(d, g) \ {Unconditional, Default}
  BY <1>2, <1>3, MetAt
<1>5. Malformed \notin {Unconditional, Default}
  BY ConditionAssumption
<1> QED
  BY <1>4, <1>5, ConditionTypes DEF GatewayChoices, Unanswerable

\* The page of a drawn node asks nothing: every gateway that branches has a
\* decision task before it.
LEMMA DrawnNodesAskNothing ==
    ASSUME NEW d, Plain(d), NEW n \in NodeIds, ~EndsWithSuffix(n)
    PROVE  /\ GatewayChoices(InsertDecisionTasks(d), n) = {}
           /\ ~Unanswerable(InsertDecisionTasks(d), n)
<1> DEFINE loaded == InsertDecisionTasks(d)
<1>1. NoNode \notin Deciding(d)
  BY DecisionsAreNew, NoNodeAssumption
<1>2. ASSUME NEW e \in Out(loaded, n)
      PROVE  e.to \in Clear(d, NoNode)
  <2>1. e \in loaded.edges /\ e.from = n
    BY DEF Out
  <2>2. e.to \notin Deciding(d)
    BY <2>1, OnlyDecisionsEnter, DecisionsAreNew, SuffixFacts
  <2> QED  BY <2>1, <2>2, TargetsInserted DEF Clear
<1>3. Met(loaded, n) = {}
  BY <1>1, <1>2, MetAt
<1> QED
  BY <1>3 DEF GatewayChoices, Unanswerable

\* For every diagram, whatever its gateways and loops: a decision task asks
\* for the variables of its gateway and no others, a drawn user task for none.
THEOREM QuestionsAreTheGateways == Spec => []AsksItsOwnGateway
<1>1. DecisionsTypeOK => AsksItsOwnGateway
  <2> SUFFICES ASSUME DecisionsTypeOK, state = "Running", Kind(at) = "UserTask"
               PROVE  AsksItsOwnGateway
    BY DEF AsksItsOwnGateway
  <2>1. Plain(stored) /\ at \in NodeIds /\ at \in DOMAIN InsertDecisionTasks(stored).kind
    BY RunningFacts DEF Loaded
  <2>2. CASE EndsWithSuffix(at)
    <3>1. PICK g \in Deciding(stored) : at = Decide(g)
      BY <2>1, <2>2, NodesOfInserted
    <3>2. StripSuffix(at) = g
      BY <2>1, <3>1, DecisionsAreNew, SuffixFacts
    <3> QED  BY <2>1, <2>2, <3>1, <3>2, DecisionAsks DEF AsksItsOwnGateway, Loaded
  <2>3. CASE ~EndsWithSuffix(at)
    BY <2>1, <2>3, DrawnNodesAskNothing DEF AsksItsOwnGateway, Loaded
  <2> QED  BY <2>2, <2>3
<1> QED
  BY <1>1, DecisionsTypeCorrect, PTL

-----------------------------------------------------------------------------
\* The engine finds a way out of a node if a condition on an edge holds.
LEMMA WayOut ==
    ASSUME stored' = stored, Plain(stored), at' \in DOMAIN stored.kind,
           NEW c \in Offered(stored, at'), c.value = variables'[c.key]
    PROVE  Takes(at)' # {}
<1>1. c \in Conditions /\ c \in ConditionsAt(Loaded', at')
  BY ConditionsKept DEF Offered, ConditionsAt, Loaded
<1>2. PICK e \in Out(Loaded', at') : e.cond = c
  BY <1>1 DEF ConditionsAt
<1> QED
  BY <1>1, <1>2 DEF Takes

\* An answer names, for each variable of the gateway, a value it offers.
LEMMA AnswerFits ==
    ASSUME DecisionsTypeOK, state = "Running", NEW g \in Deciding(stored), at = Decide(g),
           NEW f \in Answers(at),
           variables' = [k \in Keys |-> IF k \in DOMAIN f THEN f[k] ELSE variables[k]]
    PROVE  \A c \in Offered(stored, g) :
             [key |-> c.key, value |-> variables'[c.key]] \in Offered(stored, g)
<1>1. GatewayChoices(Loaded, at) = Offered(stored, g)
  BY RunningFacts, DecisionAsks DEF Loaded
<1>2. SUFFICES ASSUME NEW c \in Offered(stored, g)
               PROVE  [key |-> c.key, value |-> variables'[c.key]] \in Offered(stored, g)
  OBVIOUS
<1>3. c.key \in Keys /\ c.key \in ChoiceKeys(Loaded, at)
  BY <1>1 DEF ChoiceKeys, Offered, Conditions
<1>4. DOMAIN f = ChoiceKeys(Loaded, at)
      /\ \A k \in DOMAIN f : [key |-> k, value |-> f[k]] \in GatewayChoices(Loaded, at)
  BY DEF Answers
<1>5. variables'[c.key] = f[c.key]
  BY <1>3, <1>4
<1> QED
  BY <1>1, <1>3, <1>4, <1>5
\* Every step that takes a token to a gateway that branches is an answer.
LEMMA AnsweredStep ==
    ASSUME DecisionsTypeOK, AnsweredDecision, [Next]_decisionVars
    PROVE  AnsweredDecision'
<1> SUFFICES ASSUME state' = "Running", at' \in Asking(stored')
             PROVE  /\ Takes(at)' # {}
                    /\ \A c \in Offered(stored', at') :
                         [key |-> c.key, value |-> variables'[c.key]] \in Offered(stored', at')
  BY DEF AnsweredDecision
<1>1. CASE LeaveStart \/ Advance \/ Route \/ CompleteTask
  <2>1. Takes(at) \subseteq Out(Loaded, at)
    BY DEF Takes
  <2>2. PICK e \in Out(Loaded, at) : Move(e)
    BY <1>1, <2>1 DEF LeaveStart, Advance, Route, CompleteTask
  <2>3. stored' = stored /\ at' = e.to /\ state = "Running"
    BY <1>1, <2>2 DEF Move, LeaveStart, Advance, Route, CompleteTask
  <2>4. Plain(stored) /\ at \in DOMAIN InsertDecisionTasks(stored).kind
    BY <2>3, RunningFacts DEF Loaded
  <2>5. PICK g : g = at' /\ g \in Deciding(stored) /\ g \in Asking(stored)
    BY <2>3, <2>4, AskingIsDeciding
  <2>6. at = Decide(g)
    BY <2>2, <2>3, <2>4, <2>5, OnlyDecisionsEnter DEF Out, Loaded
  <2>7. Kind(at) = "UserTask"
    BY <2>4, <2>5, <2>6, NodesOfInserted, DecisionsAreNew, SuffixFacts DEF Kind, Loaded
  <2>8. Advance
    BY <1>1, <2>7 DEF LeaveStart, Route, CompleteTask
  <2>9. \A c \in Offered(stored, g) :
          [key |-> c.key, value |-> variables'[c.key]] \in Offered(stored, g)
    <3>1. PICK f \in Answers(at) :
            variables' = [k \in Keys |-> IF k \in DOMAIN f THEN f[k] ELSE variables[k]]
      BY <2>8 DEF Advance
    <3> QED  BY <2>3, <2>5, <2>6, <3>1, AnswerFits
  <2>10. Offered(stored, g) # {}
    <3>1. Malformed \notin ConditionsAt(stored, g)
      BY <2>4, <2>5, <2>6, <2>8, DecisionAsks DEF Advance, Loaded
    <3> QED  BY <2>5, <3>1 DEF Asking, Offered, ConditionsAt
  <2>11. PICK c \in Offered(stored, g) : c.value = variables'[c.key]
    BY <2>9, <2>10
  <2>12. Takes(at)' # {}
    BY <2>3, <2>4, <2>5, <2>11, WayOut, DecisionsAreNew
  <2> QED
    BY <2>3, <2>5, <2>9, <2>12
<1>2. CASE Start
  <2>1. stored' = stored /\ Plain(stored)
    BY <1>2, CandidatesArePlain DEF Start, DecisionsTypeOK
  <2>2. at' \in DOMAIN InsertDecisionTasks(stored).kind
          /\ InsertDecisionTasks(stored).kind[at'] = "Start"
    BY <1>2 DEF Start, OfKind, Loaded
  <2>3. stored.kind[at'] = "Start"
    BY <2>1, <2>2, EventsAreDrawn
  <2> QED  BY <2>1, <2>3 DEF Asking, OfKind
<1>3. CASE UNCHANGED decisionVars
  BY <1>3 DEF decisionVars, AnsweredDecision, Takes, Loaded
<1>4. CASE Upload
  BY <1>4 DEF Upload, DecisionsTypeOK
<1>5. CASE Complete \/ Cancel
  BY <1>5 DEF Complete, Cancel
<1> QED
  BY <1>1, <1>2, <1>3, <1>4, <1>5 DEF Next

\* Nothing the pages offer leads an instance, of any definition, to a gateway
\* that the engine cannot leave, and each variable it branches on has one of
\* the values it branches for.
THEOREM AnswersFitTheGateway == Spec => []AnsweredDecision
<1>1. Init => AnsweredDecision
  BY DEF Init, AnsweredDecision
<1>2. DecisionsTypeOK /\ AnsweredDecision /\ [Next]_decisionVars => AnsweredDecision'
  BY AnsweredStep
<1> QED
  BY <1>1, <1>2, DecisionsTypeCorrect, PTL DEF Spec
=============================================================================
