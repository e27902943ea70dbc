----------------------------- MODULE MCDecisions -----------------------------
(***************************************************************************)
(* Definitions for TLC: a start event, a task, two exclusive gateways with *)
(* two edges each and an end event, connected in every way that the bounds *)
(* below allow: gateways that follow each other, loops, a gateway that     *)
(* leads to itself, a gateway right after the start.                       *)
(***************************************************************************)
EXTENDS Decisions, TLC

CONSTANTS s, g, h, w, e, k, l, x, y

Id(n) == [name |-> n, suffixes |-> 0]

Edge(from, to, cond) == [from |-> Id(from), to |-> Id(to), cond |-> cond]

Is(key, value) == [key |-> key, value |-> value]

\* What two edges of one gateway may say.
Branches == {<<Is(k, x), Is(k, y)>>, <<Is(k, x), Is(l, x)>>,
             <<Is(l, y), Default>>, <<Unconditional, Default>>}

\* A broken condition at one gateway only.
BranchesOfG == Branches \cup {<<Is(k, x), Malformed>>}

Worker == [form |-> "worker", n |-> -1, unit |-> "none"]
Timer(n, unit) == [form |-> "timer", n |-> n, unit |-> unit]
\* Accepted and stored: 30 s and one day.  Accepted, but too late for the
\* database: 88000 s, exact as an f64, and 90003 s, which is not.  Refused by
\* validate_definition: the others but the worker.
TaskTypes == {Worker, Timer(30, "s"), Timer(1, "d"), Timer(88000, "s"), Timer(90003, "s"),
              Timer(0, "s"), Timer(2, "d"), Timer(-1, "m"), Timer(5, "none"), [Worker EXCEPT !.form = "default"]}

\* Above F64Exact every eighth integer is an f64.
NearestEight == [n \in 0 .. U64Max |->
    IF n <= F64Exact THEN n ELSE 8 * ((n + 4) \div 8)]

Gateway(n, to, cond) == {Edge(n, to[1], cond[1]), Edge(n, to[2], cond[2])}

Diagram5(task, type, edges) ==
    [kind  |-> (Id(s) :> "Start") @@ (Id(g) :> "ExclusiveGateway")
                 @@ (Id(h) :> "ExclusiveGateway") @@ (Id(w) :> task) @@ (Id(e) :> "End"),
     type  |-> Id(w) :> type,
     edges |-> edges]

Arrows(first, next, tg, cg, th, ch) ==
    {Edge(s, first, Unconditional), Edge(w, next, Unconditional)}
      \cup Gateway(g, tg, cg) \cup Gateway(h, th, ch)

\* Every graph, with a user task.
UserCandidates ==
    {Diagram5("UserTask", Worker, Arrows(first, next, tg, cg, th, ch)) :
        first \in {g, w}, next \in {h, e}, cg \in BranchesOfG, ch \in Branches,
        tg \in {g, h, w} \X {h, w, e}, th \in {g, h, w} \X {w, e}}

\* Every task type, with the first gateway leading back or on.
ServiceCandidates ==
    {Diagram5("ExternalTask", type, Arrows(w, g, <<w, h>>, cg, <<w, e>>, ch)) :
        type \in TaskTypes, cg \in BranchesOfG, ch \in Branches}

AllCandidates == UserCandidates \cup ServiceCandidates
=============================================================================
