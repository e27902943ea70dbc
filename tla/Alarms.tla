-------------------------------- MODULE Alarms --------------------------------
(***************************************************************************)
(* What the timers of a diagram promise, with no servers, locks, batches   *)
(* or copies: a token that arrives at a timer has its alarm set, leaves    *)
(* after the alarm has rung, never before it is due and once only, arrives *)
(* at all the nodes that follow while every other token stays where it is, *)
(* and the alarm is struck off the list when its token has left.           *)
(***************************************************************************)
CONSTANTS
    Ids,    \* of tokens, and of their alarms
    Nodes,
    Flow    \* [Nodes -> SUBSET Nodes]

VARIABLES
    alarm,    \* "none", "set", "due", "rung", or "dead" after too many failures
    waiting,  \* tokens, with the nodes they wait at
    moved,    \* identifiers of tokens that have left
    struck    \* alarms nobody needs to look at any more

alarmVars == <<alarm, waiting, moved, struck>>

Begun ==
    /\ \A t \in Ids : alarm[t] \in {"none", "set"}
    /\ \A t \in Ids : alarm[t] = "set" => \E w \in waiting : w.id = t
    /\ moved = {}
    /\ struck = {}

Becomes(t, from, to) == alarm[t] = from /\ alarm' = [alarm EXCEPT ![t] = to]

\* An alarm is set for a token that waits.
SetAlarm(t) ==
    /\ \E w \in waiting : w.id = t
    /\ Becomes(t, "none", "set")
    /\ UNCHANGED <<waiting, moved, struck>>

\* It comes due, rings, is put off or given up.
Tick(t) ==
    /\ \/ Becomes(t, "set", "due")
       \/ Becomes(t, "due", "rung")
       \/ Becomes(t, "due", "set")
       \/ Becomes(t, "due", "dead")
    /\ UNCHANGED <<waiting, moved, struck>>

\* A token follows its arrows; those that arrive have identifiers of their own.
Move(w) ==
    /\ w \in waiting
    /\ alarm[w.id] = "rung"
    /\ \E f \in [Flow[w.node] -> Ids \ (moved \cup {v.id : v \in waiting})] :
         /\ \A m, n \in Flow[w.node] : f[m] = f[n] => m = n
         /\ waiting' = (waiting \ {w}) \cup {[id |-> f[n], node |-> n] : n \in Flow[w.node]}
    /\ moved' = moved \cup {w.id}
    /\ UNCHANGED <<alarm, struck>>

Strike(t) ==
    /\ alarm[t] = "rung"
    /\ t \in moved
    /\ struck' = struck \cup {t}
    /\ UNCHANGED <<alarm, waiting, moved>>

Tock ==
    \/ \E t \in Ids : SetAlarm(t) \/ Tick(t) \/ Strike(t)
    \/ \E w \in waiting : Move(w)

Promise == Begun /\ [][Tock]_alarmVars
=============================================================================
