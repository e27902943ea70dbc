------------------------------- MODULE Diagram -------------------------------
(***************************************************************************)
(* What a user who drew a diagram may expect of an instance of it, with no *)
(* decision tasks: it begins at a start event, follows one drawn arrow     *)
(* after the other, and is complete at an end event only.                  *)
(***************************************************************************)
CONSTANTS NoDefinition, NoNode

VARIABLES
    stored,   \* the definition, as drawn
    state,    \* of the instance
    place     \* the drawn node the token is at

diagramVars == <<stored, state, place>>

Blank == stored = NoDefinition /\ state = "none" /\ place = NoNode

Draw ==
    /\ stored = NoDefinition
    /\ stored' # NoDefinition
    /\ UNCHANGED <<state, place>>

Begin ==
    /\ stored # NoDefinition
    /\ state # "Running"
    /\ state' = "Running"
    /\ place' \in DOMAIN stored.kind
    /\ stored.kind[place'] = "Start"
    /\ UNCHANGED stored

Follow ==
    /\ state = "Running"
    /\ \E e \in stored.edges : e.from = place /\ place' = e.to
    /\ UNCHANGED <<stored, state>>

Finish ==
    /\ state = "Running"
    /\ stored.kind[place] = "End"
    /\ state' = "Completed"
    /\ place' = NoNode
    /\ UNCHANGED stored

GiveUp ==
    /\ state = "Running"
    /\ state' = "Terminated"
    /\ place' = NoNode
    /\ UNCHANGED stored

Walk == Draw \/ Begin \/ Follow \/ Finish \/ GiveUp

FollowsArrows == Blank /\ [][Walk]_diagramVars
=============================================================================
