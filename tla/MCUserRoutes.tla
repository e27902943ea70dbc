---------------------------- MODULE MCUserRoutes ----------------------------
(***************************************************************************)
(* Instances of UserRoutes for TLC; the definitions are those of           *)
(* MCTimerService.                                                         *)
(***************************************************************************)
EXTENDS UserRoutes, TLC

CONSTANTS t1, t2, t3, t4, i1, i2, a, b

At(t, i, n) == [inst |-> i, id |-> t, node |-> n, status |-> "Waiting"]

ChainFlow == (a :> {b}) @@ (b :> {})
EndFlow == (a :> {}) @@ (b :> {})

ChainParked == {At(t1, i1, a)}
NoneParked == {}

OwnKey == [t \in Ids |-> t]
OneKey == [t \in Ids |-> t1]

Symmetric == Permutations(Servers) \cup Permutations(Requests)
               \cup Permutations(Ids \ {k.id : k \in Parked})
=============================================================================
