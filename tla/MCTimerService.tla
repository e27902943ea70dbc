---------------------------- MODULE MCTimerService ----------------------------
(***************************************************************************)
(* Instances of TimerService for TLC: the shapes of the definition and the *)
(* tokens that wait when the run begins.                                   *)
(***************************************************************************)
EXTENDS TimerService, TLC

CONSTANTS t1, t2, t3, t4, i1, i2, a, b

At(t, i, n) == [inst |-> i, id |-> t, node |-> n, status |-> "Waiting"]

\* One timer node after the other, one instance waiting at the first.
ChainFlow == (a :> {b}) @@ (b :> {})
ChainParked == {At(t1, i1, a)}

\* Two nodes that end the instance, two instances, or both branches of a
\* parallel split in one instance.
EndFlow == (a :> {}) @@ (b :> {})
TwoParked == {At(t1, i1, a), At(t2, i2, b)}
SplitParked == {At(t1, i1, a), At(t2, i1, b)}

\* Distinct hashes, and a hash that collides.
OwnKey == [t \in Ids |-> t]
SameKey == [t \in Ids |-> t1]

FreshIds == Permutations(Ids \ {k.id : k \in Parked})
Symmetric == Permutations(Servers) \cup FreshIds
=============================================================================
