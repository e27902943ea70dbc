---------------------------- MODULE ProcessStore ----------------------------
(***************************************************************************)
(* The tables process_instances and tokens, and PgProcessInstanceStore     *)
(* (app/src/pg_process_store.rs).                                          *)
(*                                                                         *)
(* load is two SELECTs outside a transaction, the row and then the tokens, *)
(* so a caller takes one step for each.  save is one transaction: it       *)
(* upserts the row and replaces the WHOLE token set of the instance by the *)
(* caller's copy, whatever was written since that copy was loaded.         *)
(*                                                                         *)
(* Abstracted: variables, tenant and version (save writes the caller's     *)
(* version back without comparing it), and of a token its mode, attempt    *)
(* and parallel group.                                                     *)
(***************************************************************************)
EXTENDS Identifiers

CONSTANT Nodes   \* nodes of the definition where a token waits

VARIABLES
    inst,    \* process_instances.state, "none" where there is no row
    tokens   \* the table tokens

InstanceStates == {"Running", "Completed", "Terminated"}

\* The statuses that tokens of these nodes take: the engine parks a token in
\* Waiting, cancelling terminates it.
Token == [inst : Instances, id : Ids, node : Nodes, status : {"Waiting", "Terminated"}]

\* What load returns: the engine's in-memory ProcessInstance.
Snapshot == [state : InstanceStates \cup {"none"}, toks : SUBSET Token]
NoSnapshot == [state |-> "none", toks |-> {}]

\* The two statements of load.
InstanceRow(i) == inst[i]
TokensOf(i) == {k \in tokens : k.inst = i}

\* Mutant: save inserts the tokens without deleting those stored before.
SaveInsertOnly(i, snapshot) ==
    /\ inst' = [inst EXCEPT ![i] = snapshot.state]
    /\ tokens' = tokens \cup snapshot.toks

Save(i, snapshot) ==
    /\ inst' = [inst EXCEPT ![i] = snapshot.state]
    /\ tokens' = (tokens \ TokensOf(i)) \cup snapshot.toks

\* Mutant: the foreign key does not cascade.
DeleteRowOnly(i) ==
    /\ inst' = [inst EXCEPT ![i] = "none"]
    /\ UNCHANGED tokens

\* DELETE of the row cascades to its tokens.
DeleteRow(i) ==
    /\ inst' = [inst EXCEPT ![i] = "none"]
    /\ tokens' = tokens \ TokensOf(i)

StoreTypeOK ==
    /\ inst \in [Instances -> InstanceStates \cup {"none"}]
    /\ tokens \subseteq Token

\* A token row belongs to an instance row.
TokensHaveInstance == \A k \in tokens : inst[k.inst] # "none"
=============================================================================
