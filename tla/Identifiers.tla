----------------------------- MODULE Identifiers -----------------------------
(***************************************************************************)
(* The identifiers the tables share.  Instances and tokens have uuids that *)
(* are never reused; a token that waits at an external task and its row in *)
(* external_tasks share an identifier of Ids, since the engine creates one *)
(* row per token that arrives there.                                       *)
(***************************************************************************)
CONSTANTS
    Ids,         \* identifiers of tokens, and of their rows
    Instances,   \* process instances
    NoInstance   \* the instance of an identifier not in use yet

ASSUME NoInstanceAssumption == NoInstance \notin Instances
=============================================================================
