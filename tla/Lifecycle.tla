----------------------------- MODULE Lifecycle -----------------------------
(***************************************************************************)
(* How a server starts and stops (server/src/bin/server.rs _main, with     *)
(* ApplicationState::_new of server_sdk and get_pool and session_store of  *)
(* app/src/configuration.rs).                                              *)
(*                                                                         *)
(* Any step may fail, which ends the process; main logs it and exits.      *)
(* Migrations stay done when the process ends.  MaxStarts bounds how often *)
(* the process is started.                                                 *)
(***************************************************************************)
EXTENDS Naturals

CONSTANTS TimerEnabled, MaxStarts

ASSUME LifecycleAssumption == TimerEnabled \in BOOLEAN /\ MaxStarts \in Nat

VARIABLES
    phase,     \* how far _main has come
    migrated,  \* schemas whose migrations are complete, in the database
    loop,      \* the timer loop is running
    starts     \* starts so far

lifecycleVars == <<phase, migrated, loop, starts>>

Phases == {"down", "bound", "pooled", "built", "spawned", "serving"}

LifecycleInit == phase = "down" /\ migrated = {} /\ loop = FALSE /\ starts = 0

\* The configuration is loaded and the listener bound; either may fail, and
\* then nothing has happened.
Bind ==
    /\ phase = "down" /\ starts < MaxStarts
    /\ phase' = "bound"
    /\ starts' = starts + 1
    /\ UNCHANGED <<migrated, loop>>

\* Mutant: the pool is returned whether its migrations have run or not.
GetPoolUnmigrated ==
    /\ phase = "bound"
    /\ phase' = "pooled"
    /\ migrated' \in {migrated, migrated \cup {"app"}}
    /\ UNCHANGED <<loop, starts>>

\* A failure may come after the migrations were done.
GetPool ==
    /\ phase = "bound"
    /\ \/ phase' = "pooled" /\ migrated' = migrated \cup {"app"}
       \/ phase' = "down" /\ migrated' \in {migrated, migrated \cup {"app"}}
    /\ UNCHANGED <<loop, starts>>

SessionStore ==
    /\ phase = "pooled"
    /\ \/ phase' = "built" /\ migrated' = migrated \cup {"session"}
       \/ phase' = "down" /\ migrated' \in {migrated, migrated \cup {"session"}}
    /\ UNCHANGED <<loop, starts>>

\* The loop may poll before the first request is let in.
SpawnTimerLoop ==
    /\ phase = "built"
    /\ phase' = "spawned" /\ loop' = TimerEnabled
    /\ UNCHANGED <<migrated, starts>>

Run ==
    /\ phase = "spawned"
    /\ phase' = "serving"
    /\ UNCHANGED <<migrated, loop, starts>>

\* The process ends: a failing step, a crash, a signal before it serves, or
\* graceful_shutdown, until whose timeout the requests in flight go on as in
\* "serving" and none is let in.
Exit ==
    /\ phase # "down"
    /\ phase' = "down" /\ loop' = FALSE
    /\ UNCHANGED <<migrated, starts>>

StartUp == Bind \/ GetPool \/ SessionStore \/ SpawnTimerLoop \/ Run

LifecycleTypeOK ==
    /\ phase \in Phases
    /\ migrated \subseteq {"app", "session"}
    /\ loop \in BOOLEAN
    /\ starts \in 0 .. MaxStarts
=============================================================================
