------------------------------- MODULE Handles -------------------------------
(***************************************************************************)
(* The names the registry, the queue and the watchdog share.  Handles and  *)
(* dispatch ids come from core.NewID and are never reused, so the role of  *)
(* whatever an id will name can be fixed beforehand: RoleOf.               *)
(***************************************************************************)
EXTENDS Naturals

CONSTANTS
    Workers,     \* handles a registration may return
    Ephemerals,  \* processes that poll with an empty handle
    Dispatches,  \* dispatch ids
    Roles,       \* role names
    RoleOf,      \* the role of a handle or of a dispatch id
    NoWorker     \* NULL in worker_handle, and the empty handle

Agents == Workers \cup Ephemerals

ASSUME RoleAssumption == RoleOf \in [Workers \cup Dispatches -> Roles]
ASSUME NoWorkerAssumption == NoWorker \notin Agents
ASSUME AgentAssumption == Workers \cap Ephemerals = {}
=============================================================================
