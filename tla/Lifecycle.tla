------------------------------ MODULE Lifecycle ------------------------------
(***************************************************************************)
(* The environment state machine of internal/lifecycle/fsm.go, and the     *)
(* sets of states that the SQL queries of internal/db/envs.go name.        *)
(***************************************************************************)

EnvStates ==
  {"pending", "resolving", "deploying", "healthy", "degraded", "failed",
   "destroying", "destroyed"}

\* The table of legal next states.
transitions ==
  [pending    |-> {"resolving", "failed", "destroying"},
   resolving  |-> {"deploying", "failed", "destroying"},
   deploying  |-> {"healthy", "degraded", "failed", "destroying"},
   healthy    |-> {"degraded", "deploying", "failed", "destroying"},
   degraded   |-> {"healthy", "deploying", "failed", "destroying"},
   failed     |-> {"deploying", "resolving", "destroying"},
   destroying |-> {"destroyed", "failed"},
   destroyed  |-> {}]

\* A transition to the same state is always accepted.
CanTransition(from, to) == from = to \/ to \in transitions[from]

\* Mutant of ActiveStates: destroying is missing from the query's list.
ActiveStates_NoDestroying == EnvStates \ {"destroying", "destroyed"}

\* WHERE state IN (...) of ActiveForReconcile.
ActiveStates == EnvStates \ {"destroyed"}

\* WHERE state NOT IN ('destroying','destroyed') of IdleSince.
IdleStates == EnvStates \ {"destroying", "destroyed"}
=============================================================================
