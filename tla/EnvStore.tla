------------------------------ MODULE EnvStore ------------------------------
(***************************************************************************)
(* The rows PostgreSQL keeps for one environment, and the statements of    *)
(* internal/db that change them. Each statement is one autocommit          *)
(* UPDATE, INSERT or DELETE, so each is atomic; no two are ever in one     *)
(* transaction. Timestamps are left out: what depends on them (which idle  *)
(* environment the cleaner finds) is a free choice in the modules above.   *)
(***************************************************************************)
EXTENDS Params, Lifecycle

VARIABLES row,   \* environments: state, generation, desired_topology, suspended
          dep,   \* deployments, by (generation, repository)
          dom,   \* domains: the services with a hostname routed to them
          rr     \* runtime_resources of kind container: the names recorded

storeVars == <<row, dep, dom, rr>>

\* topo is the set of services of desired_topology ({} before the first
\* resolution).
Rows == [state : EnvStates, gen : 0..MaxGen, topo : SUBSET Services,
         suspended : BOOLEAN]

\* run is buddy_run_id, 0 for none; state "none" is an absent row.
Deployments == [run : Nat, state : {"none", "building", "running", "failed"}]

NoDeployment == [run |-> 0, state |-> "none"]

StoreTypeOK ==
  /\ row \in Rows
  /\ dep \in [Gens -> [Services -> Deployments]]
  /\ dom \in SUBSET Services
  /\ rr \in SUBSET Services

\* A row that ensureAndBump or createEnv has just created.
StoreInit ==
  /\ row = [state |-> "pending", gen |-> 0, topo |-> {}, suspended |-> FALSE]
  /\ dep = [g \in Gens |-> [s \in Services |-> NoDeployment]]
  /\ dom = {}
  /\ rr = {}

-----------------------------------------------------------------------------
\* UPDATE environments SET state: no condition on the state that is there.
UpdateState(to) == row' = [row EXCEPT !.state = to]

MarkDestroyed == row' = [row EXCEPT !.state = "destroyed"]

SetSuspended(b) == row' = [row EXCEPT !.suspended = b]

\* generation = generation + 1 and the new topology, in one statement.
BumpGeneration(topology) ==
  /\ row.gen < MaxGen
  /\ row' = [row EXCEPT !.gen = @ + 1, !.topo = topology]

\* INSERT ... ON CONFLICT (environment, repository, generation) DO UPDATE.
Insert(g, s, d) == dep' = [dep EXCEPT ![g][s] = d]

\* Mutant of UpdateRuntime: an environment's state for a deployment's.
UpdateRuntime_EnvState(g, s, to) ==
  dep' = [dep EXCEPT ![g][s].state = IF to = "building" THEN "deploying" ELSE to]

\* UPDATE deployments SET state WHERE id: the run id stays.
UpdateRuntime(g, s, to) == dep' = [dep EXCEPT ![g][s].state = to]
=============================================================================
