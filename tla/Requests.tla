------------------------------ MODULE Requests ------------------------------
(***************************************************************************)
(* Everything besides the reconciler that writes the environment's row:    *)
(* the API handlers (internal/api/api.go), the event processor's helpers   *)
(* (internal/events/processor.go) and the cleaner                          *)
(* (internal/reconciler/cleaner.go). None takes the deploy lock. Each      *)
(* looks the row up, decides, and writes in later statements.              *)
(***************************************************************************)
EXTENDS EnvStore, FiniteSets

CONSTANTS Callers,     \* goroutines that serve requests, events and the timer
          Ops,         \* the operations a run explores
          MaxOps,      \* bound: operations in one behaviour
          Topologies   \* the service sets Resolve may return

ASSUME MaxOpsAssumption == MaxOps \in Nat
ASSUME TopologiesAssumption == Topologies \subseteq SUBSET Services

VARIABLES call,   \* the statement each caller executes next
          ops     \* operations started so far

callVars == <<call, ops>>

RequestsTypeOK ==
  /\ call \in [Callers -> {"none", "destroy", "suspend", "resume", "plan",
                           "resolving", "unplanned", "replan", "deploying"}]
  /\ ops \in 0..MaxOps

RequestsInit ==
  /\ call = [c \in Callers |-> "none"]
  /\ ops = 0

-----------------------------------------------------------------------------
\* A caller looks the row up and, if cond accepts it, goes on to write.
LookUp(c, op, cond, next) ==
  /\ op \in Ops
  /\ call[c] = "none"
  /\ ops < MaxOps
  /\ ops' = ops + 1
  /\ cond
  /\ call' = [call EXCEPT ![c] = next]
  /\ UNCHANGED storeVars

Then(c, from, next) ==
  /\ call[c] = from
  /\ call' = [call EXCEPT ![c] = next]
  /\ UNCHANGED <<ops, dep, dom, rr>>

\* POST /destroy: 409 unless the state read allows it.
destroyEnv(c) ==
  LookUp(c, "destroy", CanTransition(row.state, "destroying"), "destroy")

\* A closed pull request; ByFeature finds any environment not destroyed.
closePR(c) == LookUp(c, "close", row.state # "destroyed", "destroy")

\* The cleaner finds the environment idle (IdleSince).
cleanerTick(c) == LookUp(c, "clean", row.state \in IdleStates, "destroy")

\* POST /suspend and POST /resume.
suspendEnv(c) ==
  LookUp(c, "suspend", row.state \notin {"destroying", "destroyed"}, "suspend")

resumeEnv(c) == LookUp(c, "resume", TRUE, "resume")

\* A push, or a pull request that is not closed: handlePush, ensureAndBump,
\* and createEnv for a row it has just inserted.
planEvent(c) == LookUp(c, "event", row.state # "destroyed", "plan")

\* POST /deployments/restart. The feature's slug comes from the topology: a
\* row that has none is not resolved again.
requestRestart(c) ==
  LookUp(c, "restart", TRUE, IF row.gen = 0 THEN "deploying" ELSE "replan")

Destroy(c) == Then(c, "destroy", "none") /\ UpdateState("destroying")

Suspend(c) == Then(c, "suspend", "none") /\ SetSuspended(TRUE)

Resume(c) == Then(c, "resume", "none") /\ SetSuspended(FALSE)

\* bumpGeneration: Resolve, then BumpGeneration, then UpdateState(resolving).
Plan(c) ==
  /\ Then(c, "plan", "resolving")
  /\ \E t \in Topologies : BumpGeneration(t)

\* Resolve fails (a dependency cycle, say): UpdateState(failed).
PlanFails(c) == Then(c, "plan", "unplanned") /\ UNCHANGED row

MarkFailed(c) == Then(c, "unplanned", "none") /\ UpdateState("failed")

MarkResolving(c) == Then(c, "resolving", "none") /\ UpdateState("resolving")

\* requestRestart: the bump is best-effort, the state is written regardless.
Replan(c) ==
  /\ Then(c, "replan", "deploying")
  /\ \/ \E t \in Topologies : BumpGeneration(t)
     \/ UNCHANGED row

MarkDeploying(c) == Then(c, "deploying", "none") /\ UpdateState("deploying")

\* The statements of a request that has been looked up.
Write(c) ==
  \/ Destroy(c) \/ Suspend(c) \/ Resume(c)
  \/ Plan(c) \/ PlanFails(c) \/ MarkFailed(c) \/ MarkResolving(c)
  \/ Replan(c) \/ MarkDeploying(c)

Request(c) ==
  \/ destroyEnv(c) \/ closePR(c) \/ cleanerTick(c)
  \/ suspendEnv(c) \/ resumeEnv(c)
  \/ planEvent(c) \/ requestRestart(c)
=============================================================================
