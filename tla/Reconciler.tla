----------------------------- MODULE Reconciler -----------------------------
(***************************************************************************)
(* internal/reconciler/reconciler.go: the workers that reconcile one       *)
(* environment, one worker per orchestrator process. A pass of             *)
(* reconcileOne is a sequence of calls to Redis, PostgreSQL, Docker and    *)
(* Buddy; each call is a step, and steps of other workers, of the API, of  *)
(* the event processor and of the cleaner come in between. A call that     *)
(* fails is a fault; where the code drops its error, the pass goes on.     *)
(***************************************************************************)
EXTENDS EnvStore, Docker, Buddy, Faults

CONSTANTS Workers,    \* the reconcilers, one per orchestrator process
          Nobody,     \* the deploy lock's key is absent
          Orphan,     \* the key has a token that no live worker has
          NoService   \* no service is being reconciled

ASSUME WorkerAssumption == {Nobody, Orphan} \cap Workers = {} /\ Nobody # Orphan
ASSUME ServiceAssumption == NoService \notin Services

VARIABLES lock,     \* whose token is in <short_id>_deploy_lock
          pc,       \* the next call of each worker
          pass,     \* the local variables of each worker's reconcileOne
          lapsed    \* the workers whose lease expired during their pass

workerVars == <<lock, pc, pass, lapsed>>

Steps ==
  {"idle", "listed", "locked", "network", "degrade", "promote", "services",
   "trigger", "insert", "poll", "building", "failed", "remove", "create",
   "noContainer", "running", "track", "inspect", "domains", "routes", "final",
   "release", "rows", "containers", "unroute", "untrack", "mark"}

\* env: the row re-read under the lock (setState keeps its state up to date,
\* nothing else does). todo: services not reconciled yet, or containers not
\* removed yet. svc and dep: the service at hand and its deployment.
Passes ==
  [env : Rows, todo : SUBSET Services, svc : Services \cup {NoService},
   dep : Deployments, anyFailed : BOOLEAN, allHealthy : BOOLEAN]

NoPass ==
  [env |-> [state |-> "pending", gen |-> 0, topo |-> {}, suspended |-> FALSE],
   todo |-> {}, svc |-> NoService, dep |-> NoDeployment,
   anyFailed |-> FALSE, allHealthy |-> TRUE]

ReconcilerTypeOK ==
  /\ lock \in Workers \cup {Nobody, Orphan}
  /\ pc \in [Workers -> Steps]
  /\ pass \in [Workers -> Passes]
  /\ lapsed \in SUBSET Workers

ReconcilerInit ==
  /\ lock = Nobody
  /\ pc = [w \in Workers |-> "idle"]
  /\ pass = [w \in Workers |-> NoPass]
  /\ lapsed = {}

-----------------------------------------------------------------------------
At(w, step) == pc[w] = step

Goto(w, step) == pc' = [pc EXCEPT ![w] = step]

\* The locals of the pass become r.
Locals(w, r) == pass' = [pass EXCEPT ![w] = r]

\* The generation captured up-front, and the service of this iteration.
gen(w) == pass[w].env.gen
svc(w) == pass[w].svc

\* The step changes nothing of the worker but where it is.
Advance(w, step) == Goto(w, step) /\ UNCHANGED <<pass, lock, lapsed>>

\* tick: the environment is in the list of ActiveForReconcile.
List(w) ==
  /\ At(w, "idle")
  /\ row.state \in ActiveStates
  /\ Advance(w, "listed")
  /\ NoFault
  /\ UNCHANGED <<storeVars, dockerVars, buddyVars>>

\* Mutant of TryLock: SET without NX takes the key from its owner.
TryLock_Steal(w) ==
  /\ At(w, "listed")
  /\ lock' = w
  /\ Goto(w, "locked")
  /\ UNCHANGED <<pass, lapsed>>
  /\ NoFault
  /\ UNCHANGED <<storeVars, dockerVars, buddyVars>>

\* Locks.Acquire: SET NX, or ErrLocked and the tick moves on.
TryLock(w) ==
  /\ At(w, "listed")
  /\ \/ /\ lock = Nobody
        /\ lock' = w
        /\ Goto(w, "locked")
     \/ /\ lock # Nobody
        /\ UNCHANGED lock
        /\ Goto(w, "idle")
  /\ UNCHANGED <<pass, lapsed>>
  /\ NoFault
  /\ UNCHANGED <<storeVars, dockerVars, buddyVars>>

\* Mutant of Read: the generation captured is the next one.
Read_NextGeneration(w) ==
  /\ At(w, "locked")
  /\ Locals(w, [NoPass EXCEPT !.env = [row EXCEPT !.gen = @ + 1],
                              !.todo = row.topo])
  /\ Goto(w, IF row.topo = {} THEN "release" ELSE "network")
  /\ UNCHANGED <<lock, lapsed>>
  /\ NoFault
  /\ UNCHANGED <<storeVars, dockerVars, buddyVars>>

\* Mutant of Read: the suspended flag is not looked at.
Read_IgnoreSuspended(w) ==
  /\ At(w, "locked")
  /\ Locals(w, [NoPass EXCEPT !.env = row, !.todo = row.topo])
  /\ Goto(w, CASE row.state = "destroying" -> "rows"
               [] row.state = "destroyed"  -> "release"
               [] OTHER -> IF row.topo = {} THEN "release" ELSE "network")
  /\ UNCHANGED <<lock, lapsed>>
  /\ NoFault
  /\ UNCHANGED <<storeVars, dockerVars, buddyVars>>

\* Envs.Get fails: the pass ends.
ReadFails(w) ==
  /\ At(w, "locked")
  /\ Fault("db")
  /\ Advance(w, "release")
  /\ UNCHANGED <<storeVars, dockerVars, buddyVars>>

\* Envs.Get, and the early returns that depend on nothing else. A suspended
\* environment is left alone unless it is being destroyed.
Read(w) ==
  /\ At(w, "locked")
  /\ Locals(w, [NoPass EXCEPT !.env = row, !.todo = row.topo])
  /\ Goto(w, CASE row.suspended /\ row.state # "destroying" -> "release"
               [] row.state = "destroying"                  -> "rows"
               [] row.state = "destroyed"                   -> "release"
               [] OTHER -> IF row.topo = {} THEN "release" ELSE "network")
  /\ UNCHANGED <<lock, lapsed>>
  /\ NoFault
  /\ UNCHANGED <<storeVars, dockerVars, buddyVars>>

\* setState compares with the state of the local copy, and writes the row
\* whatever its state is by now. The error of UpdateState, which may have been
\* executed all the same, leaves the copy as it is; every caller drops it.
setState(w, to) ==
  LET from == pass[w].env.state IN
    IF CanTransition(from, to) /\ from # to
      THEN /\ \/ /\ UpdateState(to)
                 /\ Locals(w, [pass[w] EXCEPT !.env.state = to])
                 /\ NoFault
              \/ /\ UpdateState(to) \/ UNCHANGED row
                 /\ UNCHANGED pass
                 /\ Fault("db")
           /\ UNCHANGED <<dep, dom, rr>>
      ELSE UNCHANGED <<storeVars, pass>> /\ NoFault

\* 1. The network; an error degrades the environment and ends the pass.
Network(w) ==
  /\ At(w, "network")
  /\ \/ EnsureNetwork /\ NoFault /\ Advance(w, "promote")
     \/ Fault("docker") /\ UNCHANGED dockerVars /\ Advance(w, "degrade")
  /\ UNCHANGED <<storeVars, buddyVars>>

degrade(w) ==
  /\ At(w, "degrade")
  /\ setState(w, "degraded")
  /\ Goto(w, "release")
  /\ UNCHANGED <<lock, lapsed>>
  /\ UNCHANGED <<dockerVars, buddyVars>>

\* Promote to deploying if we are starting fresh.
Promote(w) ==
  /\ At(w, "promote")
  /\ IF pass[w].env.state \in {"resolving", "pending"}
       THEN setState(w, "deploying")
       ELSE UNCHANGED <<storeVars, pass>> /\ NoFault
  /\ Goto(w, "services")
  /\ UNCHANGED <<lock, lapsed>>
  /\ UNCHANGED <<dockerVars, buddyVars>>

-----------------------------------------------------------------------------
\* 2. Every service of the topology: reconcileService, then Inspect.

\* The locals when the loop is done with the service at hand.
AfterService(w, failed, healthy) ==
  [env |-> pass[w].env, todo |-> pass[w].todo \ {svc(w)}, svc |-> NoService,
   dep |-> NoDeployment, anyFailed |-> failed, allHealthy |-> healthy]

\* reconcileService returned an error.
ServiceFails(w) ==
  /\ Locals(w, AfterService(w, TRUE, FALSE))
  /\ Goto(w, "services")
  /\ UNCHANGED <<lock, lapsed>>

\* GetByName fails: the service does, before it is looked at.
LookUpFails(w) ==
  /\ At(w, "services")
  /\ Fault("db")
  /\ \E s \in pass[w].todo :
       Locals(w, [pass[w] EXCEPT !.todo = @ \ {s}, !.anyFailed = TRUE,
                                 !.allHealthy = FALSE])
  /\ UNCHANGED <<pc, lock, lapsed>>
  /\ UNCHANGED <<storeVars, dockerVars, buddyVars>>

\* ByEnvGeneration: reuse the run id and the state of an existing deployment.
\* Its error is dropped, as if there were none.
NextService(w) ==
  /\ At(w, "services")
  /\ \E s \in pass[w].todo, read \in BOOLEAN :
       LET d == IF read THEN dep[gen(w)][s] ELSE NoDeployment IN
         /\ IF read THEN NoFault ELSE Fault("db")
         /\ Locals(w, [pass[w] EXCEPT !.svc = s, !.dep = d])
         /\ Goto(w, CASE d.run = 0                        -> "trigger"
                      [] d.run # 0 /\ d.state = "building" -> "poll"
                      [] OTHER                            -> "remove")
  /\ UNCHANGED <<lock, lapsed>>
  /\ UNCHANGED <<storeVars, dockerVars, buddyVars>>

\* 1) No run yet: start one.
TriggerBuild(w) ==
  /\ At(w, "trigger")
  /\ Trigger(gen(w), svc(w))
  /\ Locals(w, [pass[w] EXCEPT !.dep = [run |-> runs[gen(w)][svc(w)] + 1,
                                        state |-> "building"]])
  /\ Goto(w, "insert")
  /\ UNCHANGED <<lock, lapsed>>
  /\ NoFault
  /\ UNCHANGED <<storeVars, dockerVars>>

\* The call failed, perhaps after Buddy had accepted it; the deployment is
\* recorded as failed, without a run, unless that fails too.
TriggerFails(w) ==
  /\ At(w, "trigger")
  /\ Fault("buddy")
  /\ Trigger(gen(w), svc(w)) \/ UNCHANGED buddyVars
  /\ \/ Insert(gen(w), svc(w), [run |-> 0, state |-> "failed"])
     \/ "db" \in FaultKinds /\ UNCHANGED dep
  /\ ServiceFails(w)
  /\ UNCHANGED <<row, dom, rr, dockerVars>>

\* Mutant of InsertDeployment: the run id is not stored.
InsertDeployment_NoRun(w) ==
  /\ At(w, "insert")
  /\ Insert(gen(w), svc(w), [pass[w].dep EXCEPT !.run = 0])
  /\ Advance(w, "poll")
  /\ NoFault
  /\ UNCHANGED <<row, dom, rr, dockerVars, buddyVars>>

InsertDeployment(w) ==
  /\ At(w, "insert")
  /\ Insert(gen(w), svc(w), pass[w].dep)
  /\ Advance(w, "poll")
  /\ NoFault
  /\ UNCHANGED <<row, dom, rr, dockerVars, buddyVars>>

\* The insert fails, perhaps after it was executed: a build runs that no row
\* may tell of.
InsertFails(w) ==
  /\ At(w, "insert")
  /\ Fault("db")
  /\ Insert(gen(w), svc(w), pass[w].dep) \/ UNCHANGED dep
  /\ ServiceFails(w)
  /\ UNCHANGED <<row, dom, rr, dockerVars, buddyVars>>

\* The status of the run whose id the deployment has.
Status(w) == GetRun(gen(w), svc(w), pass[w].dep.run)

\* Mutant of Poll: the status of a run that ended well is not recognized.
Poll_MissSuccess(w) ==
  /\ At(w, "poll")
  /\ Advance(w, IF Status(w) = "FAILED" THEN "failed" ELSE "building")
  /\ NoFault
  /\ UNCHANGED <<storeVars, dockerVars, buddyVars>>

\* 2) Ask Buddy how the run is doing.
Poll(w) ==
  /\ At(w, "poll")
  /\ Advance(w, CASE Status(w) = "SUCCESSFUL" -> "remove"
                  [] Status(w) = "FAILED"     -> "failed"
                  [] OTHER                    -> "building")
  /\ NoFault
  /\ UNCHANGED <<storeVars, dockerVars, buddyVars>>

PollFails(w) ==
  /\ At(w, "poll")
  /\ Fault("buddy")
  /\ ServiceFails(w)
  /\ UNCHANGED <<storeVars, dockerVars, buddyVars>>

\* UpdateRuntime, whose error every caller drops.
Record(w, to) ==
  \/ UpdateRuntime(gen(w), svc(w), to) /\ NoFault
  \/ UNCHANGED dep /\ Fault("db")

\* Mutant of StillBuilding: the running container's state is recorded.
StillBuilding_Running(w) ==
  /\ At(w, "building")
  /\ Record(w, "running")
  /\ Advance(w, "inspect")
  /\ UNCHANGED <<row, dom, rr, dockerVars, buddyVars>>

\* Still building: reconcileService returns without an error.
StillBuilding(w) ==
  /\ At(w, "building")
  /\ Record(w, "building")
  /\ Advance(w, "inspect")
  /\ UNCHANGED <<row, dom, rr, dockerVars, buddyVars>>

\* The run failed, or the container could not be run.
RecordFailed(w) ==
  /\ pc[w] \in {"failed", "noContainer"}
  /\ Record(w, "failed")
  /\ ServiceFails(w)
  /\ UNCHANGED <<row, dom, rr, dockerVars, buddyVars>>

\* 3) RunContainer, first half: remove what has this name.
RemoveOld(w) ==
  /\ At(w, "remove")
  /\ \/ RemoveByName(svc(w)) /\ NoFault /\ Advance(w, "create")
     \/ UNCHANGED dockerVars /\ Fault("docker") /\ Advance(w, "noContainer")
  /\ UNCHANGED <<storeVars, buddyVars>>

\* RunContainer, second half. The image may be there although no run of this
\* generation succeeded: its tag is the commit's, whoever built it.
Create(w) ==
  /\ At(w, "create")
  /\ CreateContainer(svc(w), gen(w), TRUE)
  /\ Advance(w, "running")
  /\ NoFault
  /\ UNCHANGED <<storeVars, buddyVars>>

\* Name in use, no network, or no image.
CreateRefused(w) ==
  /\ At(w, "create")
  /\ ~CanCreate(svc(w)) \/ passed[gen(w)][svc(w)] = {}
  /\ Advance(w, "noContainer")
  /\ NoFault
  /\ UNCHANGED <<storeVars, dockerVars, buddyVars>>

\* The daemon fails the create, or the start of a container it created.
CreateFails(w) ==
  /\ At(w, "create")
  /\ CanCreate(svc(w))
  /\ Fault("docker")
  /\ CreateContainer(svc(w), gen(w), FALSE) \/ UNCHANGED dockerVars
  /\ Advance(w, "noContainer")
  /\ UNCHANGED <<storeVars, buddyVars>>

RecordRunning(w) ==
  /\ At(w, "running")
  /\ Record(w, "running")
  /\ Advance(w, "track")
  /\ UNCHANGED <<row, dom, rr, dockerVars, buddyVars>>

\* Runtime.Upsert: from here on a teardown knows of the container, unless the
\* statement failed; its error is dropped.
Track(w) ==
  /\ At(w, "track")
  /\ \/ rr' = rr \cup {svc(w)} /\ NoFault
     \/ UNCHANGED rr /\ Fault("db")
  /\ Advance(w, "inspect")
  /\ UNCHANGED <<row, dep, dom, dockerVars, buddyVars>>

\* A container that is missing, stopped or unhealthy; an error of Inspect
\* itself counts for nothing.
InspectService(w) ==
  /\ At(w, "inspect")
  /\ \E ok \in BOOLEAN :
       /\ IF ok THEN NoFault ELSE Fault("docker")
       /\ Locals(w, AfterService(w, pass[w].anyFailed,
                      pass[w].allHealthy /\ (ok => ctr[svc(w)].up)))
  /\ Goto(w, "services")
  /\ UNCHANGED <<lock, lapsed>>
  /\ UNCHANGED <<storeVars, dockerVars, buddyVars>>

ServicesDone(w) ==
  /\ At(w, "services")
  /\ pass[w].todo = {}
  /\ Advance(w, "domains")
  /\ NoFault
  /\ UNCHANGED <<storeVars, dockerVars, buddyVars>>

-----------------------------------------------------------------------------
\* 3. syncDomains: delete the rows, then write those of the topology. The
\* first statement that fails ends it, and the pass goes on.
DeleteDomains(w) ==
  /\ At(w, "domains")
  /\ \/ dom' = {} /\ NoFault /\ Advance(w, "routes")
     \/ dom' \in {dom, {}} /\ Fault("db") /\ Advance(w, "final")
  /\ UNCHANGED <<row, dep, rr, dockerVars, buddyVars>>

UpsertDomains(w) ==
  /\ At(w, "routes")
  /\ \/ dom' = dom \cup pass[w].env.topo /\ NoFault
     \/ (\E t \in SUBSET pass[w].env.topo : dom' = dom \cup t) /\ Fault("db")
  /\ Advance(w, "final")
  /\ UNCHANGED <<row, dep, rr, dockerVars, buddyVars>>

\* 4. Final state.
FinalState(w) ==
  /\ At(w, "final")
  /\ setState(w, IF ~pass[w].anyFailed /\ pass[w].allHealthy
                   THEN "healthy" ELSE "degraded")
  /\ Goto(w, "release")
  /\ UNCHANGED <<lock, lapsed>>
  /\ UNCHANGED <<dockerVars, buddyVars>>

\* The pass is over; its locals are gone.
EndPass(w) ==
  /\ Goto(w, "idle")
  /\ Locals(w, NoPass)
  /\ lapsed' = lapsed \ {w}

\* Mutant of Release: delete without the comparison.
Release_NoCompare(w) ==
  /\ At(w, "release")
  /\ lock' = Nobody
  /\ EndPass(w)
  /\ NoFault
  /\ UNCHANGED <<storeVars, dockerVars, buddyVars>>

\* The deferred lk.Release: compare and delete.
Release(w) ==
  /\ At(w, "release")
  /\ lock' = IF lock = w THEN Nobody ELSE lock
  /\ EndPass(w)
  /\ NoFault
  /\ UNCHANGED <<storeVars, dockerVars, buddyVars>>

-----------------------------------------------------------------------------
\* tearDown: only the containers that have a runtime_resources row. The error
\* of ByEnv is dropped, and with it the rows that were not read.
RuntimeRows(w) ==
  /\ At(w, "rows")
  /\ \E known \in SUBSET rr :
       /\ IF known = rr THEN NoFault ELSE Fault("db")
       /\ Locals(w, [pass[w] EXCEPT !.todo = known])
  /\ Goto(w, "containers")
  /\ UNCHANGED <<lock, lapsed>>
  /\ UNCHANGED <<storeVars, dockerVars, buddyVars>>

\* Mutant of RemoveContainer: the loop ends after the first container.
RemoveContainer_First(w) ==
  /\ At(w, "containers")
  /\ \E s \in pass[w].todo : RemoveByName(s)
  /\ Locals(w, [pass[w] EXCEPT !.todo = {}])
  /\ NoFault
  /\ UNCHANGED <<pc, lock, lapsed>>
  /\ UNCHANGED <<storeVars, buddyVars>>

\* The error of RemoveByName is dropped.
RemoveContainer(w) ==
  /\ At(w, "containers")
  /\ \E s \in pass[w].todo :
       /\ \/ RemoveByName(s) /\ NoFault
          \/ UNCHANGED dockerVars /\ Fault("docker")
       /\ Locals(w, [pass[w] EXCEPT !.todo = @ \ {s}])
  /\ UNCHANGED <<pc, lock, lapsed>>
  /\ UNCHANGED <<storeVars, buddyVars>>

\* The network goes last; its error is dropped as well.
RemoveEnvNetwork(w) ==
  /\ At(w, "containers")
  /\ pass[w].todo = {}
  /\ \/ RemoveNetwork /\ NoFault
     \/ UNCHANGED dockerVars /\ Fault("docker")
  /\ Advance(w, "unroute")
  /\ UNCHANGED <<storeVars, buddyVars>>

\* Mutant of Unroute: the domain rows stay.
Unroute_Keep(w) ==
  /\ At(w, "unroute")
  /\ Advance(w, "untrack")
  /\ NoFault
  /\ UNCHANGED <<storeVars, dockerVars, buddyVars>>

\* The errors of the last three statements are dropped as well.
Unroute(w) ==
  /\ At(w, "unroute")
  /\ \/ dom' = {} /\ NoFault
     \/ UNCHANGED dom /\ Fault("db")
  /\ Advance(w, "untrack")
  /\ UNCHANGED <<row, dep, rr, dockerVars, buddyVars>>

Untrack(w) ==
  /\ At(w, "untrack")
  /\ \/ rr' = {} /\ NoFault
     \/ UNCHANGED rr /\ Fault("db")
  /\ Advance(w, "mark")
  /\ UNCHANGED <<row, dep, dom, dockerVars, buddyVars>>

Mark(w) ==
  /\ At(w, "mark")
  /\ \/ MarkDestroyed /\ NoFault
     \/ UNCHANGED row /\ Fault("db")
  /\ Advance(w, "release")
  /\ UNCHANGED <<dep, dom, rr, dockerVars, buddyVars>>

-----------------------------------------------------------------------------
\* The process dies (main does not wait for its goroutines either): the key
\* stays until its TTL runs out.
Crash(w) ==
  /\ pc[w] # "idle"
  /\ Fault("crash")
  /\ lock' = IF lock = w THEN Orphan ELSE lock
  /\ EndPass(w)
  /\ UNCHANGED <<storeVars, dockerVars, buddyVars>>

\* The TTL of a live worker's lease runs out; Refresh has no caller.
LeaseExpires ==
  /\ lock \in Workers
  /\ Fault("expire")
  /\ lapsed' = lapsed \cup {lock}
  /\ lock' = Nobody
  /\ UNCHANGED <<pc, pass, storeVars, dockerVars, buddyVars>>

OrphanExpires ==
  /\ lock = Orphan
  /\ lock' = Nobody
  /\ NoFault
  /\ UNCHANGED <<pc, pass, lapsed, storeVars, dockerVars, buddyVars>>

\* One worker's own steps.
Pass(w) ==
  \/ List(w) \/ TryLock(w) \/ Read(w) \/ ReadFails(w)
  \/ Network(w) \/ degrade(w) \/ Promote(w)
  \/ LookUpFails(w) \/ NextService(w) \/ TriggerBuild(w) \/ TriggerFails(w)
  \/ InsertDeployment(w) \/ InsertFails(w)
  \/ Poll(w) \/ PollFails(w) \/ StillBuilding(w) \/ RecordFailed(w)
  \/ RemoveOld(w) \/ Create(w) \/ CreateRefused(w) \/ CreateFails(w)
  \/ RecordRunning(w) \/ Track(w) \/ InspectService(w) \/ ServicesDone(w)
  \/ DeleteDomains(w) \/ UpsertDomains(w) \/ FinalState(w) \/ Release(w)
  \/ RuntimeRows(w) \/ RemoveContainer(w) \/ RemoveEnvNetwork(w)
  \/ Unroute(w) \/ Untrack(w) \/ Mark(w)

\* What happens outside the program.
Surroundings ==
  \/ \E g \in Gens, s \in Services :
        Finish(g, s) /\ NoFault /\ UNCHANGED dockerVars
  \/ \E s \in Services :
        ContainerFails(s) /\ Fault("exit") /\ UNCHANGED buddyVars
=============================================================================
