------------------------- MODULE ControlPlaneProofs -------------------------
(***************************************************************************)
(* Proofs about the control plane, for any set of services, workers and    *)
(* callers, any topologies, and every bound on generations, operations and *)
(* faults. The inductive invariant is built up in parts: the types and     *)
(* what a worker knows of its pass (Typed), who has the deploy lock        *)
(* (PassHoldsLock), and that nothing is ahead of the row (Behind).         *)
(***************************************************************************)
EXTENDS ControlPlane, TLAPS

USE MaxGenAssumption, MaxFaultsAssumption, WorkerAssumption,
    ServiceAssumption, MaxOpsAssumption, TopologiesAssumption

\* The steps of a pass that deploys, and those of reconcileService.
ServiceSteps ==
  {"trigger", "insert", "poll", "building", "failed", "remove", "create",
   "noContainer", "running", "track", "inspect"}

DeploySteps ==
  ServiceSteps \cup
    {"network", "degrade", "promote", "services", "domains", "routes", "final"}

\* A pass that deploys captured a planned generation, and reconcileService
\* works on a service.
PassPlanned ==
  \A w \in Workers :
    /\ pc[w] \in DeploySteps => gen(w) \in Gens
    /\ pc[w] \in ServiceSteps => svc(w) \in Services

\* A row with a topology has been given a generation.
RowPlanned == row.topo # {} => row.gen \in Gens

WorkersTyped == ReconcilerTypeOK /\ PassPlanned
RowTyped == StoreTypeOK /\ RowPlanned

Typed ==
  /\ RowTyped
  /\ WorkersTyped
  /\ DockerTypeOK
  /\ BuddyTypeOK
  /\ FaultsTypeOK
  /\ LeftTypeOK
  /\ RequestsTypeOK

-----------------------------------------------------------------------------
(* What a step does to the worker that takes it.                           *)

\* The values that stand for nothing are typed.
LEMMA Nothing == NoDeployment \in Deployments /\ NoPass \in Passes
BY DEF NoDeployment, Deployments, NoPass, Passes, Rows, EnvStates

\* The locals after a service are typed, and keep the row that was read.
LEMMA Forget ==
  ASSUME WorkersTyped, NEW w \in Workers,
         NEW failed \in BOOLEAN, NEW healthy \in BOOLEAN
  PROVE  /\ AfterService(w, failed, healthy) \in Passes
         /\ AfterService(w, failed, healthy).env = pass[w].env
<1>1. pass[w] \in Passes
  BY DEF WorkersTyped, ReconcilerTypeOK
<1> QED
  BY <1>1, Nothing DEF Passes, AfterService

\* So are those for a service and its deployment.
LEMMA Take ==
  ASSUME NEW p \in Passes, NEW s \in Services, NEW d \in Deployments
  PROVE  LET r == [p EXCEPT !.svc = s, !.dep = d]
         IN  r \in Passes /\ r.env = p.env /\ r.svc = s
BY DEF Passes

\* A pass that takes up another deployment row stays one.
LEMMA TakeDeployment ==
  ASSUME NEW p \in Passes, NEW d \in Deployments
  PROVE  LET r == [p EXCEPT !.dep = d]
         IN  r \in Passes /\ r.env = p.env /\ r.svc = p.svc
BY DEF Passes

\* A worker goes to another step with new locals.
LEMMA Move ==
  ASSUME WorkersTyped,
         NEW w \in Workers, NEW r \in Passes, NEW step \in Steps,
         Locals(w, r), Goto(w, step),
         step \in DeploySteps => r.env.gen \in Gens,
         step \in ServiceSteps => r.svc \in Services,
         lock' \in Workers \cup {Nobody, Orphan},
         lapsed' \in SUBSET Workers
  PROVE  WorkersTyped'
BY DEF WorkersTyped, ReconcilerTypeOK, PassPlanned, Locals, Goto, gen, svc

\* A worker goes to another step with the locals it has.
LEMMA Stay ==
  ASSUME WorkersTyped,
         NEW w \in Workers, NEW step \in Steps,
         Goto(w, step), UNCHANGED pass,
         step \in DeploySteps => gen(w) \in Gens,
         step \in ServiceSteps => svc(w) \in Services,
         lock' \in Workers \cup {Nobody, Orphan},
         lapsed' \in SUBSET Workers
  PROVE  WorkersTyped'
BY DEF WorkersTyped, ReconcilerTypeOK, PassPlanned, Goto, gen, svc

\* From one step of reconcileService to the next.
LEMMA StayInService ==
  ASSUME WorkersTyped, NEW w \in Workers, pc[w] \in ServiceSteps,
         NEW step \in ServiceSteps, Advance(w, step)
  PROVE  WorkersTyped'
<1>1. gen(w) \in Gens /\ svc(w) \in Services
  BY DEF WorkersTyped, PassPlanned, DeploySteps
<1>2. step \in Steps
  BY DEF ServiceSteps, Steps
<1>3. lock' \in Workers \cup {Nobody, Orphan} /\ lapsed' \in SUBSET Workers
  BY DEF WorkersTyped, ReconcilerTypeOK, Advance
<1> QED
  BY <1>1, <1>2, <1>3, Stay DEF Advance

\* From one step of a pass to a step outside reconcileService.
LEMMA StayInPass ==
  ASSUME WorkersTyped, NEW w \in Workers,
         NEW step \in Steps \ ServiceSteps, Advance(w, step),
         pc[w] \in DeploySteps \/ step \notin DeploySteps
  PROVE  WorkersTyped'
<1>1. step \in DeploySteps => gen(w) \in Gens
  BY DEF WorkersTyped, PassPlanned
<1>2. lock' \in Workers \cup {Nobody, Orphan} /\ lapsed' \in SUBSET Workers
  BY DEF WorkersTyped, ReconcilerTypeOK, Advance
<1> QED
  BY <1>1, <1>2, Stay DEF Advance

\* reconcileService returns an error.
LEMMA AfterServiceFails ==
  ASSUME WorkersTyped, NEW w \in Workers, pc[w] \in DeploySteps, ServiceFails(w)
  PROVE  WorkersTyped'
<1> DEFINE r == AfterService(w, TRUE, FALSE)
<1>1. r \in Passes /\ r.env.gen = gen(w)
  BY Forget DEF gen
<1>2. gen(w) \in Gens
  BY DEF WorkersTyped, PassPlanned
<1>3. Locals(w, r) /\ Goto(w, "services") /\ UNCHANGED <<lock, lapsed>>
  BY DEF ServiceFails
<1>4. lock' \in Workers \cup {Nobody, Orphan} /\ lapsed' \in SUBSET Workers
  BY <1>3 DEF WorkersTyped, ReconcilerTypeOK
<1>5. "services" \in Steps /\ "services" \notin ServiceSteps
  BY DEF Steps, ServiceSteps
<1> HIDE DEF r
<1> QED
  BY <1>1, <1>2, <1>3, <1>4, <1>5, Move

\* setState writes the row and the local copy of its state, the row alone, or
\* nothing.
LEMMA AfterSetState ==
  ASSUME WorkersTyped, RowTyped,
         NEW w \in Workers, NEW to \in EnvStates,
         NEW step \in Steps \ ServiceSteps,
         pc[w] \in DeploySteps,
         setState(w, to) \/ UNCHANGED <<storeVars, pass>>,
         Goto(w, step), UNCHANGED <<lock, lapsed>>
  PROVE  WorkersTyped' /\ RowTyped'
<1> DEFINE r == [pass[w] EXCEPT !.env.state = to]
<1>1. gen(w) \in Gens
  BY DEF WorkersTyped, PassPlanned
<1>2. CASE UpdateState(to) /\ Locals(w, r) /\ UNCHANGED <<dep, dom, rr>>
  <2>1. r \in Passes /\ r.env.gen = gen(w)
    BY DEF WorkersTyped, ReconcilerTypeOK, Passes, Rows, gen
  <2>2. WorkersTyped'
    <3> HIDE DEF r
    <3> QED
      BY <1>1, <1>2, <2>1, Move DEF WorkersTyped, ReconcilerTypeOK
  <2>3. RowTyped'
    BY <1>2 DEF RowTyped, StoreTypeOK, RowPlanned, Rows, UpdateState
  <2> QED
    BY <2>2, <2>3
<1>3. CASE /\ UpdateState(to) \/ UNCHANGED row
           /\ UNCHANGED <<dep, dom, rr, pass>>
  <2>1. RowTyped'
    BY <1>3 DEF RowTyped, StoreTypeOK, RowPlanned, Rows, UpdateState
  <2>2. WorkersTyped'
    BY <1>1, <1>3, Stay DEF WorkersTyped, ReconcilerTypeOK
  <2> QED
    BY <2>1, <2>2
<1> QED
  BY <1>2, <1>3 DEF setState, storeVars

-----------------------------------------------------------------------------
(* Each part of the type invariant, through every step of a worker.        *)

\* The worker's own variables.
LEMMA PassWorkers ==
  ASSUME Typed, NEW w \in Workers, Pass(w)
  PROVE  WorkersTyped'
<1> USE DEF Typed
<1>a. \A step \in ServiceSteps : step \in Steps /\ step \in DeploySteps
  BY DEF ServiceSteps, DeploySteps, Steps
<1>1. CASE List(w)
  BY <1>1, StayInPass DEF List, Steps, ServiceSteps, DeploySteps
<1>16. CASE ReadFails(w)
  BY <1>16, StayInPass DEF ReadFails, Steps, ServiceSteps, DeploySteps
<1>2. CASE TryLock(w)
  <2>1. /\ lock' \in Workers \cup {Nobody, Orphan}
        /\ lapsed' \in SUBSET Workers
    BY <1>2 DEF TryLock, WorkersTyped, ReconcilerTypeOK
  <2>2. \A step \in {"locked", "idle"} : step \in Steps \ DeploySteps
    BY DEF Steps, DeploySteps, ServiceSteps
  <2> QED
    BY <1>2, <1>a, <2>1, <2>2, Stay DEF TryLock
<1>3. CASE Read(w)
  <2> DEFINE r == [NoPass EXCEPT !.env = row, !.todo = row.topo]
  <2>1. r \in Passes /\ r.env = row
    BY DEF NoPass, Passes, RowTyped, StoreTypeOK, Rows, Deployments, NoDeployment, EnvStates
  <2>2. PICK step \in {"release", "rows", "network"} :
          /\ Goto(w, step)
          /\ step = "network" => row.topo # {}
    BY <1>3 DEF Read
  <2>3. step \in Steps \ ServiceSteps /\ (step \in DeploySteps => step = "network")
    BY <2>2 DEF Steps, DeploySteps, ServiceSteps
  <2>4. step \in DeploySteps => row.gen \in Gens
    BY <2>2, <2>3 DEF RowTyped, RowPlanned
  <2>5. Locals(w, r) /\ UNCHANGED <<lock, lapsed>>
    BY <1>3 DEF Read
  <2>6. /\ lock' \in Workers \cup {Nobody, Orphan}
        /\ lapsed' \in SUBSET Workers
    BY <2>5 DEF WorkersTyped, ReconcilerTypeOK
  <2> HIDE DEF r
  <2> QED
    BY <2>1, <2>2, <2>3, <2>4, <2>5, <2>6, Move
<1>4. CASE Network(w)
  BY <1>4, StayInPass DEF Network, At, Steps, ServiceSteps, DeploySteps
<1>5. CASE degrade(w) \/ Promote(w) \/ FinalState(w)
  <2>1. pc[w] \in DeploySteps
    BY <1>5 DEF degrade, Promote, FinalState, At, DeploySteps
  <2>2. {"degraded", "deploying", "healthy"} \subseteq EnvStates
    BY DEF EnvStates
  <2>3. {"release", "services"} \subseteq Steps \ ServiceSteps
    BY DEF Steps, ServiceSteps
  <2> QED
    BY <1>5, <2>1, <2>2, <2>3, AfterSetState DEF degrade, Promote, FinalState
<1>6. CASE NextService(w)
  <2>0. PICK s \in pass[w].todo :
          \E d \in {dep[gen(w)][s], NoDeployment} :
             Locals(w, [pass[w] EXCEPT !.svc = s, !.dep = d])
    BY <1>6 DEF NextService
  <2>1. PICK d \in {dep[gen(w)][s], NoDeployment} :
          Locals(w, [pass[w] EXCEPT !.svc = s, !.dep = d])
    BY <2>0
  <2> DEFINE r == [pass[w] EXCEPT !.svc = s, !.dep = d]
  <2>2. gen(w) \in Gens
    BY <1>6 DEF NextService, At, WorkersTyped, PassPlanned, DeploySteps
  <2>3. s \in Services
    BY <2>0 DEF WorkersTyped, ReconcilerTypeOK, Passes
  <2>4. d \in Deployments
    BY <2>2, <2>3, Nothing DEF RowTyped, StoreTypeOK
  <2>5. r \in Passes /\ r.env.gen = gen(w) /\ r.svc = s
    <3>1. pass[w] \in Passes
      BY DEF WorkersTyped, ReconcilerTypeOK
    <3>2. \A p \in Passes, e \in Deployments :
             LET q == [p EXCEPT !.svc = s, !.dep = e]
             IN  q \in Passes /\ q.env = p.env /\ q.svc = s
      BY <2>3, Take
    <3>3. r \in Passes /\ r.env = pass[w].env /\ r.svc = s
      BY <3>1, <3>2, <2>4, Zenon
    <3> HIDE DEF r
    <3> QED
      BY <3>3 DEF gen
  <2>6. PICK step \in {"trigger", "poll", "remove"} : Goto(w, step)
    BY <1>6 DEF NextService
  <2>7. step \in Steps
    BY <2>6 DEF Steps
  <2>8. /\ lock' \in Workers \cup {Nobody, Orphan}
        /\ lapsed' \in SUBSET Workers
    BY <1>6 DEF NextService, WorkersTyped, ReconcilerTypeOK
  <2> HIDE DEF r
  <2>9. Locals(w, r)
    BY <2>1 DEF r
  <2> QED
    BY <2>2, <2>3, <2>5, <2>6, <2>7, <2>8, <2>9, Move
<1>7. CASE TriggerBuild(w)
  <2> DEFINE n == runs[gen(w)][svc(w)] + 1
             r == [pass[w] EXCEPT !.dep = [run |-> n, state |-> "building"]]
  <2>1. pc[w] \in ServiceSteps
    BY <1>7 DEF TriggerBuild, At, ServiceSteps
  <2>2. gen(w) \in Gens /\ svc(w) \in Services
    BY <2>1, <1>a DEF WorkersTyped, PassPlanned
  <2>3. r \in Passes /\ r.env.gen = gen(w) /\ r.svc = svc(w)
    <3>1. pass[w] \in Passes
      BY DEF WorkersTyped, ReconcilerTypeOK
    <3>2. [run |-> n, state |-> "building"] \in Deployments
      BY <2>2 DEF BuddyTypeOK, Deployments
    <3> HIDE DEF n
    <3> QED
      BY <3>1, <3>2, TakeDeployment DEF gen, svc
  <2>4. /\ Locals(w, r) /\ Goto(w, "insert")
        /\ lock' \in Workers \cup {Nobody, Orphan}
        /\ lapsed' \in SUBSET Workers
    BY <1>7 DEF TriggerBuild, WorkersTyped, ReconcilerTypeOK
  <2> HIDE DEF r
  <2> QED
    BY <2>2, <2>3, <2>4, Move DEF Steps
<1>8. CASE TriggerFails(w) \/ InsertFails(w) \/ PollFails(w) \/ RecordFailed(w)
  <2>1. pc[w] \in DeploySteps
    BY <1>8 DEF TriggerFails, InsertFails, PollFails, RecordFailed, At,
                DeploySteps, ServiceSteps
  <2>2. ServiceFails(w)
    BY <1>8 DEF TriggerFails, InsertFails, PollFails, RecordFailed
  <2> QED
    BY <2>1, <2>2, AfterServiceFails
<1>9. CASE \/ InsertDeployment(w) \/ Poll(w) \/ StillBuilding(w) \/ RemoveOld(w)
           \/ Create(w) \/ CreateRefused(w) \/ CreateFails(w)
           \/ RecordRunning(w) \/ Track(w)
  <2>1. pc[w] \in ServiceSteps
    BY <1>9 DEF InsertDeployment, Poll, StillBuilding, RemoveOld, Create,
                CreateRefused, CreateFails, RecordRunning, Track, At, ServiceSteps
  <2>2. PICK step \in {"poll", "remove", "failed", "building", "inspect",
                       "create", "noContainer", "running", "track"} :
          Advance(w, step)
    BY <1>9 DEF InsertDeployment, Poll, StillBuilding, RemoveOld, Create,
                CreateRefused, CreateFails, RecordRunning, Track
  <2>3. step \in ServiceSteps
    BY <2>2 DEF ServiceSteps
  <2> QED
    BY <2>1, <2>2, <2>3, StayInService
<1>10. CASE InspectService(w)
  <2>1. PICK h \in BOOLEAN : Locals(w, AfterService(w, pass[w].anyFailed, h))
    <3>1. PICK ok \in BOOLEAN :
            Locals(w, AfterService(w, pass[w].anyFailed,
                        pass[w].allHealthy /\ (ok => ctr[svc(w)].up)))
      BY <1>10 DEF InspectService
    <3>2. (pass[w].allHealthy /\ (ok => ctr[svc(w)].up)) \in BOOLEAN
      OBVIOUS
    <3> QED
      BY <3>1, <3>2
  <2> DEFINE r == AfterService(w, pass[w].anyFailed, h)
  <2>2. gen(w) \in Gens
    BY <1>10, <1>a DEF InspectService, At, WorkersTyped, PassPlanned, ServiceSteps
  <2>3. r \in Passes /\ r.env.gen = gen(w)
    <3>1. pass[w].anyFailed \in BOOLEAN
      BY DEF WorkersTyped, ReconcilerTypeOK, Passes
    <3> QED
      BY <3>1, Forget DEF gen
  <2>4. /\ Locals(w, r) /\ Goto(w, "services")
        /\ lock' \in Workers \cup {Nobody, Orphan}
        /\ lapsed' \in SUBSET Workers
    BY <1>10, <2>1 DEF InspectService, WorkersTyped, ReconcilerTypeOK
  <2>5. "services" \in Steps \ ServiceSteps
    BY DEF Steps, ServiceSteps
  <2> HIDE DEF r
  <2> QED
    BY <2>2, <2>3, <2>4, <2>5, Move
<1>11. CASE ServicesDone(w) \/ DeleteDomains(w) \/ UpsertDomains(w)
  BY <1>11, StayInPass
  DEF ServicesDone, DeleteDomains, UpsertDomains, At, Steps, ServiceSteps, DeploySteps
<1>12. CASE Release(w)
  <2>1. NoPass \in Passes
    BY Nothing
  <2>2. "idle" \in Steps \ DeploySteps
    BY DEF Steps, DeploySteps, ServiceSteps
  <2>3. /\ Locals(w, NoPass) /\ Goto(w, "idle")
        /\ lock' \in Workers \cup {Nobody, Orphan}
        /\ lapsed' \in SUBSET Workers
    BY <1>12 DEF Release, EndPass, WorkersTyped, ReconcilerTypeOK
  <2> QED
    BY <2>1, <2>2, <2>3, <1>a, Move
<1>13. CASE RuntimeRows(w)
  <2>0. PICK known \in SUBSET rr : Locals(w, [pass[w] EXCEPT !.todo = known])
    BY <1>13 DEF RuntimeRows
  <2> DEFINE r == [pass[w] EXCEPT !.todo = known]
  <2>1. r \in Passes
    BY DEF WorkersTyped, ReconcilerTypeOK, Passes, RowTyped, StoreTypeOK
  <2>2. "containers" \in Steps \ DeploySteps
    BY DEF Steps, DeploySteps, ServiceSteps
  <2>3. /\ Locals(w, r) /\ Goto(w, "containers")
        /\ lock' \in Workers \cup {Nobody, Orphan}
        /\ lapsed' \in SUBSET Workers
    BY <1>13, <2>0 DEF RuntimeRows, WorkersTyped, ReconcilerTypeOK
  <2> HIDE DEF r
  <2> QED
    BY <2>1, <2>2, <2>3, <1>a, Move
<1>14. CASE RemoveContainer(w)
  <2>1. PICK s \in pass[w].todo : Locals(w, [pass[w] EXCEPT !.todo = @ \ {s}])
    BY <1>14 DEF RemoveContainer
  <2> DEFINE r == [pass[w] EXCEPT !.todo = @ \ {s}]
  <2>2. r \in Passes
    BY DEF WorkersTyped, ReconcilerTypeOK, Passes
  <2>3. "containers" \in Steps \ DeploySteps
    BY DEF Steps, DeploySteps, ServiceSteps
  <2>4. /\ Goto(w, "containers")
        /\ lock' \in Workers \cup {Nobody, Orphan}
        /\ lapsed' \in SUBSET Workers
    BY <1>14 DEF RemoveContainer, At, Goto, WorkersTyped, ReconcilerTypeOK
  <2> HIDE DEF r
  <2>5. Locals(w, r)
    BY <2>1 DEF r
  <2> QED
    BY <2>2, <2>3, <2>4, <2>5, <1>a, Move
<1>15. CASE RemoveEnvNetwork(w) \/ Unroute(w) \/ Untrack(w) \/ Mark(w)
  BY <1>15, StayInPass
  DEF RemoveEnvNetwork, Unroute, Untrack, Mark, Steps, ServiceSteps, DeploySteps
<1>17. CASE LookUpFails(w)
  <2>1. PICK s \in pass[w].todo :
          Locals(w, [pass[w] EXCEPT !.todo = @ \ {s}, !.anyFailed = TRUE,
                                    !.allHealthy = FALSE])
    BY <1>17 DEF LookUpFails
  <2> DEFINE r == [pass[w] EXCEPT !.todo = @ \ {s}, !.anyFailed = TRUE,
                                  !.allHealthy = FALSE]
  <2>2. r \in Passes /\ r.env.gen = gen(w)
    <3>1. \A p \in Passes :
             LET q == [p EXCEPT !.todo = @ \ {s}, !.anyFailed = TRUE,
                                !.allHealthy = FALSE]
             IN  q \in Passes /\ q.env = p.env
      BY DEF Passes
    <3>2. pass[w] \in Passes
      BY DEF WorkersTyped, ReconcilerTypeOK
    <3> QED
      BY <3>1, <3>2, Zenon DEF gen
  <2>3. "services" \in Steps \ ServiceSteps /\ gen(w) \in Gens
    BY <1>17 DEF LookUpFails, At, Steps, DeploySteps, ServiceSteps,
                 WorkersTyped, PassPlanned
  <2>4. /\ Goto(w, "services")
        /\ lock' \in Workers \cup {Nobody, Orphan}
        /\ lapsed' \in SUBSET Workers
    BY <1>17 DEF LookUpFails, At, Goto, WorkersTyped, ReconcilerTypeOK
  <2> HIDE DEF r
  <2>5. Locals(w, r)
    BY <2>1 DEF r
  <2> QED
    BY <2>2, <2>3, <2>4, <2>5, Move
<1> QED
  BY <1>1, <1>2, <1>3, <1>4, <1>5, <1>6, <1>7, <1>8, <1>9, <1>10, <1>11,
     <1>12, <1>13, <1>14, <1>15, <1>16, <1>17 DEF Pass

\* What a worker at a step of reconcileService works on.
LEMMA AtService ==
  ASSUME WorkersTyped, NEW w \in Workers, pc[w] \in ServiceSteps
  PROVE  gen(w) \in Gens /\ svc(w) \in Services /\ pc[w] \in DeploySteps
BY DEF WorkersTyped, PassPlanned, DeploySteps

\* The steps that write nothing in PostgreSQL.
LEMMA PassReads ==
  ASSUME NEW w \in Workers,
         \/ List(w) \/ TryLock(w) \/ Read(w) \/ ReadFails(w) \/ Network(w)
         \/ LookUpFails(w) \/ NextService(w)
         \/ TriggerBuild(w) \/ Poll(w) \/ PollFails(w) \/ RemoveOld(w)
         \/ Create(w) \/ CreateRefused(w) \/ CreateFails(w)
         \/ InspectService(w) \/ ServicesDone(w) \/ Release(w)
         \/ RuntimeRows(w) \/ RemoveContainer(w) \/ RemoveEnvNetwork(w)
  PROVE  UNCHANGED storeVars
BY DEF List, TryLock, Read, ReadFails, Network, LookUpFails, NextService,
       TriggerBuild, Poll, PollFails, RemoveOld, Create, CreateRefused, CreateFails, InspectService,
       ServicesDone, Release, RuntimeRows, RemoveContainer, RemoveEnvNetwork

\* The steps that write a deployment, each one of the captured generation.
Records(w) ==
  \/ TriggerFails(w) \/ InsertDeployment(w) \/ InsertFails(w)
  \/ StillBuilding(w) \/ RecordFailed(w) \/ RecordRunning(w)

\* A pass records builds and containers under the generation it has read.
LEMMA PassRecords ==
  ASSUME Typed, NEW w \in Workers, Records(w)
  PROVE  /\ UNCHANGED <<row, dom, rr>>
         /\ gen(w) \in Gens
         /\ dep' \in [Gens -> [Services -> Deployments]]
         /\ \A g \in Gens, s \in Services :
               g # gen(w) => dep'[g][s] = dep[g][s]
<1> USE DEF Typed
<1>1. gen(w) \in Gens /\ svc(w) \in Services
  <2>1. pc[w] \in ServiceSteps
    BY DEF Records, TriggerFails, InsertDeployment, InsertFails, StillBuilding,
           RecordFailed, RecordRunning, At, ServiceSteps
  <2> QED
    BY <2>1, AtService
<1>2. dep \in [Gens -> [Services -> Deployments]] /\ pass[w].dep \in Deployments
  BY DEF RowTyped, StoreTypeOK, WorkersTyped, ReconcilerTypeOK, Passes
<1>3. UNCHANGED <<row, dom, rr>>
  BY DEF Records, TriggerFails, InsertDeployment, InsertFails, StillBuilding,
         RecordFailed, RecordRunning
<1>4. CASE UNCHANGED dep
  BY <1>1, <1>2, <1>3, <1>4
<1>5. ASSUME ~UNCHANGED dep
      PROVE  \E d \in Deployments : dep' = [dep EXCEPT ![gen(w)][svc(w)] = d]
  <2>1. CASE TriggerFails(w)
    <3>1. [run |-> 0, state |-> "failed"] \in Deployments
      BY DEF Deployments
    <3> QED
      BY <1>5, <2>1, <3>1 DEF TriggerFails, Insert
  <2>2. CASE InsertDeployment(w) \/ InsertFails(w)
    BY <1>2, <1>5, <2>2 DEF InsertDeployment, InsertFails, Insert
  <2>3. CASE StillBuilding(w) \/ RecordFailed(w) \/ RecordRunning(w)
    <3>1. PICK to \in {"building", "failed", "running"} :
            UpdateRuntime(gen(w), svc(w), to)
      BY <1>5, <2>3 DEF StillBuilding, RecordFailed, RecordRunning, Record
    <3> DEFINE d == [dep[gen(w)][svc(w)] EXCEPT !.state = to]
    <3>2. dep[gen(w)][svc(w)] \in Deployments
      BY <1>1, <1>2
    <3>3. d \in Deployments
      BY <3>2 DEF Deployments
    <3>4. dep' = [dep EXCEPT ![gen(w)][svc(w)] = d]
      BY <3>1 DEF UpdateRuntime
    <3> QED
      BY <3>3, <3>4
  <2> QED
    BY <2>1, <2>2, <2>3 DEF Records
<1> QED
  BY <1>1, <1>2, <1>3, <1>4, <1>5

\* The rows of PostgreSQL.
LEMMA PassStore ==
  ASSUME Typed, NEW w \in Workers, Pass(w)
  PROVE  RowTyped' /\ row'.gen = row.gen
<1> USE DEF Typed
<1>0. row \in Rows
  BY DEF RowTyped, StoreTypeOK
<1>1. CASE UNCHANGED storeVars
  BY <1>1 DEF RowTyped, StoreTypeOK, RowPlanned, storeVars
<1>2. CASE degrade(w) \/ Promote(w) \/ FinalState(w)
  <2>1. pc[w] \in DeploySteps
    BY <1>2 DEF degrade, Promote, FinalState, At, DeploySteps
  <2>2. {"degraded", "deploying", "healthy"} \subseteq EnvStates
    BY DEF EnvStates
  <2>3. {"release", "services"} \subseteq Steps \ ServiceSteps
    BY DEF Steps, ServiceSteps
  <2>4. RowTyped'
    BY <1>2, <2>1, <2>2, <2>3, AfterSetState DEF degrade, Promote, FinalState
  <2>5. PICK to : UpdateState(to) \/ UNCHANGED row
    BY <1>2 DEF degrade, Promote, FinalState, setState, storeVars
  <2> QED
    BY <1>0, <2>4, <2>5 DEF UpdateState, Rows
<1>3. CASE Records(w)
  BY <1>3, PassRecords DEF RowTyped, StoreTypeOK, RowPlanned
<1>4. CASE Track(w)
  <2>1. svc(w) \in Services
    BY <1>4, AtService DEF Track, At, ServiceSteps
  <2> QED
    BY <1>4, <2>1 DEF Track, RowTyped, StoreTypeOK, RowPlanned
<1>5. CASE DeleteDomains(w) \/ Unroute(w) \/ Untrack(w)
  BY <1>5 DEF DeleteDomains, Unroute, Untrack, RowTyped, StoreTypeOK, RowPlanned
<1>6. CASE UpsertDomains(w)
  <2>1. pass[w].env.topo \subseteq Services
    BY DEF WorkersTyped, ReconcilerTypeOK, Passes, Rows
  <2> QED
    BY <1>6, <2>1 DEF UpsertDomains, RowTyped, StoreTypeOK, RowPlanned
<1>7. CASE Mark(w)
  BY <1>0, <1>7
  DEF Mark, MarkDestroyed, RowTyped, StoreTypeOK, RowPlanned, Rows, EnvStates
<1> QED
  BY <1>1, <1>2, <1>3, <1>4, <1>5, <1>6, <1>7, PassReads DEF Pass, Records

\* The steps that call neither the Docker host nor Buddy.
LEMMA PassCallsNobody ==
  ASSUME NEW w \in Workers,
         \/ List(w) \/ TryLock(w) \/ Read(w) \/ ReadFails(w) \/ degrade(w)
         \/ Promote(w) \/ LookUpFails(w) \/ NextService(w)
         \/ InsertDeployment(w) \/ InsertFails(w) \/ Poll(w) \/ PollFails(w)
         \/ StillBuilding(w) \/ RecordFailed(w) \/ CreateRefused(w)
         \/ RecordRunning(w) \/ Track(w) \/ InspectService(w) \/ ServicesDone(w)
         \/ DeleteDomains(w) \/ UpsertDomains(w) \/ FinalState(w) \/ Release(w)
         \/ RuntimeRows(w) \/ Unroute(w) \/ Untrack(w) \/ Mark(w)
  PROVE  UNCHANGED <<ctr, net, buddyVars>>
BY DEF List, TryLock, Read, ReadFails, degrade, Promote, LookUpFails,
       NextService, InsertDeployment, InsertFails, Poll, PollFails, StillBuilding, RecordFailed, CreateRefused,
       RecordRunning, Track, InspectService, ServicesDone, DeleteDomains,
       UpsertDomains, FinalState, Release, RuntimeRows, Unroute, Untrack, Mark,
       dockerVars

\* What a worker does to a container: nothing, remove it, or replace it by one
\* of the generation it captured.
LEMMA PassContainers ==
  ASSUME Typed, NEW w \in Workers, Pass(w)
  PROVE  /\ DockerTypeOK'
         /\ \A s \in Services :
               \/ ctr'[s] = ctr[s]
               \/ ctr'[s] = Absent
               \/ ctr'[s].gen = gen(w) /\ gen(w) \in Gens
<1> USE DEF Typed
<1>0. /\ DockerTypeOK
      /\ ctr \in [Services -> Containers]
      /\ net \in BOOLEAN
      /\ Absent \in Containers
  BY DEF DockerTypeOK, Containers, Absent
<1>1. CASE UNCHANGED ctr /\ net' \in BOOLEAN
  BY <1>0, <1>1 DEF DockerTypeOK
<1>2. CASE \E s \in Services : RemoveByName(s)
  BY <1>0, <1>2 DEF DockerTypeOK, RemoveByName
<1>3. CASE Create(w) \/ CreateFails(w)
  <2>1. gen(w) \in Gens /\ svc(w) \in Services
    BY <1>3, AtService DEF Create, CreateFails, At, ServiceSteps
  <2>2. CASE UNCHANGED dockerVars
    BY <1>1, <1>0, <2>2 DEF dockerVars
  <2>3. CASE \E up \in BOOLEAN : CreateContainer(svc(w), gen(w), up)
    <3>1. PICK up \in BOOLEAN :
            /\ ctr' = [ctr EXCEPT ![svc(w)] = [gen |-> gen(w), up |-> up]]
            /\ UNCHANGED net
      BY <2>3 DEF CreateContainer
    <3>2. [gen |-> gen(w), up |-> up] \in Containers
      BY <2>1 DEF Containers, Gens
    <3> QED
      BY <1>0, <2>1, <3>1, <3>2 DEF DockerTypeOK
  <2> QED
    BY <1>3, <2>2, <2>3 DEF Create, CreateFails
<1>4. CASE RemoveOld(w)
  <2>1. svc(w) \in Services
    BY <1>4, AtService DEF RemoveOld, At, ServiceSteps
  <2> QED
    BY <1>0, <1>1, <1>2, <1>4, <2>1 DEF RemoveOld, dockerVars
<1>5. CASE RemoveContainer(w)
  <2>1. pass[w].todo \subseteq Services
    BY DEF WorkersTyped, ReconcilerTypeOK, Passes
  <2> QED
    BY <1>0, <1>1, <1>2, <1>5, <2>1 DEF RemoveContainer, dockerVars
<1>6. CASE Network(w) \/ RemoveEnvNetwork(w)
  BY <1>0, <1>1, <1>6
  DEF Network, RemoveEnvNetwork, EnsureNetwork, RemoveNetwork, dockerVars
<1>7. CASE TriggerBuild(w) \/ TriggerFails(w)
  BY <1>0, <1>1, <1>7 DEF TriggerBuild, TriggerFails, dockerVars
<1>8. CASE UNCHANGED <<ctr, net, buddyVars>>
  BY <1>0, <1>1, <1>8
<1> QED
  BY <1>3, <1>4, <1>5, <1>6, <1>7, <1>8, PassCallsNobody DEF Pass

\* What a worker does to Buddy's runs: start one of the generation it captured.
LEMMA PassRuns ==
  ASSUME Typed, NEW w \in Workers, Pass(w)
  PROVE  /\ BuddyTypeOK'
         /\ \/ UNCHANGED runs
            \/ /\ gen(w) \in Gens
               /\ \A g \in Gens, s \in Services :
                     g # gen(w) => runs'[g][s] = runs[g][s]
<1> USE DEF Typed
<1>1. CASE UNCHANGED buddyVars
  BY <1>1 DEF BuddyTypeOK, buddyVars
<1>2. CASE (TriggerBuild(w) \/ TriggerFails(w)) /\ Trigger(gen(w), svc(w))
  <2>1. gen(w) \in Gens /\ svc(w) \in Services
    BY <1>2, AtService DEF TriggerBuild, TriggerFails, At, ServiceSteps
  <2>2. runs' = [runs EXCEPT ![gen(w)][svc(w)] = @ + 1] /\ UNCHANGED <<passed, broken>>
    BY <1>2 DEF Trigger
  <2> QED
    BY <2>1, <2>2 DEF BuddyTypeOK
<1>3. CASE \/ Network(w) \/ RemoveOld(w) \/ Create(w) \/ CreateFails(w)
           \/ RemoveContainer(w) \/ RemoveEnvNetwork(w)
  BY <1>1, <1>3
  DEF Network, RemoveOld, Create, CreateFails, RemoveContainer, RemoveEnvNetwork
<1>4. CASE UNCHANGED <<ctr, net, buddyVars>>
  BY <1>1, <1>4
<1>5. CASE TriggerBuild(w) \/ TriggerFails(w)
  BY <1>1, <1>2, <1>5 DEF TriggerBuild, TriggerFails
<1> QED
  BY <1>3, <1>4, <1>5, PassCallsNobody DEF Pass

\* A fault is counted, up to the bound.
LEMMA Counted ==
  ASSUME FaultsTypeOK, NoFault \/ \E kind : Fault(kind)
  PROVE  FaultsTypeOK'
BY DEF FaultsTypeOK, NoFault, Fault

\* A step of a pass is one fault or none.
LEMMA PassFaults ==
  ASSUME NEW w \in Workers, Pass(w)
  PROVE  NoFault \/ \E kind : Fault(kind)
<1>1. CASE \/ List(w) \/ TryLock(w) \/ Read(w) \/ Network(w) \/ degrade(w)
           \/ Promote(w) \/ NextService(w) \/ TriggerBuild(w) \/ TriggerFails(w)
           \/ InsertDeployment(w) \/ Poll(w) \/ PollFails(w) \/ StillBuilding(w)
           \/ ReadFails(w) \/ LookUpFails(w) \/ InsertFails(w)
  BY <1>1 DEF List, TryLock, Read, Network, degrade, Promote, NextService,
     TriggerBuild, TriggerFails, InsertDeployment, Poll, PollFails, StillBuilding,
     ReadFails, LookUpFails, InsertFails, setState, Record
<1>2. CASE \/ RecordFailed(w) \/ RemoveOld(w) \/ Create(w) \/ CreateRefused(w)
           \/ CreateFails(w) \/ RecordRunning(w) \/ Track(w) \/ ServicesDone(w)
           \/ DeleteDomains(w) \/ UpsertDomains(w) \/ FinalState(w) \/ Release(w)
  BY <1>2 DEF RecordFailed, RemoveOld, Create, CreateRefused, CreateFails,
     RecordRunning, Track, ServicesDone, DeleteDomains, UpsertDomains,
     FinalState, Release, setState, Record
<1>3. CASE InspectService(w) \/ RemoveContainer(w)
  BY <1>3 DEF InspectService, RemoveContainer
<1>4. CASE \/ RuntimeRows(w) \/ RemoveEnvNetwork(w) \/ Unroute(w)
           \/ Untrack(w) \/ Mark(w)
  BY <1>4 DEF RuntimeRows, RemoveEnvNetwork, Unroute, Untrack, Mark
<1> QED
  BY <1>1, <1>2, <1>3, <1>4 DEF Pass

-----------------------------------------------------------------------------
(* The same for what is not a worker's step.                               *)

\* Requests, events and the cleaner write the row, and never lower its
\* generation.
LEMMA CallerStep ==
  ASSUME Typed, NEW c \in Callers, Caller(c)
  PROVE  /\ RowTyped' /\ RequestsTypeOK'
         /\ UNCHANGED <<dep, dom, rr>>
         /\ row'.gen >= row.gen
<1> USE DEF Typed
<1>0. row \in Rows
  BY DEF RowTyped, StoreTypeOK
<1>1. UNCHANGED <<dep, dom, rr>>
  BY DEF Caller, Request, Write, destroyEnv, closePR, cleanerTick, suspendEnv,
         resumeEnv, planEvent, requestRestart, LookUp, Destroy, Suspend, Resume,
         Plan, PlanFails, MarkFailed, MarkResolving, Replan, MarkDeploying, Then,
         storeVars
<1>2. RequestsTypeOK'
  <2> DEFINE Calls == {"none", "destroy", "suspend", "resume", "plan",
                       "resolving", "unplanned", "replan", "deploying"}
  <2>1. PICK next \in Calls : call' = [call EXCEPT ![c] = next]
    BY DEF Caller, Request, Write, destroyEnv, closePR, cleanerTick, suspendEnv,
           resumeEnv, planEvent, requestRestart, LookUp, Destroy, Suspend,
           Resume, Plan, PlanFails, MarkFailed, MarkResolving, Replan,
           MarkDeploying, Then
  <2>2. ops' = ops \/ (ops < MaxOps /\ ops' = ops + 1)
    BY DEF Caller, Request, Write, destroyEnv, closePR, cleanerTick, suspendEnv,
           resumeEnv, planEvent, requestRestart, LookUp, Destroy, Suspend,
           Resume, Plan, PlanFails, MarkFailed, MarkResolving, Replan,
           MarkDeploying, Then
  <2> QED
    BY <2>1, <2>2 DEF RequestsTypeOK
<1>3. \/ UNCHANGED row
      \/ \E to \in EnvStates : UpdateState(to)
      \/ \E b \in BOOLEAN : SetSuspended(b)
      \/ \E t \in Topologies : BumpGeneration(t)
  <2>1. {"destroying", "failed", "resolving", "deploying"} \subseteq EnvStates
    BY DEF EnvStates
  <2>2. CASE Request(c)
    BY <2>2 DEF Request, destroyEnv, closePR, cleanerTick, suspendEnv,
         resumeEnv, planEvent, requestRestart, LookUp, storeVars
  <2>3. CASE Write(c)
    BY <2>1, <2>3 DEF Write, Destroy, Suspend, Resume, Plan, PlanFails,
         MarkFailed, MarkResolving, Replan, MarkDeploying
  <2> QED
    BY <2>2, <2>3 DEF Caller
<1>4. CASE UNCHANGED row
  BY <1>0, <1>1, <1>2, <1>4 DEF RowTyped, StoreTypeOK, RowPlanned, Rows
<1>5. CASE \E to \in EnvStates : UpdateState(to)
  BY <1>0, <1>1, <1>2, <1>5 DEF RowTyped, StoreTypeOK, RowPlanned, Rows, UpdateState
<1>6. CASE \E b \in BOOLEAN : SetSuspended(b)
  BY <1>0, <1>1, <1>2, <1>6 DEF RowTyped, StoreTypeOK, RowPlanned, Rows, SetSuspended
<1>7. CASE \E t \in Topologies : BumpGeneration(t)
  <2>1. PICK t \in SUBSET Services : BumpGeneration(t)
    BY <1>7
  <2>2. /\ row'.gen = row.gen + 1 /\ row' \in Rows
        /\ row.gen \in 0..MaxGen /\ row.gen < MaxGen
    <3>1. row.gen < MaxGen /\ row' = [row EXCEPT !.gen = @ + 1, !.topo = t]
      BY <2>1 DEF BumpGeneration
    <3>2. row.gen \in 0..MaxGen /\ row.gen + 1 \in 0..MaxGen
      BY <1>0, <3>1 DEF Rows
    <3> QED
      BY <1>0, <3>1, <3>2 DEF Rows
  <2>3. row'.gen \in Gens
    BY <2>2 DEF Gens
  <2> QED
    BY <1>1, <1>2, <2>2, <2>3 DEF RowTyped, StoreTypeOK, RowPlanned
<1> QED
  BY <1>1, <1>2, <1>3, <1>4, <1>5, <1>6, <1>7

\* A crash, or a lease that expires.
LEMMA LeaseStep ==
  ASSUME Typed, (\E w \in Workers : Crash(w)) \/ LeaseExpires \/ OrphanExpires
  PROVE  /\ WorkersTyped' /\ FaultsTypeOK'
         /\ UNCHANGED <<storeVars, dockerVars, buddyVars>>
<1> USE DEF Typed
<1>1. ASSUME NEW w \in Workers, Crash(w)
      PROVE  WorkersTyped'
  <2>1. "idle" \in Steps \ DeploySteps /\ "idle" \notin ServiceSteps
    BY DEF Steps, DeploySteps, ServiceSteps
  <2>2. /\ Locals(w, NoPass) /\ Goto(w, "idle")
        /\ lock' \in Workers \cup {Nobody, Orphan}
        /\ lapsed' \in SUBSET Workers
    BY <1>1 DEF Crash, EndPass, WorkersTyped, ReconcilerTypeOK
  <2> QED
    BY <2>1, <2>2, Move, Nothing
<1>2. ASSUME LeaseExpires \/ OrphanExpires
      PROVE  WorkersTyped'
  BY <1>2 DEF LeaseExpires, OrphanExpires, WorkersTyped, ReconcilerTypeOK,
              PassPlanned, gen, svc
<1>3. FaultsTypeOK'
  BY Counted DEF Crash, LeaseExpires, OrphanExpires
<1>4. UNCHANGED <<storeVars, dockerVars, buddyVars>>
  BY DEF Crash, LeaseExpires, OrphanExpires
<1> QED
  BY <1>1, <1>2, <1>3, <1>4

\* A build ends, or a container fails.
LEMMA WorldStep ==
  ASSUME Typed, World
  PROVE  /\ DockerTypeOK' /\ BuddyTypeOK' /\ FaultsTypeOK'
         /\ UNCHANGED <<storeVars, workerVars, callVars, runs>>
         /\ \A s \in Services : ctr'[s].gen = ctr[s].gen
<1> USE DEF Typed
<1>1. CASE \E g \in Gens, s \in Services :
             Finish(g, s) /\ NoFault /\ UNCHANGED dockerVars
  <2>1. PICK g \in Gens, s \in Services : Finish(g, s)
    BY <1>1
  <2>2. PICK n \in Nat :
          /\ passed' \in {passed, [passed EXCEPT ![g][s] = @ \cup {n}]}
          /\ broken' \in {broken, [broken EXCEPT ![g][s] = @ \cup {n}]}
          /\ UNCHANGED runs
    <3>1. runs[g][s] \in Nat
      BY DEF BuddyTypeOK
    <3> QED
      BY <2>1, <3>1 DEF Finish
  <2>3. BuddyTypeOK'
    <3> DEFINE Sets == [Gens -> [Services -> SUBSET Nat]]
    <3>1. \A f \in Sets : [f EXCEPT ![g][s] = @ \cup {n}] \in Sets
      OBVIOUS
    <3>2. passed \in Sets /\ broken \in Sets
      BY DEF BuddyTypeOK
    <3> HIDE DEF Sets
    <3>3. passed' \in Sets /\ broken' \in Sets
      BY <2>2, <3>1, <3>2
    <3> QED
      BY <2>2, <3>3 DEF BuddyTypeOK, Sets
  <2> QED
    BY <1>1, <2>2, <2>3, Counted DEF DockerTypeOK, dockerVars, World
<1>2. CASE \E s \in Services :
             ContainerFails(s) /\ Fault("exit") /\ UNCHANGED buddyVars
  <2>1. PICK s \in Services : ctr' = [ctr EXCEPT ![s].up = FALSE]
    BY <1>2 DEF ContainerFails
  <2>2. ctr \in [Services -> Containers]
    BY DEF DockerTypeOK
  <2> DEFINE c == [ctr[s] EXCEPT !.up = FALSE]
  <2>3. /\ ctr' \in [Services -> Containers]
        /\ \A t \in Services : ctr'[t].gen = ctr[t].gen
    <3>1. \A b \in Containers :
             LET d == [b EXCEPT !.up = FALSE]
             IN  d \in Containers /\ d.gen = b.gen
      BY DEF Containers
    <3>2. c \in Containers /\ c.gen = ctr[s].gen
      <4>1. ctr[s] \in Containers
        BY <2>2
      <4> QED
        BY <3>1, <4>1, Zenon
    <3>3. ctr' = [ctr EXCEPT ![s] = c]
      BY <2>1
    <3> HIDE DEF c
    <3> QED
      BY <2>2, <3>3, <3>2
  <2> QED
    BY <1>2, <2>3, Counted
    DEF ContainerFails, DockerTypeOK, BuddyTypeOK, buddyVars, World
<1> QED
  BY <1>1, <1>2 DEF World, Surroundings

-----------------------------------------------------------------------------
(* Types.                                                                  *)

\* The row is pending, every worker idle and the host empty.
LEMMA InitTyped == Init => Typed
<1> SUFFICES ASSUME Init PROVE Typed
  OBVIOUS
<1> USE DEF Init
<1>1. RowTyped
  <2>1. row \in Rows /\ row.topo = {}
    BY DEF StoreInit, Rows, EnvStates
  <2> QED
    BY <2>1, Nothing DEF StoreInit, RowTyped, StoreTypeOK, RowPlanned
<1>2. WorkersTyped
  <2>1. "idle" \in Steps \ DeploySteps /\ "idle" \notin ServiceSteps
    BY DEF Steps, DeploySteps, ServiceSteps
  <2> QED
    BY <2>1, Nothing
    DEF ReconcilerInit, WorkersTyped, ReconcilerTypeOK, PassPlanned
<1>3. DockerTypeOK
  <2>1. Absent \in Containers
    BY DEF Absent, Containers
  <2> QED
    BY <2>1 DEF DockerInit, DockerTypeOK
<1>4. BuddyTypeOK /\ FaultsTypeOK /\ LeftTypeOK /\ RequestsTypeOK
  BY DEF BuddyInit, BuddyTypeOK, FaultsInit, FaultsTypeOK, LeftInit, LeftTypeOK,
         RequestsInit, RequestsTypeOK
<1> QED
  BY <1>1, <1>2, <1>3, <1>4 DEF Typed

\* What a step leaves alone keeps its type.
LEMMA Frame ==
  ASSUME Typed
  PROVE  /\ UNCHANGED storeVars => RowTyped'
         /\ UNCHANGED workerVars => WorkersTyped'
         /\ UNCHANGED dockerVars => DockerTypeOK'
         /\ UNCHANGED buddyVars => BuddyTypeOK'
         /\ UNCHANGED faults => FaultsTypeOK'
         /\ UNCHANGED left => LeftTypeOK'
         /\ UNCHANGED callVars => RequestsTypeOK'
BY DEF Typed, storeVars, RowTyped, StoreTypeOK, RowPlanned,
       workerVars, WorkersTyped, ReconcilerTypeOK, PassPlanned, gen, svc,
       dockerVars, DockerTypeOK, buddyVars, BuddyTypeOK, FaultsTypeOK,
       LeftTypeOK, callVars, RequestsTypeOK

\* What is remembered of failures is typed.
LEMMA Remembered ==
  ASSUME LeftTypeOK, NEW w \in Workers, Remember(w)
  PROVE  LeftTypeOK'
<1>1. Missed(w) \subseteq Services /\ left.ctr \subseteq Services
  BY DEF Missed, LeftTypeOK
<1>2. \A step, then : \A b \in BOOLEAN : Leaves(w, step, then, b) \in BOOLEAN
  BY DEF Leaves, Fails
<1> QED
  BY <1>1, <1>2 DEF Remember, LeftTypeOK

\* Every step of a worker, a caller or the world keeps the types.
LEMMA NextTyped == Typed /\ [Next]_vars => Typed'
<1> SUFFICES ASSUME Typed, [Next]_vars PROVE Typed'
  OBVIOUS
<1>1. ASSUME NEW w \in Workers, Worker(w)
      PROVE  Typed'
  <2>1. Pass(w) /\ UNCHANGED callVars
    BY <1>1 DEF Worker
  <2>2. FaultsTypeOK'
    BY <2>1, PassFaults, Counted DEF Typed
  <2>3. LeftTypeOK'
    BY <1>1, Remembered DEF Worker, Typed
  <2> QED
    BY <2>1, <2>2, <2>3, Frame, PassWorkers, PassStore, PassContainers, PassRuns
    DEF Typed
<1>2. CASE (\E w \in Workers : Dying(w)) \/ Redis
  <2>1. LeftTypeOK'
    BY <1>2, Frame, Remembered DEF Dying, Redis, Typed
  <2> QED
    BY <1>2, <2>1, Frame, LeaseStep DEF Dying, Redis, Typed
<1>3. ASSUME NEW c \in Callers, Caller(c)
      PROVE  Typed'
  BY <1>3, Frame, CallerStep DEF Typed, Caller, NoFault
<1>4. CASE World
  BY <1>4, Frame, WorldStep DEF Typed, World
<1>5. CASE UNCHANGED vars
  BY <1>5, Frame DEF Typed, vars, storeVars, workerVars, dockerVars, buddyVars, callVars
<1> QED
  BY <1>1, <1>2, <1>3, <1>4, <1>5 DEF Next

\* Every variable has its type in every state, and every pass that deploys
\* works on a planned generation and on a service of the environment: no
\* step of reconciler.go indexes a deployment by generation 0.
THEOREM TypeCorrect == Spec => []TypeOK
<1>1. Typed => TypeOK
  BY DEF Typed, TypeOK, RowTyped, WorkersTyped
<1> QED
  BY <1>1, InitTyped, NextTyped, PTL DEF Spec

-----------------------------------------------------------------------------
(* The deploy lock.                                                        *)

\* Between its Acquire and its Release, a worker's steps do not touch the key.
LEMMA PassKeepsKey ==
  ASSUME NEW w \in Workers, Pass(w), ~List(w), ~TryLock(w), ~Release(w)
  PROVE  /\ InPass(w)
         /\ UNCHANGED <<lock, lapsed>>
         /\ UNCHANGED pc \/ \E step : Goto(w, step)
<1>1. CASE \/ Read(w) \/ Network(w) \/ degrade(w) \/ Promote(w) \/ NextService(w)
           \/ TriggerBuild(w) \/ TriggerFails(w) \/ InsertDeployment(w)
           \/ Poll(w) \/ PollFails(w) \/ StillBuilding(w) \/ RecordFailed(w)
           \/ ReadFails(w) \/ LookUpFails(w) \/ InsertFails(w)
  BY <1>1 DEF Read, Network, degrade, Promote, NextService, TriggerBuild,
     TriggerFails, InsertDeployment, Poll, PollFails, StillBuilding,
     RecordFailed, ReadFails, LookUpFails, InsertFails, ServiceFails, Advance,
     At, InPass
<1>2. CASE \/ RemoveOld(w) \/ Create(w) \/ CreateRefused(w) \/ CreateFails(w)
           \/ RecordRunning(w) \/ Track(w) \/ InspectService(w) \/ ServicesDone(w)
           \/ DeleteDomains(w) \/ UpsertDomains(w) \/ FinalState(w)
  BY <1>2 DEF RemoveOld, Create, CreateRefused, CreateFails, RecordRunning,
     Track, InspectService, ServicesDone, DeleteDomains, UpsertDomains,
     FinalState, Advance, At, InPass
<1>3. CASE \/ RuntimeRows(w) \/ RemoveContainer(w) \/ RemoveEnvNetwork(w)
           \/ Unroute(w) \/ Untrack(w) \/ Mark(w)
  BY <1>3 DEF RuntimeRows, RemoveContainer, RemoveEnvNetwork, Unroute, Untrack,
     Mark, Advance, At, InPass
<1> QED
  BY <1>1, <1>2, <1>3 DEF Pass

\* A worker enters a pass with the key and leaves it before it gives the key up.
LEMMA NextPassHoldsLock ==
  Typed /\ PassHoldsLock /\ [Next]_vars => PassHoldsLock'
<1> SUFFICES ASSUME Typed, PassHoldsLock, [Next]_vars PROVE PassHoldsLock'
  OBVIOUS
<1>0. pc \in [Workers -> Steps] /\ lapsed \subseteq Workers
  BY DEF Typed, WorkersTyped, ReconcilerTypeOK
<1>1. ASSUME NEW w \in Workers, Pass(w)
      PROVE  PassHoldsLock'
  <2>1. CASE List(w)
    BY <1>0, <2>1 DEF List, Advance, Goto, PassHoldsLock, InPass
  <2>2. CASE TryLock(w)
    <3>1. CASE lock = Nobody /\ lock' = w /\ Goto(w, "locked") /\ UNCHANGED lapsed
      BY <1>0, <3>1 DEF Goto, PassHoldsLock, InPass
    <3>2. CASE UNCHANGED <<lock, lapsed>> /\ Goto(w, "idle")
      BY <1>0, <3>2 DEF Goto, PassHoldsLock, InPass
    <3> QED
      BY <2>2, <3>1, <3>2 DEF TryLock
  <2>3. CASE Release(w)
    BY <1>0, <2>3 DEF Release, EndPass, Goto, PassHoldsLock, InPass
  <2>4. CASE ~List(w) /\ ~TryLock(w) /\ ~Release(w)
    BY <1>0, <1>1, <2>4, PassKeepsKey DEF Goto, PassHoldsLock, InPass
  <2> QED
    BY <2>1, <2>2, <2>3, <2>4
<1>2. ASSUME NEW w \in Workers, Crash(w)
      PROVE  PassHoldsLock'
  BY <1>0, <1>2 DEF Crash, EndPass, Goto, PassHoldsLock, InPass
<1>3. CASE LeaseExpires \/ OrphanExpires
  BY <1>0, <1>3 DEF LeaseExpires, OrphanExpires, PassHoldsLock, InPass
<1>4. CASE UNCHANGED workerVars
  BY <1>4 DEF workerVars, PassHoldsLock, InPass
<1> QED
  BY <1>1, <1>2, <1>3, <1>4
  DEF Next, Worker, Dying, Caller, Redis, World, vars, workerVars

\* Mutual exclusion: whatever crashes, expires or is released late, a worker
\* in a pass whose lease has not run out is the owner of the deploy lock, and
\* so there is one at most (locks.go:85-95, reconciler.go:79-87).
THEOREM DeployLockHeld == Spec => []PassHoldsLock
<1>1. Init => PassHoldsLock
  BY DEF Init, ReconcilerInit, PassHoldsLock, InPass
<1> QED
  BY <1>1, InitTyped, NextTyped, NextPassHoldsLock, PTL DEF Spec

\* The steps of the workers and of Redis take, give up, abandon or lose the
\* key as the contract of a lease allows.
LEMMA StepLease ==
  ASSUME [Next]_vars
  PROVE  [DeployLock!Next]_lock
<1> USE DEF DeployLock!Next
<1>1. ASSUME NEW w \in Workers, Pass(w)
      PROVE  [DeployLock!Next]_lock
  <2>1. CASE List(w)
    BY <2>1 DEF List, Advance
  <2>2. CASE TryLock(w)
    BY <2>2 DEF TryLock, DeployLock!Grant
  <2>3. CASE Release(w)
    BY <2>3 DEF Release, DeployLock!Release
  <2> QED
    BY <1>1, <2>1, <2>2, <2>3, PassKeepsKey
<1>2. ASSUME NEW w \in Workers, Crash(w)
      PROVE  [DeployLock!Next]_lock
  BY <1>2 DEF Crash, DeployLock!Abandon
<1>3. CASE LeaseExpires \/ OrphanExpires
  BY <1>3 DEF LeaseExpires, OrphanExpires, DeployLock!Lapse
<1>4. CASE UNCHANGED workerVars
  BY <1>4 DEF workerVars
<1> QED
  BY <1>1, <1>2, <1>3, <1>4 DEF Next, Worker, Dying, Caller, Redis, World, vars, workerVars

\* The safety part of ImplementsLease: the deploy lock, as the workers use it
\* and crash with it, passes from owner to owner only by being free
\* (reconciler.go:79-87, locks.go:34-48).
THEOREM WorkersKeepContract == Spec => DeployLock!Safety
<1>1. Init => DeployLock!Init
  BY DEF Init, ReconcilerInit, DeployLock!Init
<1> QED
  BY <1>1, StepLease, PTL DEF Spec, DeployLock!Safety

-----------------------------------------------------------------------------
(* Generations.                                                            *)

\* The strengthening: no worker's captured generation is ahead of the row.
\* A step then writes deployments, runs and containers of a generation that
\* the row has reached.
Behind ==
  /\ NothingAhead
  /\ \A w \in Workers : gen(w) <= row.gen

\* The steps that keep the row read at the start of the pass, or of which
\* only its state changes.
LEMMA PassCaptures ==
  ASSUME Typed, NEW w \in Workers, Pass(w)
  PROVE  \A v \in Workers : gen(v)' \in {gen(v), row.gen, 0}
<1>0. pass \in [Workers -> Passes]
  BY DEF Typed, WorkersTyped, ReconcilerTypeOK
<1>1. ASSUME NEW r, Locals(w, r), r.env.gen \in {gen(w), row.gen, 0}
      PROVE  \A v \in Workers : gen(v)' \in {gen(v), row.gen, 0}
  BY <1>0, <1>1 DEF Locals, gen
<1>2. CASE UNCHANGED pass
  BY <1>2 DEF gen
<1>3. CASE Read(w)
  <2>1. [NoPass EXCEPT !.env = row, !.todo = row.topo].env = row
    BY DEF NoPass
  <2> QED
    BY <1>1, <1>3, <2>1 DEF Read
<1>4. CASE degrade(w) \/ Promote(w) \/ FinalState(w)
  <2>1. PICK to : Locals(w, [pass[w] EXCEPT !.env.state = to]) \/ UNCHANGED pass
    BY <1>4 DEF degrade, Promote, FinalState, setState
  <2>2. [pass[w] EXCEPT !.env.state = to].env.gen = gen(w)
    BY <1>0 DEF Passes, Rows, gen
  <2> QED
    BY <1>1, <1>2, <2>1, <2>2
<1>5. CASE \/ TriggerFails(w) \/ InsertFails(w) \/ PollFails(w)
           \/ RecordFailed(w) \/ InspectService(w)
  <2>1. PICK failed, healthy : Locals(w, AfterService(w, failed, healthy))
    BY <1>5 DEF TriggerFails, InsertFails, PollFails, RecordFailed,
                InspectService, ServiceFails
  <2>2. AfterService(w, failed, healthy).env.gen = gen(w)
    BY DEF AfterService, gen
  <2> QED
    BY <1>1, <2>1, <2>2
<1>6. CASE NextService(w)
  <2>1. PICK s, d : Locals(w, [pass[w] EXCEPT !.svc = s, !.dep = d])
    BY <1>6 DEF NextService
  <2>2. [pass[w] EXCEPT !.svc = s, !.dep = d].env.gen = gen(w)
    BY <1>0 DEF Passes, gen
  <2> QED
    BY <1>1, <2>1, <2>2
<1>7. CASE TriggerBuild(w)
  <2>1. PICK d : Locals(w, [pass[w] EXCEPT !.dep = d])
    BY <1>7 DEF TriggerBuild
  <2>2. [pass[w] EXCEPT !.dep = d].env.gen = gen(w)
    BY <1>0 DEF Passes, gen
  <2> QED
    BY <1>1, <2>1, <2>2
<1>8. CASE RuntimeRows(w) \/ RemoveContainer(w)
  <2>1. PICK t : Locals(w, [pass[w] EXCEPT !.todo = t])
    BY <1>8 DEF RuntimeRows, RemoveContainer
  <2>2. [pass[w] EXCEPT !.todo = t].env.gen = gen(w)
    BY <1>0 DEF Passes, gen
  <2> QED
    BY <1>1, <2>1, <2>2
<1>9. CASE Release(w)
  <2>1. NoPass.env.gen = 0
    BY DEF NoPass
  <2> QED
    BY <1>1, <1>9, <2>1 DEF Release, EndPass
<1>11. CASE LookUpFails(w)
  <2>1. PICK t : Locals(w, [pass[w] EXCEPT !.todo = t, !.anyFailed = TRUE,
                                           !.allHealthy = FALSE])
    BY <1>11 DEF LookUpFails
  <2>2. [pass[w] EXCEPT !.todo = t, !.anyFailed = TRUE,
                        !.allHealthy = FALSE].env.gen = gen(w)
    BY <1>0 DEF Passes, gen
  <2> QED
    BY <1>1, <2>1, <2>2
<1>10. CASE \/ List(w) \/ TryLock(w) \/ ReadFails(w) \/ Network(w)
            \/ InsertDeployment(w)
            \/ Poll(w) \/ StillBuilding(w) \/ RemoveOld(w) \/ Create(w)
            \/ CreateRefused(w) \/ CreateFails(w) \/ RecordRunning(w) \/ Track(w)
            \/ ServicesDone(w) \/ DeleteDomains(w) \/ UpsertDomains(w)
            \/ RemoveEnvNetwork(w) \/ Unroute(w) \/ Untrack(w) \/ Mark(w)
  BY <1>2, <1>10
  DEF List, TryLock, ReadFails, Network, InsertDeployment, Poll, StillBuilding, RemoveOld,
      Create, CreateRefused, CreateFails, RecordRunning, Track, ServicesDone,
      DeleteDomains, UpsertDomains, RemoveEnvNetwork, Unroute, Untrack, Mark,
      Advance
<1> QED
  BY <1>3, <1>4, <1>5, <1>6, <1>7, <1>8, <1>9, <1>10, <1>11 DEF Pass

\* Captured and recorded generations stay behind the row, which only goes on.
LEMMA NextBehind == Typed /\ Behind /\ [Next]_vars => Behind'
<1> SUFFICES ASSUME Typed, Behind, [Next]_vars PROVE Behind'
  OBVIOUS
<1>0. /\ row.gen \in Nat
      /\ \A w \in Workers : gen(w) \in Nat
      /\ \A s \in Services : ctr[s].gen \in Nat
  BY DEF Typed, RowTyped, StoreTypeOK, Rows, WorkersTyped, ReconcilerTypeOK,
         Passes, DockerTypeOK, Containers, gen
<1>1. ASSUME NEW w \in Workers, Pass(w)
      PROVE  Behind'
  <2>0. row'.gen = row.gen
    BY <1>1, PassStore
  <2>1. \A v \in Workers : gen(v)' <= row'.gen
    BY <1>0, <1>1, <2>0, PassCaptures DEF Behind
  <2>2. \A s \in Services : ctr'[s].gen <= row'.gen
    <3>1. Absent.gen = 0
      BY DEF Absent
    <3> QED
      BY <1>0, <1>1, <2>0, <3>1, PassContainers DEF Behind, NothingAhead
  <2>3. \A g \in Gens, s \in Services : g > row'.gen => dep'[g][s] = NoDeployment
    <3>1. CASE Records(w)
      <4>1. \A g \in Gens : g > row.gen => g # gen(w)
        BY <1>0 DEF Behind, Gens
      <4> QED
        BY <2>0, <3>1, <4>1, PassRecords DEF Behind, NothingAhead
    <3>2. CASE ~Records(w)
      <4>1. UNCHANGED dep
        <5>1. CASE UNCHANGED storeVars
          BY <5>1 DEF storeVars
        <5>2. CASE \/ degrade(w) \/ Promote(w) \/ FinalState(w) \/ Track(w)
                   \/ DeleteDomains(w) \/ UpsertDomains(w)
                   \/ Unroute(w) \/ Untrack(w) \/ Mark(w)
          BY <5>2 DEF degrade, Promote, FinalState, Track, DeleteDomains,
             UpsertDomains, Unroute, Untrack, Mark, setState, storeVars
        <5> QED
          BY <1>1, <3>2, <5>1, <5>2, PassReads DEF Pass, Records
      <4> QED
        BY <2>0, <4>1 DEF Behind, NothingAhead
    <3> QED
      BY <3>1, <3>2
  <2>4. \A g \in Gens, s \in Services : g > row'.gen => runs'[g][s] = 0
    <3>1. \A g \in Gens : g > row.gen => g # gen(w)
      BY <1>0 DEF Behind, Gens
    <3> QED
      BY <1>1, <2>0, <3>1, PassRuns DEF Behind, NothingAhead
  <2> QED
    BY <2>1, <2>2, <2>3, <2>4 DEF Behind, NothingAhead
<1>2. ASSUME NEW w \in Workers, Crash(w)
      PROVE  Behind'
  <2>1. \A v \in Workers : gen(v)' \in {gen(v), 0}
    <3>1. NoPass.env.gen = 0 /\ pass \in [Workers -> Passes]
      BY DEF NoPass, Typed, WorkersTyped, ReconcilerTypeOK
    <3> QED
      BY <1>2, <3>1 DEF Crash, EndPass, Locals, gen
  <2>2. UNCHANGED <<row, dep, ctr, runs>>
    BY <1>2 DEF Crash, storeVars, dockerVars, buddyVars
  <2> QED
    BY <1>0, <2>1, <2>2 DEF Behind, NothingAhead
<1>3. CASE LeaseExpires \/ OrphanExpires \/ UNCHANGED vars
  BY <1>3 DEF LeaseExpires, OrphanExpires, vars, storeVars, dockerVars,
     buddyVars, Behind, NothingAhead, gen
<1>4. ASSUME NEW c \in Callers, Caller(c)
      PROVE  Behind'
  <2>1. UNCHANGED <<dep, ctr, runs, pass>>
    BY <1>4, CallerStep DEF Caller, workerVars, dockerVars, buddyVars
  <2>2. row'.gen >= row.gen /\ row'.gen \in Nat
    BY <1>4, CallerStep DEF RowTyped, StoreTypeOK, Rows
  <2> QED
    BY <1>0, <2>1, <2>2 DEF Behind, NothingAhead, Gens, gen
<1>5. CASE World
  BY <1>5, WorldStep DEF storeVars, workerVars, Behind, NothingAhead, gen
<1> QED
  BY <1>1, <1>2, <1>3, <1>4, <1>5 DEF Next, Worker, Dying, Redis

\* At first there is nothing.
LEMMA InitBehind == Init => Behind
<1> SUFFICES ASSUME Init PROVE Behind
  OBVIOUS
<1>1. row.gen = 0 /\ Absent.gen = 0 /\ NoPass.env.gen = 0
  BY DEF Init, StoreInit, Absent, NoPass
<1> QED
  BY <1>1 DEF Init, StoreInit, DockerInit, BuddyInit, ReconcilerInit, Behind,
     NothingAhead, gen

\* No deployment, build or container belongs to a generation the row has not
\* reached, whatever workers, requests, crashes and expired leases do: a
\* stale worker can be behind the row, never ahead of it
\* (reconciler.go:96-98, envs.go:104-113).
THEOREM GenerationsReached == Spec => []NothingAhead
<1>1. Behind => NothingAhead
  BY DEF Behind
<1> QED
  BY <1>1, InitBehind, InitTyped, NextTyped, NextBehind, PTL DEF Spec
=============================================================================
