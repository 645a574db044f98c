----------------------------- MODULE PassProofs -----------------------------
(***************************************************************************)
(* Proofs about what passes do to builds and containers, for any number of *)
(* workers, whatever crashes and whatever call fails. Every build but the  *)
(* first is paid for by a fault (Accounted), expired leases included. As   *)
(* long as no lease expires during a pass, passes do not overlap           *)
(* (OnePass): a pass touches a container only when the run of record has   *)
(* ended (Finished), no stale worker replaces a newer container, and what  *)
(* a teardown does not remove is what a failed call or a crash left.       *)
(***************************************************************************)
EXTENDS ControlPlaneProofs, FiniteSetTheorems

-----------------------------------------------------------------------------
(* What a step of one worker leaves alone.                                 *)

\* The locals and the place of the other workers.
LEMMA PassOthers ==
  ASSUME Typed, NEW w \in Workers, Pass(w)
  PROVE  \A v \in Workers \ {w} : pc'[v] = pc[v] /\ pass'[v] = pass[v]
<1>0. pc \in [Workers -> Steps] /\ pass \in [Workers -> Passes]
  BY DEF Typed, WorkersTyped, ReconcilerTypeOK
<1>1. (\E step : Goto(w, step)) \/ UNCHANGED pc
  BY DEF Pass, List, TryLock, Read, Network, degrade, Promote, ReadFails,
     LookUpFails, NextService, TriggerBuild, TriggerFails, InsertDeployment,
     InsertFails, Poll, PollFails, StillBuilding, RecordFailed, RemoveOld, Create, CreateRefused, CreateFails,
     RecordRunning, Track, InspectService, ServicesDone, DeleteDomains,
     UpsertDomains, FinalState, Release, RuntimeRows, RemoveContainer,
     RemoveEnvNetwork, Unroute, Untrack, Mark, Advance, ServiceFails, EndPass
<1>2. (\E r : Locals(w, r)) \/ UNCHANGED pass
  BY DEF Pass, List, TryLock, Read, Network, degrade, Promote, ReadFails,
     LookUpFails, NextService, TriggerBuild, TriggerFails, InsertDeployment,
     InsertFails, Poll, PollFails, StillBuilding, RecordFailed, RemoveOld, Create, CreateRefused, CreateFails,
     RecordRunning, Track, InspectService, ServicesDone, DeleteDomains,
     UpsertDomains, FinalState, Release, RuntimeRows, RemoveContainer,
     RemoveEnvNetwork, Unroute, Untrack, Mark, Advance, ServiceFails, EndPass,
     setState
<1> QED
  BY <1>0, <1>1, <1>2 DEF Goto, Locals

\* No worker decides how a build ends.
LEMMA PassKeepsResults ==
  ASSUME NEW w \in Workers, Pass(w)
  PROVE  UNCHANGED <<passed, broken>>
<1>1. CASE TriggerBuild(w) \/ TriggerFails(w)
  BY <1>1 DEF TriggerBuild, TriggerFails, Trigger, buddyVars
<1>2. CASE \/ Network(w) \/ RemoveOld(w) \/ Create(w) \/ CreateFails(w)
           \/ RemoveContainer(w) \/ RemoveEnvNetwork(w)
  BY <1>2 DEF Network, RemoveOld, Create, CreateFails, RemoveContainer,
     RemoveEnvNetwork, buddyVars
<1> QED
  BY <1>1, <1>2, PassCallsNobody DEF Pass, buddyVars

\* Only the steps that record a deployment write that table.
LEMMA PassKeepsDeployments ==
  ASSUME NEW w \in Workers, Pass(w), ~Records(w)
  PROVE  UNCHANGED dep
<1>1. CASE UNCHANGED storeVars
  BY <1>1 DEF storeVars
<1>2. CASE \/ degrade(w) \/ Promote(w) \/ FinalState(w) \/ Track(w)
           \/ DeleteDomains(w) \/ UpsertDomains(w)
           \/ Unroute(w) \/ Untrack(w) \/ Mark(w)
  BY <1>2 DEF degrade, Promote, FinalState, Track, DeleteDomains,
     UpsertDomains, Unroute, Untrack, Mark, setState, storeVars
<1> QED
  BY <1>1, <1>2, PassReads DEF Pass, Records

\* A step that records a deployment records that of the service at hand.
LEMMA RecordsOne ==
  ASSUME Typed, NEW w \in Workers, Records(w)
  PROVE  \A g \in Gens, s \in Services :
            ~(g = gen(w) /\ s = svc(w)) => dep'[g][s] = dep[g][s]
<1>1. dep \in [Gens -> [Services -> Deployments]]
  BY DEF Typed, RowTyped, StoreTypeOK
<1>2. \/ \E d : Insert(gen(w), svc(w), d)
      \/ \E to : UpdateRuntime(gen(w), svc(w), to)
      \/ UNCHANGED dep
  BY DEF Records, TriggerFails, InsertDeployment, InsertFails, StillBuilding,
         RecordFailed, RecordRunning, Record
<1> QED
  BY <1>1, <1>2 DEF Insert, UpdateRuntime

-----------------------------------------------------------------------------
(* Builds are started once, unless something failed.                       *)

OnService(w, step, g, s) == pc[w] = step /\ gen(w) = g /\ svc(w) = s

\* The services of its pass that a worker has yet to take up.
Ahead(w) == pass[w].todo \ (IF pc[w] \in ServiceSteps THEN {svc(w)} ELSE {})

\* The worker may still start a build of s for generation g in this pass.
MayTrigger(w, g, s) ==
  \/ pc[w] = "locked"
  \/ OnService(w, "trigger", g, s)
  \/ pc[w] \in DeploySteps /\ gen(w) = g /\ s \in Ahead(w)

\* The workers that may do so although their lease has run out: the expiry of
\* each is a fault that has been counted.
Astray(g, s) == {w \in lapsed : MayTrigger(w, g, s)}

\* The build that needs no fault: the owner of the lock is about to start it,
\* or no run is recorded and none is about to be.
Due(g, s) ==
  \/ \E w \in Workers \ lapsed : OnService(w, "trigger", g, s)
  \/ /\ dep[g][s].run = 0
     /\ \A w \in Workers \ lapsed : ~OnService(w, "insert", g, s)

\* The strengthening: the builds that were started and those that may be are
\* paid for, one for each fault so far and one for free.
Accounted ==
  \A g \in Gens, s \in Services :
     runs[g][s] + Cardinality(Astray(g, s)) + (IF Due(g, s) THEN 1 ELSE 0)
       <= 1 + faults

\* What is about to be inserted is a run that is building.
Inserting ==
  \A w \in Workers :
     pc[w] = "insert" => pass[w].dep.run # 0 /\ pass[w].dep.state = "building"

\* Only workers in a pass lose their lease.
LapsedInPass == \A w \in lapsed : InPass(w)

\* The key names a worker that is in a pass.
OwnerInPass == \A w \in Workers : lock = w => InPass(w)

LockKept == PassHoldsLock /\ LapsedInPass /\ OwnerInPass /\ IsFiniteSet(lapsed)

\* A part of a finite set has at most as many elements, fewer if one is missing.
LEMMA Fewer ==
  ASSUME NEW S, IsFiniteSet(S), NEW T \in SUBSET S
  PROVE  /\ IsFiniteSet(T)
         /\ Cardinality(S) \in Nat /\ Cardinality(T) \in Nat
         /\ Cardinality(T) <= Cardinality(S)
         /\ \A x \in S \ T : Cardinality(T) + 1 <= Cardinality(S)
<1>1. IsFiniteSet(T) /\ Cardinality(T) <= Cardinality(S)
  BY FS_Subset
<1>2. Cardinality(S) \in Nat /\ Cardinality(T) \in Nat
  BY <1>1, FS_CardinalityType
<1>3. ASSUME NEW x \in S \ T
      PROVE  Cardinality(T) + 1 <= Cardinality(S)
  <2>1. IsFiniteSet(T \cup {x}) /\ Cardinality(T \cup {x}) = Cardinality(T) + 1
    BY <1>1, <1>3, FS_AddElement
  <2>2. T \cup {x} \subseteq S
    BY <1>3
  <2> QED
    BY <2>1, <2>2, FS_Subset
<1> QED
  BY <1>1, <1>2, <1>3

\* The worker that is in a pass with its lease has it alone.
LEMMA Alone ==
  ASSUME PassHoldsLock,
         NEW v \in Workers \ lapsed, NEW w \in Workers \ lapsed,
         InPass(v), InPass(w)
  PROVE  v = w
BY DEF PassHoldsLock

\* Finitely many leases have run out.
LEMMA NextLapsed ==
  Typed /\ IsFiniteSet(lapsed) /\ [Next]_vars => IsFiniteSet(lapsed')
<1> SUFFICES ASSUME IsFiniteSet(lapsed), [Next]_vars PROVE IsFiniteSet(lapsed')
  OBVIOUS
<1>1. ASSUME NEW w \in Workers, lapsed' = lapsed \ {w}
      PROVE  IsFiniteSet(lapsed')
  BY <1>1, FS_RemoveElement
<1>2. ASSUME lapsed' = lapsed \cup {lock}
      PROVE  IsFiniteSet(lapsed')
  BY <1>2, FS_AddElement
<1>3. ASSUME NEW w \in Workers, Pass(w)
      PROVE  UNCHANGED lapsed \/ lapsed' = lapsed \ {w}
  <2>1. CASE List(w) \/ TryLock(w) \/ Release(w)
    BY <2>1 DEF List, TryLock, Release, EndPass, Advance
  <2> QED
    BY <1>3, <2>1, PassKeepsKey
<1>4. \/ UNCHANGED lapsed
      \/ lapsed' = lapsed \cup {lock}
      \/ \E w \in Workers : lapsed' = lapsed \ {w}
  BY <1>3 DEF Next, Worker, Dying, Crash, EndPass, Caller, Redis, LeaseExpires,
     OrphanExpires, World, vars, workerVars
<1> QED
  BY <1>1, <1>2, <1>4

\* A key that is absent or abandoned names no worker.
LEMMA NoOwner == Nobody \notin Workers /\ Orphan \notin Workers
<1>1. ASSUME NEW x \in {Nobody, Orphan}, x \in Workers
      PROVE  FALSE
  <2>1. x \in {Nobody, Orphan} \cap Workers
    BY <1>1
  <2> QED
    BY <2>1, WorkerAssumption
<1> QED
  BY <1>1

\* At first nobody has the key.
LEMMA InitLockKept == Init => LockKept
<1>1. \A w \in Workers : lock # w \/ ~Init
  BY NoOwner DEF Init, ReconcilerInit
<1> QED
  BY <1>1, FS_EmptySet DEF Init, ReconcilerInit, LockKept, PassHoldsLock,
     LapsedInPass, OwnerInPass, InPass

\* A worker is in its pass while it has the key, or has lost it.
LEMMA NextLockKept == Typed /\ LockKept /\ [Next]_vars => LockKept'
<1> SUFFICES ASSUME Typed, LockKept, [Next]_vars PROVE LapsedInPass' /\ OwnerInPass'
  BY NextPassHoldsLock, NextLapsed DEF LockKept
<1>0. /\ pc \in [Workers -> Steps] /\ lapsed \subseteq Workers
      /\ \A w \in lapsed : InPass(w)
      /\ \A w \in Workers : lock = w => InPass(w)
      /\ Nobody \notin Workers /\ Orphan \notin Workers
  BY NoOwner DEF Typed, WorkersTyped, ReconcilerTypeOK, LockKept, LapsedInPass,
                 OwnerInPass
<1>1. ASSUME NEW w \in Workers, Pass(w)
      PROVE  LapsedInPass' /\ OwnerInPass'
  <2>1. CASE List(w) \/ TryLock(w)
    BY <1>0, <2>1 DEF List, TryLock, At, Advance, Goto, InPass, LapsedInPass, OwnerInPass
  <2>2. CASE Release(w)
    BY <1>0, <2>2 DEF Release, EndPass, Goto, InPass, LapsedInPass, OwnerInPass
  <2>3. CASE ~List(w) /\ ~TryLock(w) /\ ~Release(w)
    <3>1. InPass(w) /\ UNCHANGED <<lock, lapsed>>
      BY <1>1, <2>3, PassKeepsKey
    <3>2. InPass(w)'
      BY <1>0, <1>1, <2>3
      DEF Pass, Read, Network, degrade,
          Promote, ReadFails, LookUpFails, NextService, TriggerBuild,
          TriggerFails, InsertDeployment, InsertFails, Poll, PollFails,
          StillBuilding,
          RecordFailed, RemoveOld, Create, CreateRefused, CreateFails,
          RecordRunning, Track, InspectService, ServicesDone, DeleteDomains,
          UpsertDomains, FinalState, RuntimeRows, RemoveContainer,
          RemoveEnvNetwork, Unroute, Untrack, Mark, At, Advance, ServiceFails,
          Goto, InPass
    <3> QED
      BY <1>0, <1>1, <3>1, <3>2, PassOthers DEF InPass, LapsedInPass, OwnerInPass
  <2> QED
    BY <2>1, <2>2, <2>3
<1>2. ASSUME NEW w \in Workers, Crash(w)
      PROVE  LapsedInPass' /\ OwnerInPass'
  BY <1>0, <1>2 DEF Crash, EndPass, Goto, InPass, LapsedInPass, OwnerInPass
<1>3. CASE LeaseExpires \/ OrphanExpires
  BY <1>0, <1>3 DEF LeaseExpires, OrphanExpires, InPass, LapsedInPass, OwnerInPass
<1>4. CASE UNCHANGED workerVars
  BY <1>0, <1>4 DEF workerVars, InPass, LapsedInPass, OwnerInPass
<1> QED
  BY <1>1, <1>2, <1>3, <1>4
  DEF Next, Worker, Dying, Caller, Redis, World, vars, workerVars

\* A pass that deploys goes on with the generation it captured, and takes no
\* service up again.
LEMMA PassAhead ==
  ASSUME Typed, NEW w \in Workers, Pass(w), pc'[w] \in DeploySteps, pc[w] # "locked"
  PROVE  /\ pc[w] \in DeploySteps
         /\ gen(w)' = gen(w)
         /\ Ahead(w)' \subseteq Ahead(w)
         /\ pc'[w] = "trigger" => svc(w)' \in Ahead(w)
<1>0. pc \in [Workers -> Steps] /\ pass \in [Workers -> Passes]
  BY DEF Typed, WorkersTyped, ReconcilerTypeOK
<1>1. CASE NextService(w)
  <2>1. PICK s \in pass[w].todo :
          /\ \E d : Locals(w, [pass[w] EXCEPT !.svc = s, !.dep = d])
          /\ pc[w] = "services" /\ pc'[w] \in {"trigger", "poll", "remove"}
    BY <1>0, <1>1 DEF NextService, Goto, At
  <2>2. gen(w)' = gen(w) /\ svc(w)' = s /\ pass'[w].todo = pass[w].todo
    BY <1>0, <2>1 DEF Locals, gen, svc, Passes
  <2>3. /\ "services" \in DeploySteps \ ServiceSteps
        /\ {"trigger", "poll", "remove"} \subseteq ServiceSteps
    BY DEF DeploySteps, ServiceSteps
  <2> QED
    BY <2>1, <2>2, <2>3 DEF Ahead
<1>2. CASE TriggerBuild(w)
  <2>1. /\ gen(w)' = gen(w) /\ svc(w)' = svc(w)
        /\ pass'[w].todo = pass[w].todo
    BY <1>0, <1>2 DEF TriggerBuild, Locals, gen, svc, Passes
  <2>2. pc[w] = "trigger" /\ pc'[w] = "insert"
    BY <1>0, <1>2 DEF TriggerBuild, At, Goto
  <2>3. {"trigger", "insert"} \subseteq ServiceSteps
    BY DEF ServiceSteps
  <2> QED
    BY <2>1, <2>2, <2>3 DEF Ahead, DeploySteps
<1>3. CASE \/ TriggerFails(w) \/ InsertFails(w) \/ PollFails(w)
           \/ RecordFailed(w) \/ InspectService(w)
  <2> DEFINE Last == {"trigger", "insert", "poll", "failed", "noContainer", "inspect"}
  <2>1. PICK failed, healthy : Locals(w, AfterService(w, failed, healthy))
    BY <1>3 DEF TriggerFails, InsertFails, PollFails, RecordFailed, InspectService,
                ServiceFails
  <2>2. gen(w)' = gen(w) /\ pass'[w].todo = pass[w].todo \ {svc(w)}
    BY <1>0, <2>1 DEF Locals, AfterService, gen
  <2>3. pc[w] \in Last /\ pc'[w] = "services"
    BY <1>0, <1>3 DEF TriggerFails, InsertFails, PollFails, RecordFailed,
                      InspectService, ServiceFails, At, Goto
  <2>4. /\ Last \subseteq ServiceSteps
        /\ "services" \notin ServiceSteps
    BY DEF ServiceSteps
  <2> QED
    BY <2>2, <2>3, <2>4 DEF Ahead, DeploySteps
<1>4. CASE degrade(w) \/ Promote(w) \/ FinalState(w)
  <2>1. PICK to : Locals(w, [pass[w] EXCEPT !.env.state = to]) \/ UNCHANGED pass
    BY <1>4 DEF degrade, Promote, FinalState, setState
  <2>2. gen(w)' = gen(w) /\ pass'[w].todo = pass[w].todo
    BY <1>0, <2>1 DEF Locals, gen, Passes, Rows
  <2>3. pc[w] \in {"degrade", "promote", "final"} /\ pc'[w] \in {"services", "release"}
    BY <1>0, <1>4 DEF degrade, Promote, FinalState, At, Goto
  <2>4. /\ {"degrade", "promote", "final"} \subseteq DeploySteps \ ServiceSteps
        /\ "services" \notin ServiceSteps /\ "release" \notin DeploySteps
    BY DEF DeploySteps, ServiceSteps
  <2> QED
    BY <2>2, <2>3, <2>4 DEF Ahead
<1>5. CASE \/ Network(w) \/ ServicesDone(w) \/ DeleteDomains(w) \/ UpsertDomains(w)
  <2>1. UNCHANGED pass
    BY <1>5 DEF Network, ServicesDone, DeleteDomains, UpsertDomains, Advance
  <2>2. /\ pc[w] \in DeploySteps \ ServiceSteps
        /\ pc'[w] \in DeploySteps \ ServiceSteps
    BY <1>0, <1>5 DEF Network, ServicesDone, DeleteDomains, UpsertDomains, At,
                      Advance, Goto, DeploySteps, ServiceSteps
  <2>3. "trigger" \in ServiceSteps
    BY DEF ServiceSteps
  <2> QED
    BY <2>1, <2>2, <2>3 DEF Ahead, gen
<1>6. CASE \/ InsertDeployment(w) \/ Poll(w) \/ StillBuilding(w) \/ RemoveOld(w)
           \/ Create(w) \/ CreateRefused(w) \/ CreateFails(w)
           \/ RecordRunning(w) \/ Track(w)
  <2>1. UNCHANGED pass
    BY <1>6 DEF InsertDeployment, Poll, StillBuilding, RemoveOld, Create,
                CreateRefused, CreateFails, RecordRunning, Track, Advance
  <2>2. /\ pc[w] \in ServiceSteps
        /\ pc'[w] \in ServiceSteps \ {"trigger"}
    BY <1>0, <1>6 DEF InsertDeployment, Poll, StillBuilding, RemoveOld, Create,
                CreateRefused, CreateFails, RecordRunning, Track, At, Advance,
                Goto, ServiceSteps
  <2> QED
    BY <2>1, <2>2 DEF Ahead, gen, svc, DeploySteps
<1>7. CASE \/ List(w) \/ TryLock(w) \/ Release(w) \/ RuntimeRows(w)
           \/ RemoveContainer(w) \/ RemoveEnvNetwork(w) \/ Unroute(w)
           \/ Untrack(w) \/ Mark(w)
  <2>1. pc'[w] \in {"listed", "locked", "idle", "containers", "unroute", "untrack",
                    "mark", "release"}
    BY <1>0, <1>7 DEF List, TryLock, Release, RuntimeRows, RemoveContainer,
       RemoveEnvNetwork, Unroute, Untrack, Mark, EndPass, At, Advance, Goto
  <2> QED
    BY <2>1 DEF DeploySteps, ServiceSteps
<1>8. CASE Read(w) \/ ReadFails(w)
  BY <1>8 DEF Read, ReadFails, At
<1>9. CASE LookUpFails(w)
  <2>1. PICK s : Locals(w, [pass[w] EXCEPT !.todo = @ \ {s}, !.anyFailed = TRUE,
                                           !.allHealthy = FALSE])
    BY <1>9 DEF LookUpFails
  <2>2. gen(w)' = gen(w) /\ pass'[w].todo \subseteq pass[w].todo
    BY <1>0, <2>1 DEF Locals, gen, Passes
  <2>3. pc[w] = "services" /\ pc'[w] = "services"
    BY <1>9 DEF LookUpFails, At
  <2>4. "services" \in DeploySteps \ ServiceSteps
    BY DEF DeploySteps, ServiceSteps
  <2> QED
    BY <2>2, <2>3, <2>4 DEF Ahead
<1> QED
  BY <1>1, <1>2, <1>3, <1>4, <1>5, <1>6, <1>7, <1>8, <1>9 DEF Pass

\* The workers astray become fewer by the steps of the workers.
LEMMA PassAstray ==
  ASSUME Typed, LockKept, NEW w \in Workers, Pass(w), NEW g, NEW s
  PROVE  Astray(g, s)' \subseteq Astray(g, s)
<1>0. /\ pc \in [Workers -> Steps] /\ lapsed \subseteq Workers
      /\ lapsed' \subseteq lapsed
  <2>1. lapsed' \subseteq lapsed
    <3>1. CASE List(w) \/ TryLock(w) \/ Release(w)
      BY <3>1 DEF List, TryLock, Release, EndPass, Advance
    <3> QED
      BY <3>1, PassKeepsKey
  <2> QED
    BY <2>1 DEF Typed, WorkersTyped, ReconcilerTypeOK
<1>1. ASSUME NEW v \in Workers \ {w}
      PROVE  MayTrigger(v, g, s)' <=> MayTrigger(v, g, s)
  BY <1>1, PassOthers DEF MayTrigger, OnService, Ahead, gen, svc
<1>2. ASSUME w \in lapsed, MayTrigger(w, g, s)'
      PROVE  MayTrigger(w, g, s)
  <2>1. InPass(w)
    BY <1>2 DEF LockKept, LapsedInPass
  <2>2. pc'[w] # "locked"
    <3>1. ~List(w) /\ ~TryLock(w)
      BY <2>1 DEF InPass, List, TryLock, At
    <3> QED
      BY <1>0, <3>1
      DEF Pass, Read, Network, degrade,
          Promote, ReadFails, LookUpFails, NextService, TriggerBuild,
          TriggerFails, InsertDeployment, InsertFails, Poll, PollFails,
          StillBuilding,
          RecordFailed, RemoveOld, Create, CreateRefused, CreateFails,
          RecordRunning, Track, InspectService, ServicesDone, DeleteDomains,
          UpsertDomains, FinalState, Release, RuntimeRows, RemoveContainer,
          RemoveEnvNetwork, Unroute, Untrack, Mark, At, Advance, ServiceFails,
          EndPass, Goto
  <2>3. pc'[w] \in DeploySteps /\ gen(w)' = g
    BY <1>2, <2>2 DEF MayTrigger, OnService, DeploySteps, ServiceSteps
  <2>4. CASE pc[w] # "locked"
    BY <1>2, <2>2, <2>3, <2>4, PassAhead DEF MayTrigger, OnService
  <2> QED
    BY <2>4 DEF MayTrigger
<1> QED
  BY <1>0, <1>1, <1>2 DEF Astray

\* The only steps at the places where a build is started and recorded.
LEMMA AtBuild ==
  ASSUME NEW w \in Workers, Pass(w)
  PROVE  /\ pc[w] = "trigger" => TriggerBuild(w) \/ TriggerFails(w)
         /\ pc[w] = "insert" => InsertDeployment(w) \/ InsertFails(w)
BY DEF Pass, List, TryLock, Read, Network, degrade, Promote, ReadFails,
       LookUpFails, NextService, TriggerBuild, TriggerFails, InsertDeployment,
       InsertFails, Poll, PollFails,
       StillBuilding, RecordFailed, RemoveOld, Create, CreateRefused,
       CreateFails, RecordRunning, Track, InspectService, ServicesDone,
       DeleteDomains, UpsertDomains, FinalState, Release, RuntimeRows,
       RemoveContainer, RemoveEnvNetwork, Unroute, Untrack, Mark, At

\* A run id is not 0, whoever comes to insert it.
LEMMA NextInserting == Typed /\ Inserting /\ [Next]_vars => Inserting'
<1> SUFFICES ASSUME Typed, Inserting, [Next]_vars PROVE Inserting'
  OBVIOUS
<1>0. pc \in [Workers -> Steps] /\ pass \in [Workers -> Passes]
  BY DEF Typed, WorkersTyped, ReconcilerTypeOK
<1>1. ASSUME NEW w \in Workers, Pass(w)
      PROVE  Inserting'
  <2>1. ASSUME pc'[w] = "insert"
        PROVE  pass'[w].dep.run # 0 /\ pass'[w].dep.state = "building"
    <3>1. TriggerBuild(w)
      BY <1>0, <1>1, <2>1
      DEF Pass, List, TryLock, Read, ReadFails, Network, degrade, Promote,
          LookUpFails, NextService, TriggerFails, InsertDeployment, InsertFails,
          Poll, PollFails, StillBuilding, RecordFailed, RemoveOld, Create,
          CreateRefused, CreateFails, RecordRunning, Track, InspectService,
          ServicesDone, DeleteDomains, UpsertDomains, FinalState, Release,
          RuntimeRows, RemoveContainer, RemoveEnvNetwork, Unroute, Untrack, Mark,
          At, Advance, ServiceFails, EndPass, Goto
    <3>2. runs[gen(w)][svc(w)] \in Nat
      BY <3>1, AtService DEF TriggerBuild, At, ServiceSteps, Typed, BuddyTypeOK
    <3> QED
      BY <1>0, <3>1, <3>2 DEF TriggerBuild, Locals, Passes
  <2> QED
    BY <1>1, <2>1, PassOthers DEF Inserting
<1>2. ASSUME NEW w \in Workers, Crash(w)
      PROVE  Inserting'
  BY <1>0, <1>2 DEF Crash, EndPass, Goto, Locals, Inserting
<1>3. CASE UNCHANGED <<pc, pass>>
  BY <1>3 DEF Inserting
<1> QED
  BY <1>1, <1>2, <1>3 DEF Next, Worker, Dying, Caller, Redis, LeaseExpires,
     OrphanExpires, World, vars, workerVars

\* A run that is recorded stays so, unless a call fails; what is inserted is
\* a run.
LEMMA RunRecorded ==
  ASSUME Typed, Inserting, NEW w \in Workers, Pass(w), NoFault,
         NEW g \in Gens, NEW s \in Services, dep'[g][s].run = 0
  PROVE  dep[g][s].run = 0 /\ ~OnService(w, "insert", g, s)
<1>0. /\ dep \in [Gens -> [Services -> Deployments]]
      /\ dep[g][s] \in Deployments
      /\ faults \in Nat
  BY DEF Typed, RowTyped, StoreTypeOK, FaultsTypeOK
<1>1. CASE InsertDeployment(w)
  BY <1>0, <1>1 DEF InsertDeployment, Insert, At, Inserting, OnService, gen, svc
<1>2. CASE StillBuilding(w) \/ RecordFailed(w) \/ RecordRunning(w)
  <2>1. (\E to : UpdateRuntime(gen(w), svc(w), to)) \/ UNCHANGED dep
    BY <1>2 DEF StillBuilding, RecordFailed, RecordRunning, Record
  <2>2. dep'[g][s].run = dep[g][s].run
    <3>1. CASE \E to : UpdateRuntime(gen(w), svc(w), to)
      BY <1>0, <3>1 DEF UpdateRuntime, Deployments
    <3> QED
      BY <2>1, <3>1
  <2>3. pc[w] # "insert"
    BY <1>2 DEF StillBuilding, RecordFailed, RecordRunning, At
  <2> QED
    BY <2>2, <2>3 DEF OnService
<1>3. ~TriggerFails(w) /\ ~InsertFails(w)
  BY <1>0 DEF TriggerFails, InsertFails, Fault, NoFault
<1>4. CASE ~Records(w)
  BY <1>3, <1>4, AtBuild, PassKeepsDeployments DEF Records, OnService
<1> QED
  BY <1>1, <1>2, <1>3, <1>4 DEF Records

\* Whoever comes to start a build found that no run is recorded, unless the
\* look-up failed.
LEMMA ComesToTrigger ==
  ASSUME Typed, NEW w \in Workers, Pass(w), NoFault,
         NEW g, NEW s, OnService(w, "trigger", g, s)'
  PROVE  dep[g][s].run = 0 /\ pc[w] = "services"
<1>0. pc \in [Workers -> Steps] /\ pass \in [Workers -> Passes] /\ faults \in Nat
  BY DEF Typed, WorkersTyped, ReconcilerTypeOK, FaultsTypeOK
<1>a. \A kind : ~Fault(kind)
  BY <1>0 DEF Fault, NoFault
<1>1. NextService(w)
  <2>1. /\ ~ReadFails(w) /\ ~LookUpFails(w) /\ ~TriggerFails(w)
        /\ ~InsertFails(w) /\ ~PollFails(w) /\ ~CreateFails(w)
    BY <1>a DEF ReadFails, LookUpFails, TriggerFails, InsertFails, PollFails,
                CreateFails
  <2> QED
    BY <1>0, <2>1
    DEF Pass, List, TryLock, Read, Network, degrade, Promote, TriggerBuild,
        InsertDeployment, Poll, StillBuilding, RecordFailed, RemoveOld, Create,
        CreateRefused, RecordRunning, Track, InspectService, ServicesDone,
        DeleteDomains, UpsertDomains, FinalState, Release, RuntimeRows,
        RemoveContainer, RemoveEnvNetwork, Unroute, Untrack, Mark, At, Advance,
        ServiceFails, EndPass, Goto, OnService
<1>2. PICK t \in pass[w].todo :
        /\ Locals(w, [pass[w] EXCEPT !.svc = t, !.dep = dep[gen(w)][t]])
        /\ Goto(w, CASE dep[gen(w)][t].run = 0 -> "trigger"
                     [] dep[gen(w)][t].run # 0 /\ dep[gen(w)][t].state = "building"
                          -> "poll"
                     [] OTHER -> "remove")
  BY <1>a, <1>1 DEF NextService
<1>3. gen(w)' = gen(w) /\ svc(w)' = t
  BY <1>0, <1>2 DEF Locals, gen, svc, Passes
<1>4. pc'[w] = "trigger" => dep[gen(w)][t].run = 0
  BY <1>0, <1>2 DEF Goto
<1> QED
  BY <1>1, <1>3, <1>4 DEF OnService, NextService, At

\* No step of a worker makes a build due, unless a call fails.
LEMMA PassDue ==
  ASSUME Typed, LockKept, Inserting, NEW w \in Workers, Pass(w), NoFault,
         NEW g \in Gens, NEW s \in Services, Due(g, s)'
  PROVE  Due(g, s)
<1>1. \A v \in Workers \ {w} :
        /\ v \in lapsed' <=> v \in lapsed
        /\ \A step : OnService(v, step, g, s)' <=> OnService(v, step, g, s)
  <2>1. lapsed' = lapsed \/ lapsed' = lapsed \ {w}
    <3>1. CASE List(w) \/ TryLock(w) \/ Release(w)
      BY <3>1 DEF List, TryLock, Release, EndPass, Advance
    <3> QED
      BY <3>1, PassKeepsKey
  <2> QED
    BY <2>1, PassOthers DEF OnService, gen, svc
<1>2. CASE OnService(w, "trigger", g, s)'
  <2>1. dep[g][s].run = 0 /\ pc[w] = "services"
    BY <1>2, ComesToTrigger
  <2>2. CASE w \in lapsed
    <3>1. ~List(w) /\ ~TryLock(w) /\ ~Release(w)
      BY <2>1 DEF List, TryLock, Release, At
    <3>2. w \in lapsed'
      BY <2>2, <3>1, PassKeepsKey
    <3>3. CASE \E v \in Workers \ lapsed' : OnService(v, "trigger", g, s)'
      BY <1>1, <3>2, <3>3 DEF Due
    <3>4. CASE \A v \in Workers \ lapsed' : ~OnService(v, "insert", g, s)'
      BY <1>1, <2>1, <2>2, <3>4 DEF Due
    <3> QED
      BY <3>3, <3>4 DEF Due
  <2>3. CASE w \notin lapsed
    <3>1. \A v \in Workers \ lapsed : OnService(v, "insert", g, s) => v = w
      BY <2>1, <2>3, Alone DEF LockKept, InPass, OnService
    <3> QED
      BY <2>1, <3>1 DEF Due, OnService
  <2> QED
    BY <2>2, <2>3
<1>3. CASE ~OnService(w, "trigger", g, s)'
  <2>1. CASE \E v \in Workers \ lapsed' : OnService(v, "trigger", g, s)'
    BY <1>1, <1>3, <2>1 DEF Due
  <2>2. CASE /\ dep'[g][s].run = 0
             /\ \A v \in Workers \ lapsed' : ~OnService(v, "insert", g, s)'
    BY <1>1, <2>2, RunRecorded DEF Due
  <2> QED
    BY <2>1, <2>2 DEF Due
<1> QED
  BY <1>2, <1>3

\* What a step of a worker adds to the builds started, and to the faults.
LEMMA PassPays ==
  ASSUME Typed, NEW w \in Workers, Pass(w), NEW g \in Gens, NEW s \in Services
  PROVE  /\ runs[g][s] \in Nat /\ runs'[g][s] \in Nat
         /\ faults \in Nat /\ (NoFault \/ faults' = faults + 1)
         /\ TriggerFails(w) => faults' = faults + 1
         /\ runs'[g][s] = runs[g][s]
              \/ /\ OnService(w, "trigger", g, s)
                 /\ runs'[g][s] = runs[g][s] + 1
<1>0. /\ runs \in [Gens -> [Services -> Nat]] /\ BuddyTypeOK'
      /\ faults \in Nat
  BY PassRuns DEF Typed, BuddyTypeOK, FaultsTypeOK
<1>1. NoFault \/ faults' = faults + 1
  BY <1>0, PassFaults DEF NoFault, Fault
<1>2. TriggerFails(w) => faults' = faults + 1
  BY DEF TriggerFails, Fault
<1>3. CASE (TriggerBuild(w) \/ TriggerFails(w)) /\ Trigger(gen(w), svc(w))
  BY <1>0, <1>1, <1>2, <1>3 DEF TriggerBuild, TriggerFails, At, Trigger, OnService,
     BuddyTypeOK
<1>4. CASE UNCHANGED runs
  BY <1>0, <1>1, <1>2, <1>4
<1>5. CASE \/ Network(w) \/ RemoveOld(w) \/ Create(w) \/ CreateFails(w)
           \/ RemoveContainer(w) \/ RemoveEnvNetwork(w)
  BY <1>4, <1>5 DEF Network, RemoveOld, Create, CreateFails, RemoveContainer,
     RemoveEnvNetwork, buddyVars
<1>6. CASE TriggerBuild(w) \/ TriggerFails(w)
  BY <1>3, <1>4, <1>6 DEF TriggerBuild, TriggerFails, buddyVars
<1> QED
  BY <1>4, <1>5, <1>6, PassCallsNobody DEF Pass, buddyVars

\* A worker that was astray when it started a build is so no more.
LEMMA TriggersOnce ==
  ASSUME Typed, LockKept, NEW w \in Workers, Pass(w),
         NEW g, NEW s, OnService(w, "trigger", g, s)
  PROVE  /\ w \notin Astray(g, s)'
         /\ w \in lapsed => w \in Astray(g, s)
<1>0. pc \in [Workers -> Steps] /\ pass \in [Workers -> Passes]
  BY DEF Typed, WorkersTyped, ReconcilerTypeOK
<1>1. TriggerBuild(w) \/ TriggerFails(w)
  BY AtBuild DEF OnService
<1>2. pc'[w] = "insert" \/ pc'[w] = "services"
  BY <1>0, <1>1 DEF TriggerBuild, TriggerFails, ServiceFails, Goto
<1>3. CASE TriggerBuild(w)
  <2>1. svc(w)' = s /\ pc'[w] = "insert"
    BY <1>0, <1>3 DEF TriggerBuild, Locals, Goto, svc, Passes, OnService
  <2> QED
    BY <2>1 DEF Astray, MayTrigger, OnService, Ahead, ServiceSteps
<1>4. CASE TriggerFails(w)
  <2>1. pass'[w].todo = pass[w].todo \ {s} /\ pc'[w] = "services"
    BY <1>0, <1>4 DEF TriggerFails, ServiceFails, Locals, Goto, AfterService,
                      svc, OnService
  <2> QED
    BY <2>1 DEF Astray, MayTrigger, OnService, Ahead
<1>5. w \in lapsed => w \in Astray(g, s)
  BY DEF Astray, MayTrigger
<1> QED
  BY <1>1, <1>3, <1>4, <1>5

\* The builds a worker's step starts are paid for.
LEMMA PassAccounted ==
  ASSUME Typed, LockKept, Inserting, Accounted, NEW w \in Workers, Pass(w)
  PROVE  Accounted'
<1> SUFFICES ASSUME NEW g \in Gens, NEW s \in Services
             PROVE  runs'[g][s] + Cardinality(Astray(g, s)')
                      + (IF Due(g, s)' THEN 1 ELSE 0) <= 1 + faults'
  BY DEF Accounted
<1> DEFINE n == Cardinality(Astray(g, s))
           m == Cardinality(Astray(g, s)')
<1>1. /\ n \in Nat /\ m \in Nat /\ m <= n
      /\ \A x \in Astray(g, s) \ Astray(g, s)' : m + 1 <= n
  <2>1. IsFiniteSet(Astray(g, s))
    BY FS_Subset DEF LockKept, Astray
  <2>2. Astray(g, s)' \in SUBSET Astray(g, s)
    BY PassAstray
  <2> QED
    BY <2>1, <2>2, Fewer
<1>2. runs[g][s] + n + (IF Due(g, s) THEN 1 ELSE 0) <= 1 + faults
  BY DEF Accounted
<1> HIDE DEF n, m
<1>3. CASE ~OnService(w, "trigger", g, s)
  <2>1. /\ runs'[g][s] = runs[g][s] /\ runs[g][s] \in Nat
        /\ faults \in Nat /\ (NoFault \/ faults' = faults + 1)
    BY <1>3, PassPays
  <2>2. NoFault => (Due(g, s)' => Due(g, s))
    BY PassDue
  <2> QED
    BY <1>1, <1>2, <2>1, <2>2 DEF m, NoFault
<1>4. CASE OnService(w, "trigger", g, s)
  <2>1. /\ runs[g][s] \in Nat /\ runs'[g][s] \in Nat
        /\ runs'[g][s] <= runs[g][s] + 1
        /\ faults \in Nat
        /\ TriggerFails(w) => faults' = faults + 1
    BY PassPays
  <2>2. w \in lapsed => m + 1 <= n
    BY <1>1, <1>4, TriggersOnce
  <2>3. w \notin lapsed => Due(g, s)
    BY <1>4 DEF Due
  <2>4. CASE TriggerFails(w)
    BY <1>1, <1>2, <2>1, <2>2, <2>3, <2>4 DEF m
  <2>0. ~TriggerFails(w) => TriggerBuild(w) /\ NoFault
    BY <1>4, AtBuild DEF OnService, TriggerBuild
  <2>5. CASE w \in lapsed /\ ~TriggerFails(w)
    <3>1. Due(g, s)' => Due(g, s)
      BY <2>0, <2>5, PassDue
    <3> QED
      BY <1>1, <1>2, <2>0, <2>1, <2>2, <2>5, <3>1 DEF m, NoFault
  <2>6. CASE w \notin lapsed /\ ~TriggerFails(w)
    <3>0. pc \in [Workers -> Steps] /\ pass \in [Workers -> Passes]
      BY DEF Typed, WorkersTyped, ReconcilerTypeOK
    <3>1. TriggerBuild(w) /\ NoFault
      BY <2>0, <2>6
    <3>2. OnService(w, "insert", g, s)' /\ lapsed' = lapsed
      <4>1. /\ Goto(w, "insert") /\ lapsed' = lapsed
            /\ \E d : Locals(w, [pass[w] EXCEPT !.dep = d])
        BY <3>1 DEF TriggerBuild
      <4>2. gen(w)' = gen(w) /\ svc(w)' = svc(w)
        BY <3>0, <4>1 DEF Locals, gen, svc, Passes
      <4> QED
        BY <1>4, <3>0, <4>1, <4>2 DEF Goto, OnService
    <3>3. \A v \in Workers \ lapsed' : ~OnService(v, "trigger", g, s)'
      <4>1. ASSUME NEW v \in Workers \ lapsed', OnService(v, "trigger", g, s)'
            PROVE  FALSE
        <5>1. v # w
          BY <3>2, <4>1 DEF OnService
        <5>2. pc[v] = "trigger" /\ pc[w] = "trigger" /\ v \notin lapsed
          BY <1>4, <3>2, <4>1, <5>1, PassOthers DEF OnService
        <5> QED
          BY <2>6, <5>1, <5>2, Alone DEF InPass, LockKept
      <4> QED
        BY <4>1
    <3>4. ~Due(g, s)'
      BY <2>6, <3>2, <3>3 DEF Due
    <3> QED
      BY <1>1, <1>2, <2>1, <2>3, <2>6, <3>1, <3>4 DEF m, NoFault
  <2> QED
    BY <2>4, <2>5, <2>6
<1> QED
  BY <1>3, <1>4

\* A crash, or the expiry of a lease, pays for the build it may cause.
LEMMA LeaseAccounted ==
  ASSUME Typed, LockKept, Accounted,
         (\E w \in Workers : Crash(w)) \/ LeaseExpires \/ OrphanExpires
  PROVE  Accounted'
<1> SUFFICES ASSUME NEW g \in Gens, NEW s \in Services
             PROVE  runs'[g][s] + Cardinality(Astray(g, s)')
                      + (IF Due(g, s)' THEN 1 ELSE 0) <= 1 + faults'
  BY DEF Accounted
<1> DEFINE n == Cardinality(Astray(g, s))
           m == Cardinality(Astray(g, s)')
<1>0. /\ pc \in [Workers -> Steps] /\ lapsed \subseteq Workers
      /\ runs[g][s] \in Nat /\ faults \in Nat
      /\ IsFiniteSet(Astray(g, s)) /\ n \in Nat
      /\ runs[g][s] + n + (IF Due(g, s) THEN 1 ELSE 0) <= 1 + faults
  <2>1. IsFiniteSet(Astray(g, s))
    BY FS_Subset DEF LockKept, Astray
  <2> QED
    BY <2>1, FS_CardinalityType
    DEF Typed, WorkersTyped, ReconcilerTypeOK, BuddyTypeOK, FaultsTypeOK, Accounted
<1>1. UNCHANGED <<dep, runs>>
  BY LeaseStep DEF storeVars, buddyVars
<1>2. ASSUME NEW w \in Workers, Crash(w)
      PROVE  m \in Nat /\ m <= n /\ faults' = faults + 1
  <2>1. Astray(g, s)' \in SUBSET Astray(g, s)
    <3>1. /\ lapsed' = lapsed \ {w} /\ faults' = faults + 1
          /\ \A v \in Workers \ {w} : pc'[v] = pc[v] /\ pass'[v] = pass[v]
      BY <1>0, <1>2 DEF Crash, EndPass, Goto, Locals, Fault, Typed, WorkersTyped,
                        ReconcilerTypeOK
    <3>2. \A v \in Workers \ {w} : MayTrigger(v, g, s)' <=> MayTrigger(v, g, s)
      BY <3>1 DEF MayTrigger, OnService, Ahead, gen, svc
    <3> QED
      BY <1>0, <3>1, <3>2 DEF Astray
  <2>2. faults' = faults + 1
    BY <1>2 DEF Crash, Fault
  <2> QED
    BY <1>0, <2>1, <2>2, Fewer
<1>3. ASSUME LeaseExpires
      PROVE  /\ m \in Nat /\ faults' = faults + 1
             /\ \/ m <= n
                \/ m <= n + 1 /\ (Due(g, s)' => Due(g, s))
  <2>1. /\ lock \in Workers /\ lapsed' = lapsed \cup {lock}
        /\ faults' = faults + 1 /\ UNCHANGED <<pc, pass, dep>>
    BY <1>1, <1>3 DEF LeaseExpires, Fault
  <2>2. \A v : MayTrigger(v, g, s)' <=> MayTrigger(v, g, s)
    BY <2>1 DEF MayTrigger, OnService, Ahead, gen, svc
  <2>3. CASE MayTrigger(lock, g, s)
    <3>1. Astray(g, s)' = Astray(g, s) \cup {lock}
      BY <2>1, <2>2, <2>3 DEF Astray
    <3>2. m \in Nat /\ m <= n + 1
      <4>1. Cardinality(Astray(g, s) \cup {lock}) \in {n, n + 1}
        BY <1>0, FS_AddElement
      <4>2. m \in {n, n + 1}
        BY <3>1, <4>1
      <4> HIDE DEF n, m
      <4> QED
        BY <1>0, <4>2
    <3>3. ~OnService(lock, "insert", g, s)
      BY <2>3 DEF MayTrigger, OnService, Ahead, ServiceSteps
    <3>4. Due(g, s)' => Due(g, s)
      BY <2>1, <3>3 DEF Due, OnService, gen, svc
    <3> QED
      BY <2>1, <3>2, <3>4
  <2>4. CASE ~MayTrigger(lock, g, s)
    <3>1. Astray(g, s)' = Astray(g, s)
      BY <2>1, <2>2, <2>4 DEF Astray
    <3> QED
      BY <1>0, <2>1, <3>1
  <2> QED
    BY <2>3, <2>4
<1>4. ASSUME OrphanExpires
      PROVE  m = n /\ (Due(g, s)' <=> Due(g, s)) /\ faults' = faults
  BY <1>1, <1>4 DEF OrphanExpires, NoFault, Astray, MayTrigger, Due, OnService,
                    Ahead, gen, svc
<1> HIDE DEF n, m
<1>5. runs'[g][s] = runs[g][s]
  BY <1>1
<1>6. runs'[g][s] + m + (IF Due(g, s)' THEN 1 ELSE 0) <= 1 + faults'
  BY <1>0, <1>2, <1>3, <1>4, <1>5
<1> QED
  BY <1>6 DEF m

\* Every step keeps the account.
LEMMA NextAccounted ==
  Typed /\ LockKept /\ Inserting /\ Accounted /\ [Next]_vars => Accounted'
<1> SUFFICES ASSUME Typed, LockKept, Inserting, Accounted, [Next]_vars
             PROVE  Accounted'
  OBVIOUS
<1>1. ASSUME UNCHANGED <<dep, runs, pc, pass, lapsed>>,
             faults \in Nat, faults' \in Nat, faults' >= faults
      PROVE  Accounted'
  <2> SUFFICES ASSUME NEW g \in Gens, NEW s \in Services
               PROVE  runs'[g][s] + Cardinality(Astray(g, s)')
                        + (IF Due(g, s)' THEN 1 ELSE 0) <= 1 + faults'
    BY DEF Accounted
  <2>1. Astray(g, s)' = Astray(g, s) /\ (Due(g, s)' <=> Due(g, s))
    BY <1>1 DEF Astray, MayTrigger, Due, OnService, Ahead, gen, svc
  <2>2. Cardinality(Astray(g, s)) \in Nat
    <3>1. IsFiniteSet(Astray(g, s))
      BY FS_Subset DEF LockKept, Astray
    <3> QED
      BY <3>1, FS_CardinalityType
  <2>3. runs[g][s] + Cardinality(Astray(g, s)) + (IF Due(g, s) THEN 1 ELSE 0)
          <= 1 + faults
    BY DEF Accounted
  <2>4. runs[g][s] \in Nat
    BY DEF Typed, BuddyTypeOK
  <2> QED
    BY <1>1, <2>1, <2>2, <2>3, <2>4
<1>2. faults \in Nat
  BY DEF Typed, FaultsTypeOK
<1>3. ASSUME NEW c \in Callers, Caller(c)
      PROVE  Accounted'
  BY <1>1, <1>2, <1>3, CallerStep DEF Caller, NoFault, workerVars, buddyVars
<1>4. CASE World
  <2>1. faults' = faults \/ faults' = faults + 1
    BY <1>4 DEF World, Surroundings, NoFault, Fault
  <2> QED
    BY <1>1, <1>2, <1>4, <2>1, WorldStep DEF storeVars, workerVars
<1>5. CASE UNCHANGED vars
  BY <1>1, <1>2, <1>5 DEF vars
<1> QED
  BY <1>3, <1>4, <1>5, PassAccounted, LeaseAccounted DEF Next, Worker, Dying, Redis

\* However passes overlap and whatever fails, crashes or expires, a build is
\* started again only after a fault: never more runs than faults, plus one
\* (reconciler.go:203-237).
THEOREM BuildsPaidFor == Spec => []BuildsBounded
<1>1. Init => LockKept /\ Inserting /\ Accounted
  <2> SUFFICES ASSUME Init PROVE LockKept /\ Inserting /\ Accounted
    OBVIOUS
  <2>1. LockKept
    BY InitLockKept
  <2>2. Inserting
    BY DEF Init, ReconcilerInit, Inserting
  <2>3. Accounted
    <3>1. ASSUME NEW g \in Gens, NEW s \in Services
          PROVE  Cardinality(Astray(g, s)) = 0 /\ runs[g][s] = 0 /\ faults = 0
      <4>1. Astray(g, s) = {}
        BY DEF Init, ReconcilerInit, Astray
      <4> QED
        BY <4>1, FS_EmptySet DEF Init, BuddyInit, FaultsInit
    <3> QED
      BY <3>1 DEF Accounted
  <2> QED
    BY <2>1, <2>2, <2>3
<1>2. Typed /\ LockKept /\ Accounted => BuildsBounded
  <2> SUFFICES ASSUME Typed, LockKept, Accounted, NEW g \in Gens, NEW s \in Services
               PROVE  runs[g][s] <= 1 + faults
    BY DEF BuildsBounded
  <2>1. Cardinality(Astray(g, s)) \in Nat
    <3>1. IsFiniteSet(Astray(g, s))
      BY FS_Subset DEF LockKept, Astray
    <3> QED
      BY <3>1, FS_CardinalityType
  <2>2. runs[g][s] + Cardinality(Astray(g, s)) + (IF Due(g, s) THEN 1 ELSE 0)
          <= 1 + faults
    BY DEF Accounted
  <2>3. runs[g][s] \in Nat /\ faults \in Nat
    BY DEF Typed, BuddyTypeOK, FaultsTypeOK
  <2> QED
    BY <2>1, <2>2, <2>3
<1> QED
  BY <1>1, <1>2, InitTyped, NextTyped, NextLockKept, NextInserting, NextAccounted,
     PTL DEF Spec

-----------------------------------------------------------------------------
(* Passes do not overlap.                                                  *)

OnePass == \A v, w \in Workers : InPass(v) /\ InPass(w) => v = w

\* Leases that do not expire are not lost.
LEMMA NextNoneLapsed ==
  ASSUME "expire" \notin FaultKinds, Typed, lapsed = {}, [Next]_vars
  PROVE  lapsed' = {}
<1>1. ASSUME NEW w \in Workers, Pass(w)
      PROVE  lapsed' = {}
  <2>1. CASE List(w) \/ TryLock(w) \/ Release(w)
    BY <2>1 DEF List, TryLock, Release, EndPass, Advance
  <2> QED
    BY <1>1, <2>1, PassKeepsKey
<1>2. ASSUME NEW w \in Workers, Crash(w)
      PROVE  lapsed' = {}
  BY <1>2 DEF Crash, EndPass
<1>3. CASE LeaseExpires \/ OrphanExpires
  BY <1>3 DEF LeaseExpires, OrphanExpires, Fault
<1>4. CASE UNCHANGED workerVars
  BY <1>4 DEF workerVars
<1> QED
  BY <1>1, <1>2, <1>3, <1>4 DEF Next, Worker, Dying, Caller, Redis, World, vars, workerVars

\* Whoever has the key is alone, if no lease has run out.
LEMMA LockedOnce ==
  ASSUME LockKept, lapsed = {}
  PROVE  OnePass
BY Alone DEF LockKept, OnePass

\* Recording a deployment is part of a pass that deploys.
LEMMA RecordsInPass ==
  ASSUME NEW w \in Workers, Records(w)
  PROVE  InPass(w) /\ pc[w] \in DeploySteps
BY DEF Records, TriggerFails, InsertDeployment, InsertFails, StillBuilding,
       RecordFailed, RecordRunning, At, InPass, DeploySteps, ServiceSteps

-----------------------------------------------------------------------------
(* A pass touches no container while the run of record goes on.            *)

\* The steps that act on the outcome of the run, which was read from Buddy or
\* from the row; and the one that asks Buddy.
Polled == {"failed", "remove", "create", "noContainer", "running"}
HasRun == Polled \cup {"poll"}

\* The strengthening: a row that has a run and does not say building tells of
\* a run that has ended, as does every step that acts on an outcome; and a
\* worker's run is still the one of the row.
Finished ==
  /\ \A g \in Gens, s \in Services :
        dep[g][s].run # 0 /\ dep[g][s].state # "building"
          => Ended(g, s, dep[g][s].run)
  /\ \A w \in Workers :
        /\ pc[w] \in Polled => Ended(gen(w), svc(w), pass[w].dep.run)
        /\ pc[w] \in HasRun => pass[w].dep.run = dep[gen(w)][svc(w)].run

\* A run that has ended stays ended.
LEMMA EndedStays ==
  ASSUME Typed, UNCHANGED <<passed, broken>> \/ World,
         NEW g \in Gens, NEW s \in Services, NEW n, Ended(g, s, n)
  PROVE  Ended(g, s, n)'
<1>1. Ended(g, s, n) <=> n \in passed[g][s] \/ n \in broken[g][s]
  BY DEF Ended, GetRun
<1>2. Ended(g, s, n)' <=> n \in passed'[g][s] \/ n \in broken'[g][s]
  BY DEF Ended, GetRun
<1>3. CASE UNCHANGED <<passed, broken>>
  BY <1>1, <1>2, <1>3
<1>4. CASE World
  <2>1. /\ passed \in [Gens -> [Services -> SUBSET Nat]]
        /\ broken \in [Gens -> [Services -> SUBSET Nat]]
    BY DEF Typed, BuddyTypeOK
  <2>2. CASE UNCHANGED buddyVars
    BY <1>1, <1>2, <2>2 DEF buddyVars
  <2>3. CASE \E h \in Gens, r \in Services : Finish(h, r)
    <3>1. PICK h \in Gens, r \in Services, m \in Nat :
            /\ passed' \in {passed, [passed EXCEPT ![h][r] = @ \cup {m}]}
            /\ broken' \in {broken, [broken EXCEPT ![h][r] = @ \cup {m}]}
      BY <2>3 DEF Finish
    <3> DEFINE Sets == [Gens -> [Services -> SUBSET Nat]]
    <3>2. \A f \in Sets : f[g][s] \subseteq [f EXCEPT ![h][r] = @ \cup {m}][g][s]
      OBVIOUS
    <3>3. passed \in Sets /\ broken \in Sets
      BY <2>1
    <3> HIDE DEF Sets
    <3>4. passed[g][s] \subseteq passed'[g][s] /\ broken[g][s] \subseteq broken'[g][s]
      BY <3>1, <3>2, <3>3
    <3> QED
      BY <1>1, <1>2, <3>4
  <2> QED
    BY <1>4, <2>2, <2>3 DEF World, Surroundings
<1> QED
  BY <1>3, <1>4

\* What the deployments say, through a step of a worker.
LEMMA PassRecordsFinished ==
  ASSUME Typed, Inserting, Finished, NEW w \in Workers, Pass(w)
  PROVE  \A g \in Gens, s \in Services :
            dep'[g][s].run # 0 /\ dep'[g][s].state # "building"
              => Ended(g, s, dep'[g][s].run)
<1>1. CASE ~Records(w)
  BY <1>1, PassKeepsDeployments DEF Finished
<1>2. CASE Records(w) /\ ~UNCHANGED dep
  <2>1. gen(w) \in Gens /\ svc(w) \in Services
    BY <1>2, AtService
    DEF Records, TriggerFails, InsertDeployment, InsertFails, StillBuilding,
        RecordFailed, RecordRunning, At, ServiceSteps, Typed
  <2>2. dep \in [Gens -> [Services -> Deployments]]
    BY DEF Typed, RowTyped, StoreTypeOK
  <2>3. dep[gen(w)][svc(w)] \in Deployments
    BY <2>1, <2>2
  <2> DEFINE d == dep'[gen(w)][svc(w)]
  <2>4. d.run # 0 /\ d.state # "building" => Ended(gen(w), svc(w), d.run)
    <3>1. CASE TriggerFails(w)
      BY <1>2, <2>1, <2>2, <3>1 DEF TriggerFails, Insert
    <3>2. CASE InsertDeployment(w) \/ InsertFails(w)
      BY <1>2, <2>1, <2>2, <3>2
      DEF InsertDeployment, InsertFails, Insert, At, Inserting
    <3>3. CASE StillBuilding(w)
      BY <1>2, <2>1, <2>2, <2>3, <3>3
      DEF StillBuilding, Record, UpdateRuntime, Deployments
    <3>4. CASE RecordFailed(w) \/ RecordRunning(w)
      <4>1. pc[w] \in Polled
        BY <3>4 DEF RecordFailed, RecordRunning, At, Polled
      <4>2. Ended(gen(w), svc(w), dep[gen(w)][svc(w)].run)
        BY <4>1 DEF Finished, HasRun
      <4>3. d.run = dep[gen(w)][svc(w)].run
        BY <1>2, <2>1, <2>2, <2>3, <3>4
        DEF RecordFailed, RecordRunning, Record, UpdateRuntime, Deployments
      <4> QED
        BY <4>2, <4>3
    <3> QED
      BY <1>2, <3>1, <3>2, <3>3, <3>4 DEF Records
  <2> HIDE DEF d
  <2> QED
    BY <1>2, <2>4, RecordsOne DEF Finished, d
<1>3. CASE UNCHANGED dep
  BY <1>3 DEF Finished
<1> QED
  BY <1>1, <1>2, <1>3

\* What a worker knows, through its own step.
LEMMA PassKnowsFinished ==
  ASSUME Typed, Finished, NEW w \in Workers, Pass(w)
  PROVE  /\ pc'[w] \in Polled => Ended(gen(w)', svc(w)', pass'[w].dep.run)
         /\ pc'[w] \in HasRun => pass'[w].dep.run = dep'[gen(w)'][svc(w)'].run
<1>0. /\ pc \in [Workers -> Steps] /\ pass \in [Workers -> Passes]
      /\ dep \in [Gens -> [Services -> Deployments]]
  BY DEF Typed, WorkersTyped, ReconcilerTypeOK, RowTyped, StoreTypeOK
<1>1. CASE NextService(w)
  <2>1. PICK s \in pass[w].todo, read \in BOOLEAN :
          LET d == IF read THEN dep[gen(w)][s] ELSE NoDeployment IN
            /\ Locals(w, [pass[w] EXCEPT !.svc = s, !.dep = d])
            /\ Goto(w, CASE d.run = 0                        -> "trigger"
                         [] d.run # 0 /\ d.state = "building" -> "poll"
                         [] OTHER                            -> "remove")
    BY <1>1 DEF NextService
  <2>2. gen(w) \in Gens /\ s \in Services
    BY <1>0, <1>1 DEF NextService, At, Typed, WorkersTyped, PassPlanned,
                      DeploySteps, Passes
  <2> DEFINE d == IF read THEN dep[gen(w)][s] ELSE NoDeployment
  <2>3. gen(w)' = gen(w) /\ svc(w)' = s /\ pass'[w].dep = d
    BY <1>0, <2>1 DEF Locals, gen, svc, Passes
  <2>4. /\ pc'[w] \in {"trigger", "poll", "remove"}
        /\ pc'[w] # "trigger" => d.run # 0
        /\ pc'[w] = "remove" => d.state # "building"
    BY <1>0, <2>1 DEF Goto
  <2>5. UNCHANGED dep
    BY <1>1 DEF NextService, storeVars
  <2>6. d.run # 0 => d = dep[gen(w)][s]
    BY DEF NoDeployment
  <2> HIDE DEF d
  <2> QED
    BY <2>2, <2>3, <2>4, <2>5, <2>6 DEF Finished, Polled, HasRun
<1>2. CASE InsertDeployment(w)
  <2>1. gen(w) \in Gens /\ svc(w) \in Services
    BY <1>2, AtService DEF InsertDeployment, At, ServiceSteps, Typed
  <2>2. UNCHANGED pass /\ pc'[w] = "poll" /\ dep'[gen(w)][svc(w)] = pass[w].dep
    BY <1>0, <1>2, <2>1 DEF InsertDeployment, Insert, Advance, Goto
  <2> QED
    BY <2>2 DEF Polled, HasRun, gen, svc
<1>3. CASE Poll(w)
  <2>1. /\ pc[w] = "poll" /\ pc'[w] \in {"remove", "failed", "building"}
        /\ pc'[w] # "building" => Ended(gen(w), svc(w), pass[w].dep.run)
        /\ UNCHANGED <<pass, dep>>
    BY <1>0, <1>3 DEF Poll, Status, Ended, At, Advance, Goto, storeVars
  <2> QED
    BY <2>1 DEF Finished, Polled, HasRun, gen, svc
<1>4. CASE RemoveOld(w) \/ Create(w) \/ CreateRefused(w) \/ CreateFails(w)
  <2>1. /\ pc[w] \in Polled
        /\ pc'[w] \in Polled
        /\ UNCHANGED <<pass, dep>>
    BY <1>0, <1>4 DEF RemoveOld, Create, CreateRefused, CreateFails, At, Advance,
                      Goto, Polled, storeVars
  <2> QED
    BY <2>1 DEF Finished, HasRun, gen, svc
<1>5. CASE \/ List(w) \/ TryLock(w) \/ Read(w) \/ ReadFails(w) \/ Network(w)
           \/ degrade(w) \/ Promote(w) \/ LookUpFails(w) \/ TriggerBuild(w)
           \/ TriggerFails(w) \/ InsertFails(w) \/ PollFails(w)
           \/ StillBuilding(w) \/ RecordFailed(w) \/ RecordRunning(w) \/ Track(w)
           \/ InspectService(w) \/ ServicesDone(w) \/ DeleteDomains(w)
           \/ UpsertDomains(w) \/ FinalState(w) \/ Release(w) \/ RuntimeRows(w)
           \/ RemoveContainer(w) \/ RemoveEnvNetwork(w) \/ Unroute(w)
           \/ Untrack(w) \/ Mark(w)
  <2>1. pc'[w] \notin HasRun
    BY <1>0, <1>5
    DEF List, TryLock, Read, ReadFails, Network, degrade, Promote, LookUpFails,
        TriggerBuild, TriggerFails, InsertFails, PollFails, StillBuilding,
        RecordFailed, RecordRunning, Track, InspectService, ServicesDone,
        DeleteDomains, UpsertDomains, FinalState, Release, RuntimeRows,
        RemoveContainer, RemoveEnvNetwork, Unroute, Untrack, Mark, At, Advance,
        ServiceFails, EndPass, Goto, HasRun, Polled
  <2> QED
    BY <2>1 DEF HasRun
<1> QED
  BY <1>1, <1>2, <1>3, <1>4, <1>5 DEF Pass

\* A worker with a run is in a pass, on a service.
LEMMA HasRunInPass ==
  ASSUME Typed, NEW w \in Workers, pc[w] \in HasRun
  PROVE  InPass(w) /\ gen(w) \in Gens /\ svc(w) \in Services
<1>1. pc[w] \in ServiceSteps
  BY DEF HasRun, Polled, ServiceSteps
<1> QED
  BY <1>1, AtService DEF Typed, ServiceSteps, InPass

\* While passes do not overlap, nobody else records another run.
LEMMA NextFinished ==
  Typed /\ OnePass /\ Inserting /\ Finished /\ [Next]_vars => Finished'
<1> SUFFICES ASSUME Typed, OnePass, Inserting, Finished, [Next]_vars PROVE Finished'
  OBVIOUS
<1>0. pc \in [Workers -> Steps] /\ pass \in [Workers -> Passes]
  BY DEF Typed, WorkersTyped, ReconcilerTypeOK
<1>a. HasRun = Polled \cup {"poll"}
  BY DEF HasRun
<1>1. ASSUME NEW w \in Workers, Pass(w)
      PROVE  Finished'
  <2>0. UNCHANGED <<passed, broken>>
    BY <1>1, PassKeepsResults
  <2>2. ASSUME NEW v \in Workers \ {w}
        PROVE  /\ pc'[v] \in Polled => Ended(gen(v), svc(v), pass[v].dep.run)
               /\ pc'[v] \in HasRun => pass[v].dep.run = dep'[gen(v)][svc(v)].run
               /\ pass'[v] = pass[v] /\ gen(v)' = gen(v) /\ svc(v)' = svc(v)
    <3>1. pc'[v] = pc[v] /\ pass'[v] = pass[v]
      BY <1>1, PassOthers
    <3>2. CASE pc[v] \in HasRun
      <4>1. ~Records(w)
        BY <3>2, HasRunInPass, RecordsInPass DEF OnePass
      <4> QED
        BY <1>1, <3>1, <3>2, <4>1, PassKeepsDeployments DEF Finished, gen, svc
    <3> QED
      BY <1>a, <3>1, <3>2 DEF gen, svc
  <2>3. /\ pc'[w] \in Polled => Ended(gen(w)', svc(w)', pass'[w].dep.run)
        /\ pc'[w] \in HasRun => pass'[w].dep.run = dep'[gen(w)'][svc(w)'].run
    BY <1>1, PassKnowsFinished
  <2>4. \A g \in Gens, s \in Services :
          dep'[g][s].run # 0 /\ dep'[g][s].state # "building"
            => Ended(g, s, dep'[g][s].run)
    BY <1>1, PassRecordsFinished
  <2>5. \A v \in Workers :
          /\ pc'[v] \in Polled => Ended(gen(v)', svc(v)', pass'[v].dep.run)
          /\ pc'[v] \in HasRun => pass'[v].dep.run = dep'[gen(v)'][svc(v)'].run
    BY <2>2, <2>3
  <2> QED
    BY <2>0, <2>4, <2>5 DEF Finished, Ended, GetRun
<1>2. ASSUME NEW w \in Workers, Crash(w)
      PROVE  Finished'
  <2>1. UNCHANGED <<dep, passed, broken>>
    BY <1>2 DEF Crash, storeVars, buddyVars
  <2>2. /\ pc'[w] = "idle"
        /\ \A v \in Workers \ {w} : pc'[v] = pc[v] /\ pass'[v] = pass[v]
    BY <1>0, <1>2 DEF Crash, EndPass, Goto, Locals
  <2> QED
    BY <2>1, <2>2 DEF Finished, Polled, HasRun, gen, svc, Ended, GetRun
<1>3. CASE UNCHANGED <<dep, passed, broken, pc, pass>>
  BY <1>3 DEF Finished, gen, svc, Ended, GetRun
<1>4. ASSUME NEW c \in Callers, Caller(c)
      PROVE  Finished'
  BY <1>3, <1>4, CallerStep DEF Caller, workerVars, buddyVars
<1>5. CASE World
  <2>1. UNCHANGED <<dep, pc, pass>>
    BY <1>5 DEF World, storeVars, workerVars
  <2>2. \A w \in Workers : pc[w] \in Polled => gen(w) \in Gens /\ svc(w) \in Services
    BY <1>a, HasRunInPass
  <2>3. \A g \in Gens, s \in Services, n \in Nat : Ended(g, s, n) => Ended(g, s, n)'
    BY <1>5, EndedStays
  <2>4. /\ \A g \in Gens, s \in Services : dep[g][s].run \in Nat
        /\ \A w \in Workers : pass[w].dep.run \in Nat
    BY <1>0 DEF Typed, RowTyped, StoreTypeOK, Passes, Deployments
  <2> QED
    BY <2>1, <2>2, <2>3, <2>4 DEF Finished, gen, svc
<1>6. CASE LeaseExpires \/ OrphanExpires \/ UNCHANGED vars
  BY <1>3, <1>6 DEF LeaseExpires, OrphanExpires, vars, storeVars, buddyVars
<1> QED
  BY <1>1, <1>2, <1>4, <1>5, <1>6 DEF Next, Worker, Dying, Redis

\* As long as no lease expires during a pass, a pass removes or creates a
\* container only when the run that its deployment names has ended, whatever
\* crashes and fails and however many other runs of the build were started
\* and lost (reconciler.go:209-215, :239-256).
THEOREM FinishedBeforeRun ==
  ASSUME "expire" \notin FaultKinds
  PROVE  Spec => []RunsOnlyFinished
<1> DEFINE I == Typed /\ LockKept /\ lapsed = {} /\ Inserting /\ Finished
<1>1. Init => I
  BY InitTyped, InitLockKept
  DEF Init, StoreInit, NoDeployment, ReconcilerInit, Inserting, Finished, Polled,
      HasRun
<1>2. I /\ [Next]_vars => I'
  BY NextTyped, NextLockKept, NextNoneLapsed, LockedOnce, NextInserting, NextFinished
<1>3. I => RunsOnlyFinished
  BY DEF Finished, Polled, RunsOnlyFinished, Status, Ended
<1> QED
  BY <1>1, <1>2, <1>3, PTL DEF Spec

-----------------------------------------------------------------------------
(* A stale worker replaces nothing.                                        *)

\* The strengthening: of a generation newer than the one a pass deploys,
\* nothing has begun.
NewerUntouched ==
  \A w \in Workers : pc[w] \in DeploySteps =>
    \A g \in Gens, s \in Services : g > gen(w) => dep[g][s] = NoDeployment

\* A container appears only where a pass creates one, of its generation.
LEMMA PassCreates ==
  ASSUME Typed, NEW w \in Workers, Pass(w), NEW s \in Services
  PROVE  \/ ctr'[s] = ctr[s]
         \/ ctr'[s] = Absent
         \/ pc[w] = "create" /\ ctr'[s].gen = gen(w)
<1>0. ctr \in [Services -> Containers]
  BY DEF Typed, DockerTypeOK
<1>1. CASE UNCHANGED ctr
  BY <1>1
<1>2. CASE RemoveOld(w) \/ RemoveContainer(w)
  BY <1>0, <1>2 DEF RemoveOld, RemoveContainer, RemoveByName, dockerVars
<1>3. CASE Create(w) \/ CreateFails(w)
  BY <1>0, <1>3 DEF Create, CreateFails, CreateContainer, At, dockerVars
<1>4. CASE \/ Network(w) \/ RemoveEnvNetwork(w) \/ TriggerBuild(w) \/ TriggerFails(w)
  BY <1>4 DEF Network, EnsureNetwork, RemoveEnvNetwork, RemoveNetwork, TriggerBuild,
     TriggerFails, dockerVars
<1> QED
  BY <1>1, <1>2, <1>3, <1>4, PassCallsNobody DEF Pass

\* While passes do not overlap, no step begins a newer generation's work.
LEMMA NextNewerUntouched ==
  Typed /\ OnePass /\ Behind /\ NewerUntouched /\ [Next]_vars => NewerUntouched'
<1> SUFFICES ASSUME Typed, OnePass, Behind, NewerUntouched, [Next]_vars
             PROVE  NewerUntouched'
  OBVIOUS
<1>0. pc \in [Workers -> Steps] /\ pass \in [Workers -> Passes]
  BY DEF Typed, WorkersTyped, ReconcilerTypeOK
<1>1. ASSUME NEW w \in Workers, Pass(w)
      PROVE  NewerUntouched'
  <2>1. ASSUME NEW v \in Workers \ {w}, pc'[v] \in DeploySteps,
               NEW g \in Gens, NEW s \in Services, g > gen(v)'
        PROVE  dep'[g][s] = NoDeployment
    <3>1. pc[v] \in DeploySteps /\ gen(v)' = gen(v)
      BY <1>1, <2>1, PassOthers DEF gen
    <3>2. InPass(v)
      BY <3>1 DEF InPass, DeploySteps, ServiceSteps
    <3>3. ~Records(w)
      BY <3>2, RecordsInPass DEF OnePass
    <3> QED
      BY <1>1, <2>1, <3>1, <3>3, PassKeepsDeployments DEF NewerUntouched
  <2>2. ASSUME pc'[w] \in DeploySteps,
               NEW g \in Gens, NEW s \in Services, g > gen(w)'
        PROVE  dep'[g][s] = NoDeployment
    <3>1. CASE pc[w] = "locked"
      <4>0. ~ReadFails(w)
        BY <1>0, <2>2 DEF ReadFails, Advance, Goto, DeploySteps, ServiceSteps
      <4>1. Read(w)
        BY <1>1, <3>1, <4>0
        DEF Pass, List, TryLock, Network, degrade, Promote, LookUpFails,
            NextService, TriggerBuild, TriggerFails, InsertDeployment, InsertFails,
            Poll, PollFails, StillBuilding, RecordFailed, RemoveOld, Create,
            CreateRefused, CreateFails, RecordRunning, Track, InspectService,
            ServicesDone, DeleteDomains, UpsertDomains, FinalState, Release,
            RuntimeRows, RemoveContainer, RemoveEnvNetwork, Unroute, Untrack,
            Mark, At
      <4>2. gen(w)' = row.gen /\ UNCHANGED dep
        <5>1. [NoPass EXCEPT !.env = row, !.todo = row.topo].env = row
          BY DEF NoPass
        <5> QED
          BY <1>0, <4>1, <5>1 DEF Read, Locals, gen, storeVars
      <4> QED
        BY <2>2, <4>2 DEF Behind, NothingAhead
    <3>2. CASE pc[w] # "locked"
      <4>1. pc[w] \in DeploySteps /\ gen(w)' = gen(w)
        BY <1>1, <2>2, <3>2, PassAhead
      <4>2. dep'[g][s] = dep[g][s]
        <5>1. CASE Records(w)
          <6>1. gen(w) \in Nat /\ g \in Nat
            BY <4>1 DEF Typed, WorkersTyped, PassPlanned, Gens
          <6>2. g # gen(w)
            BY <2>2, <4>1, <6>1
          <6> QED
            BY <5>1, <6>2, RecordsOne
        <5> QED
          BY <1>1, <5>1, PassKeepsDeployments
      <4> QED
        BY <2>2, <4>1, <4>2 DEF NewerUntouched
    <3> QED
      BY <3>1, <3>2
  <2> QED
    BY <2>1, <2>2 DEF NewerUntouched
<1>2. ASSUME NEW w \in Workers, Crash(w)
      PROVE  NewerUntouched'
  <2>1. /\ pc' = [pc EXCEPT ![w] = "idle"] /\ UNCHANGED dep
        /\ \A v \in Workers \ {w} : pass'[v] = pass[v]
    BY <1>0, <1>2 DEF Crash, EndPass, Goto, Locals, storeVars
  <2>2. "idle" \notin DeploySteps
    BY DEF DeploySteps, ServiceSteps
  <2> QED
    BY <1>0, <2>1, <2>2 DEF NewerUntouched, gen
<1>3. CASE UNCHANGED <<pc, pass, dep>>
  BY <1>3 DEF NewerUntouched, gen
<1>4. ASSUME NEW c \in Callers, Caller(c)
      PROVE  UNCHANGED <<pc, pass, dep>>
  BY <1>4, CallerStep DEF Caller, workerVars
<1>5. CASE World \/ LeaseExpires \/ OrphanExpires \/ UNCHANGED vars
  BY <1>3, <1>5 DEF World, LeaseExpires, OrphanExpires, vars, storeVars, workerVars
<1> QED
  BY <1>1, <1>2, <1>3, <1>4, <1>5 DEF Next, Worker, Dying, Redis

\* As long as no lease expires during a pass, a worker puts its container
\* nowhere that work on a newer generation has begun, whatever crashes and
\* fails in between (reconciler.go:13-15, :96-98).
THEOREM StaleWorkersStop ==
  ASSUME "expire" \notin FaultKinds
  PROVE  Spec => NewerNeverReplaced
<1> DEFINE I == Typed /\ LockKept /\ lapsed = {} /\ Behind /\ NewerUntouched
           A == \A s \in Services :
                  ctr'[s].gen # ctr[s].gen /\ ctr'[s].gen > 0
                    => \A g \in Gens : g > ctr'[s].gen => dep[g][s] = NoDeployment
<1>1. Init => I
  BY InitTyped, InitLockKept, InitBehind
  DEF Init, ReconcilerInit, NewerUntouched, DeploySteps, ServiceSteps
<1>2. I /\ [Next]_vars => I'
  BY NextTyped, NextLockKept, NextNoneLapsed, NextBehind, LockedOnce, NextNewerUntouched
<1>3. I /\ [Next]_vars => [A]_vars
  <2> SUFFICES ASSUME I, Next, NEW s \in Services,
                      ctr'[s].gen # ctr[s].gen, ctr'[s].gen > 0
               PROVE  \A g \in Gens : g > ctr'[s].gen => dep[g][s] = NoDeployment
    OBVIOUS
  <2>1. ASSUME NEW w \in Workers, Pass(w)
        PROVE  \A g \in Gens : g > ctr'[s].gen => dep[g][s] = NoDeployment
    <3>1. Absent.gen = 0
      BY DEF Absent
    <3>2. pc[w] = "create" /\ ctr'[s].gen = gen(w)
      BY <2>1, <3>1, PassCreates
    <3> QED
      BY <3>2 DEF NewerUntouched, DeploySteps, ServiceSteps
  <2>2. CASE UNCHANGED dockerVars
    BY <2>2 DEF dockerVars
  <2>3. CASE World
    BY <2>3, WorldStep
  <2> QED
    BY <2>1, <2>2, <2>3 DEF Next, Worker, Dying, Crash, Caller, Redis, LeaseExpires, OrphanExpires
<1> QED
  BY <1>1, <1>2, <1>3, PTL DEF Spec, NewerNeverReplaced

-----------------------------------------------------------------------------
(* A teardown leaves nothing but what failed.                              *)

\* What of each kind is left was left by a failure.
CtrKnown == \A s \in Services : Exists(s) => s \in left.ctr
NetKnown == net => left.net \/ \E s \in Services : Exists(s)
DomKnown == dom # {} => left.dom
RowsKnown == rr # {} => left.rr

Emptied == CtrKnown /\ NetKnown

\* The strengthening. A container has a runtime row, or a failure left it
\* without one, or it is the one a pass has created and is about to record.
Tracked ==
  \A s \in Services : Exists(s) =>
    \/ s \in rr
    \/ s \in left.ctr
    \/ \E w \in Workers : pc[w] \in {"running", "track"} /\ svc(w) = s

\* The containers that a teardown will still remove.
Listed(w) == \A s \in Services : Exists(s) => s \in pass[w].todo \/ s \in left.ctr

\* What a teardown has removed, or failed to, by the time of each of its steps.
TornDownBy(w) ==
  /\ pc[w] = "containers" => Listed(w)
  /\ pc[w] \in {"unroute", "untrack", "mark"} => Emptied
  /\ pc[w] \in {"untrack", "mark"} => DomKnown
  /\ pc[w] = "mark" => RowsKnown

TornDown == \A w \in Workers : TornDownBy(w)

\* Once the row says destroyed nothing else is left, and no pass is under way
\* that read anything else.
Gone ==
  row.state = "destroyed" =>
    /\ Emptied /\ DomKnown /\ RowsKnown
    /\ \A w \in Workers : InPass(w) => pc[w] \in {"locked", "release"}

Clean == Tracked /\ TornDown /\ Gone

\* The same, for the one worker that is in a pass.
CleanFor(w) ==
  /\ \A s \in Services : Exists(s) =>
        \/ s \in rr \/ s \in left.ctr
        \/ pc[w] \in {"running", "track"} /\ svc(w) = s
  /\ TornDownBy(w)
  /\ row.state = "destroyed" =>
        Emptied /\ DomKnown /\ RowsKnown /\ pc[w] \in {"locked", "release"}

\* The steps of one worker are all there is to look at.
LEMMA CleanOfOne ==
  ASSUME NEW w \in Workers, \A v \in Workers \ {w} : ~InPass(v), Clean, InPass(w)
  PROVE  CleanFor(w)
<1>1. \A v \in Workers \ {w} : pc[v] \notin {"running", "track"}
  BY DEF InPass
<1> QED
  BY <1>1 DEF Clean, Tracked, TornDown, Gone, CleanFor

\* A fault counts as a failure.
LEMMA FaultFails ==
  ASSUME FaultsTypeOK
  PROVE  (\A kind : Fault(kind) => Fails) /\ (NoFault => ~Fails)
BY MaxFaultsAssumption DEF FaultsTypeOK, Fault, NoFault, Fails

\* What a step remembers: nothing is forgotten that is still there, unless it
\* gets its row, and what a failure makes a teardown miss is added.
LEMMA Kept ==
  ASSUME NEW w \in Workers, Remember(w)
  PROVE  /\ \A s \in Services : s \in left.ctr /\ Exists(s)'
               => s \in left'.ctr \/ (pc[w] = "track" /\ ~Fails /\ s = svc(w))
         /\ Fails => \A s \in Missed(w) : Exists(s)' => s \in left'.ctr
         /\ ~(pc[w] = "containers" /\ pc'[w] = "unroute") => left'.net = left.net
         /\ pc[w] = "containers" /\ pc'[w] = "unroute" => left'.net = Fails
         /\ ~(pc[w] = "unroute" /\ pc'[w] = "untrack") => left'.dom = left.dom
         /\ pc[w] = "unroute" /\ pc'[w] = "untrack" => left'.dom = Fails
         /\ ~(pc[w] = "untrack" /\ pc'[w] = "mark") => left'.rr = left.rr
         /\ pc[w] = "untrack" /\ pc'[w] = "mark" => left'.rr = Fails
BY DEF Remember, Leaves

\* A step that touches neither containers nor network leaves an emptied host
\* emptied.
LEMMA EmptiedStays ==
  ASSUME NEW w \in Workers, Remember(w), UNCHANGED <<ctr, net>>, Emptied,
         pc[w] \notin {"track", "containers"}
  PROVE  Emptied'
<1>1. \A s \in Services : Exists(s)' <=> Exists(s)
  BY DEF Exists
<1>2. left'.net = left.net
  BY Kept
<1>3. \A s \in Services : Exists(s)' /\ s \in left.ctr => s \in left'.ctr
  BY Kept
<1> QED
  BY <1>1, <1>2, <1>3 DEF Emptied, CtrKnown, NetKnown

\* Every step of a pass that deploys keeps it, and so does reading the row.
LEMMA DeployClean ==
  ASSUME Typed, NEW w \in Workers, Pass(w), Remember(w), CleanFor(w),
         pc[w] \in DeploySteps \cup {"locked"}
  PROVE  CleanFor(w)'
<1>0. /\ pc \in [Workers -> Steps] /\ pass \in [Workers -> Passes]
      /\ ctr \in [Services -> Containers] /\ row \in Rows /\ FaultsTypeOK
  BY DEF Typed, WorkersTyped, ReconcilerTypeOK, DockerTypeOK, RowTyped, StoreTypeOK
<1> USE DEF TornDownBy
<1>1. CASE Read(w) \/ ReadFails(w)
  <2>1. /\ UNCHANGED <<row, dom, rr, ctr, net>> /\ pc[w] = "locked"
        /\ pc'[w] \in {"rows", "release", "network"}
        /\ row.state = "destroyed" => pc'[w] = "release"
    BY <1>0, <1>1 DEF Read, ReadFails, At, Advance, Goto, storeVars, dockerVars
  <2>2. /\ Emptied => Emptied'
        /\ left'.dom = left.dom /\ left'.rr = left.rr
    BY <2>1, EmptiedStays, Kept
  <2>3. \A s \in Services : Exists(s)' /\ s \in left.ctr => s \in left'.ctr
    BY <2>1, Kept
  <2> QED
    BY <2>1, <2>2, <2>3 DEF CleanFor, Exists, DomKnown, RowsKnown
\* From here on the row does not say destroyed, and pc is not at a teardown.
<1>a. ASSUME pc[w] \in DeploySteps, pc'[w] \in DeploySteps \cup {"release"},
             row'.state = "destroyed" => row.state = "destroyed",
             \A s \in Services : Exists(s)' =>
               \/ s \in rr' \/ s \in left'.ctr
               \/ pc'[w] \in {"running", "track"} /\ svc(w)' = s
      PROVE  CleanFor(w)'
  BY <1>a DEF CleanFor, DeploySteps, ServiceSteps
<1>b. ASSUME pc[w] # "track"
      PROVE  \A s \in Services : Exists(s)' /\ s \in left.ctr => s \in left'.ctr
  BY <1>b, Kept
<1>2. CASE \/ NextService(w) \/ TriggerBuild(w) \/ TriggerFails(w)
           \/ InsertDeployment(w) \/ Poll(w) \/ PollFails(w) \/ StillBuilding(w)
           \/ RecordFailed(w) \/ CreateRefused(w) \/ InspectService(w)
           \/ LookUpFails(w) \/ InsertFails(w)
           \/ ServicesDone(w) \/ Network(w) \/ DeleteDomains(w) \/ UpsertDomains(w)
  <2>1. /\ UNCHANGED <<row, rr>> /\ pc[w] \in DeploySteps \ {"running", "track"}
        /\ \A s \in Services : Exists(s)' <=> Exists(s)
        /\ pc'[w] \in DeploySteps \ {"running", "track"}
    BY <1>0, <1>2
    DEF NextService, TriggerBuild, TriggerFails, InsertDeployment, Poll, PollFails,
        StillBuilding, RecordFailed, CreateRefused, InspectService, ServicesDone,
        LookUpFails, InsertFails, DeleteDomains, UpsertDomains,
        Network, EnsureNetwork, At, Advance, ServiceFails, Goto, Insert,
        UpdateRuntime, storeVars, dockerVars, DeploySteps, ServiceSteps, Exists
  <2> QED
    BY <2>1, <1>a, <1>b DEF CleanFor
<1>3. CASE RemoveOld(w)
  <2>1. /\ UNCHANGED <<row, rr>> /\ pc[w] = "remove"
        /\ pc'[w] \in {"create", "noContainer"}
        /\ \A s \in Services : Exists(s)' => Exists(s)
    BY <1>0, <1>3 DEF RemoveOld, RemoveByName, At, Advance, Goto, storeVars,
                      dockerVars, Exists, Absent
  <2> QED
    BY <2>1, <1>a, <1>b DEF CleanFor, DeploySteps, ServiceSteps
<1>4. CASE Create(w)
  <2>1. /\ UNCHANGED <<row, rr, pass>> /\ pc[w] = "create" /\ pc'[w] = "running"
        /\ \A s \in Services : Exists(s)' => Exists(s) \/ s = svc(w)
    BY <1>0, <1>4 DEF Create, CreateContainer, At, Advance, Goto, storeVars, Exists
  <2> QED
    BY <2>1, <1>a, <1>b DEF CleanFor, svc, DeploySteps, ServiceSteps
<1>5. CASE CreateFails(w)
  <2>1. /\ UNCHANGED <<row, rr, pass>> /\ pc[w] = "create" /\ pc'[w] = "noContainer"
        /\ \A s \in Services : Exists(s)' => Exists(s) \/ s = svc(w)
    BY <1>0, <1>5 DEF CreateFails, CreateContainer, At, Advance, Goto, storeVars,
                      dockerVars, Exists
  <2>2. Fails
    BY <1>0, <1>5, FaultFails DEF CreateFails
  <2>3. \A s \in Services : s = svc(w) /\ s \notin rr => s \in Missed(w)
    BY <2>1 DEF Missed
  <2>4. \A s \in Services : Exists(s)' /\ s = svc(w) => s \in rr \/ s \in left'.ctr
    BY <2>2, <2>3, Kept
  <2> QED
    BY <2>1, <2>4, <1>a, <1>b DEF CleanFor, DeploySteps, ServiceSteps
<1>6. CASE RecordRunning(w)
  <2>1. /\ UNCHANGED <<row, rr, pass, ctr>>
        /\ pc[w] = "running" /\ pc'[w] = "track"
    BY <1>0, <1>6 DEF RecordRunning, At, Advance, Goto, dockerVars
  <2> QED
    BY <2>1, <1>a, <1>b DEF CleanFor, Exists, svc, DeploySteps, ServiceSteps
<1>7. CASE Track(w)
  <2>1. /\ UNCHANGED <<row, ctr>> /\ pc[w] = "track" /\ pc'[w] = "inspect"
        /\ rr \subseteq rr'
    BY <1>0, <1>7 DEF Track, At, Advance, Goto, dockerVars
  <2>2. CASE svc(w) \in rr'
    BY <2>1, <2>2, <1>a, Kept DEF CleanFor, Exists, DeploySteps, ServiceSteps
  <2>3. CASE svc(w) \notin rr'
    <3>1. Fails
      BY <1>0, <1>7, <2>3, FaultFails DEF Track
    <3>2. \A s \in Services : s = svc(w) => s \in Missed(w)
      BY <2>1, <2>3 DEF Missed
    <3>3. \A s \in Services : Exists(s)' /\ (s \in left.ctr \/ s = svc(w)) => s \in left'.ctr
      BY <3>1, <3>2, Kept
    <3> QED
      BY <2>1, <3>3, <1>a DEF CleanFor, Exists, DeploySteps, ServiceSteps
  <2> QED
    BY <2>2, <2>3
<1>8. CASE degrade(w) \/ Promote(w) \/ FinalState(w)
  <2>1. /\ UNCHANGED <<rr, ctr>>
        /\ pc[w] \in {"degrade", "promote", "final"}
        /\ pc'[w] \in {"release", "services"}
        /\ row'.state = "destroyed" => row.state = "destroyed"
    BY <1>0, <1>8 DEF degrade, Promote, FinalState, setState, UpdateState, At, Goto,
                      dockerVars, storeVars, Rows
  <2> QED
    BY <2>1, <1>a, <1>b DEF CleanFor, Exists, DeploySteps, ServiceSteps
<1>9. CASE \/ List(w) \/ TryLock(w) \/ Release(w) \/ RuntimeRows(w)
           \/ RemoveContainer(w) \/ RemoveEnvNetwork(w) \/ Unroute(w)
           \/ Untrack(w) \/ Mark(w)
  BY <1>9 DEF List, TryLock, Release, RuntimeRows, RemoveContainer, RemoveEnvNetwork,
              Unroute, Untrack, Mark, At, DeploySteps, ServiceSteps
<1> QED
  BY <1>1, <1>2, <1>3, <1>4, <1>5, <1>6, <1>7, <1>8, <1>9 DEF Pass

\* Every step of a teardown keeps it: what it removes is gone, and what it
\* fails to remove, or to read of, is remembered.
LEMMA TeardownClean ==
  ASSUME Typed, NEW w \in Workers, Pass(w), Remember(w), CleanFor(w),
         pc[w] \in {"rows", "containers", "unroute", "untrack", "mark"}
  PROVE  CleanFor(w)'
<1>0. /\ pc \in [Workers -> Steps] /\ pass \in [Workers -> Passes]
      /\ ctr \in [Services -> Containers] /\ row \in Rows /\ FaultsTypeOK
  BY DEF Typed, WorkersTyped, ReconcilerTypeOK, DockerTypeOK, RowTyped, StoreTypeOK
<1>b. /\ \A s \in Services : Exists(s)' /\ s \in left.ctr => s \in left'.ctr
      /\ pc'[w] # "idle" => \A s \in Services :
           pc[w] = "rows" /\ s \in rr \ pass'[w].todo
             => s \in Missed(w)
      /\ pc'[w] # "idle" => \A s \in Services :
           pc[w] = "containers" /\ s \in pass[w].todo \ pass'[w].todo
             => s \in Missed(w)
  BY Kept DEF Missed, Dies
<1>1. CASE RuntimeRows(w)
  <2>1. /\ UNCHANGED <<row, dom, rr, ctr, net>>
        /\ pc[w] = "rows" /\ pc'[w] = "containers"
    BY <1>0, <1>1 DEF RuntimeRows, At, Goto, dockerVars, storeVars
  <2>2. pass'[w].todo = rr \/ Fails
    BY <1>0, <1>1, FaultFails DEF RuntimeRows, Locals, Passes
  <2>3. Fails => \A s \in Services :
          Exists(s)' /\ s \in rr => s \in pass'[w].todo \/ s \in left'.ctr
    BY <1>b, <2>1, Kept
  <2> QED
    BY <1>b, <2>1, <2>2, <2>3 DEF CleanFor, TornDownBy, Listed, Exists
<1>2. CASE RemoveContainer(w)
  <2>1. PICK s \in pass[w].todo :
          /\ \/ RemoveByName(s) /\ NoFault
             \/ UNCHANGED dockerVars /\ Fault("docker")
          /\ Locals(w, [pass[w] EXCEPT !.todo = @ \ {s}])
    BY <1>2 DEF RemoveContainer
  <2>2. pass'[w].todo = pass[w].todo \ {s}
    BY <1>0, <2>1 DEF Locals, Passes
  <2>3. s \in Services
    BY <1>0, <2>1 DEF Passes
  <2>4. pc[w] = "containers" /\ pc'[w] = pc[w] /\ UNCHANGED <<row, dom, rr>>
    BY <1>2 DEF RemoveContainer, At, storeVars
  <2>5. \A t \in Services : Exists(t)' => Exists(t)
    BY <1>0, <2>1, <2>3 DEF RemoveByName, Exists, Absent, dockerVars
  <2>6. Exists(s)' => s \in left'.ctr
    <3>1. CASE RemoveByName(s)
      BY <1>0, <2>3, <3>1 DEF RemoveByName, Exists, Absent
    <3>2. CASE Fault("docker")
      <4>1. s \in Missed(w)
        BY <1>b, <2>2, <2>3, <2>4
      <4> QED
        BY <1>0, <3>2, <4>1, FaultFails, Kept
    <3> QED
      BY <2>1, <3>1, <3>2
  <2> QED
    BY <1>b, <2>2, <2>4, <2>5, <2>6 DEF CleanFor, TornDownBy, Listed
\* Once the host is emptied.
<1>c. ASSUME Emptied', pc'[w] \in {"unroute", "untrack", "mark", "release"},
             pc'[w] # "unroute" => DomKnown',
             pc'[w] \in {"mark", "release"} => RowsKnown',
             row'.state = "destroyed" => pc'[w] = "release"
      PROVE  CleanFor(w)'
  <2>1. \A s \in Services : Exists(s)' => s \in left'.ctr
    BY <1>c DEF Emptied, CtrKnown
  <2> QED
    BY <1>c, <2>1 DEF CleanFor, TornDownBy
<1>d. /\ row.state # "destroyed"
      /\ pc[w] \in {"unroute", "untrack", "mark"} => Emptied
      /\ pc[w] \in {"untrack", "mark"} => DomKnown
      /\ pc[w] = "mark" => RowsKnown
  BY DEF CleanFor, TornDownBy
<1>3. CASE RemoveEnvNetwork(w)
  <2>1. /\ UNCHANGED <<row, ctr>>
        /\ RemoveNetwork \/ Fails
        /\ pc[w] = "containers" /\ pc'[w] = "unroute" /\ pass[w].todo = {}
    BY <1>0, <1>3, FaultFails
    DEF RemoveEnvNetwork, RemoveNetwork, At, Advance, Goto, storeVars, dockerVars
  <2>2. \A s \in Services : Exists(s)' <=> Exists(s)
    BY <2>1 DEF Exists
  <2>3. \A s \in Services : Exists(s) => s \in left.ctr
    BY <2>1 DEF CleanFor, TornDownBy, Listed
  <2>4. CtrKnown'
    BY <1>b, <2>2, <2>3 DEF CtrKnown
  <2>5. NetKnown'
    BY <2>1, <2>2, Kept DEF RemoveNetwork, NetKnown
  <2> QED
    BY <1>c, <1>d, <2>1, <2>4, <2>5 DEF Emptied
<1>4. CASE Unroute(w)
  <2>1. /\ UNCHANGED <<row, ctr, net>>
        /\ dom' = {} \/ Fails
        /\ pc[w] = "unroute" /\ pc'[w] = "untrack"
    BY <1>0, <1>4, FaultFails DEF Unroute, At, Advance, Goto, dockerVars
  <2>2. Emptied'
    BY <1>d, <2>1, EmptiedStays
  <2>3. DomKnown'
    BY <2>1, Kept DEF DomKnown
  <2> QED
    BY <1>c, <1>d, <2>1, <2>2, <2>3
<1>5. CASE Untrack(w)
  <2>1. /\ UNCHANGED <<row, dom, ctr, net>>
        /\ rr' = {} \/ Fails
        /\ pc[w] = "untrack" /\ pc'[w] = "mark"
    BY <1>0, <1>5, FaultFails DEF Untrack, At, Advance, Goto, dockerVars
  <2>2. Emptied'
    BY <1>d, <2>1, EmptiedStays
  <2>3. DomKnown' /\ RowsKnown'
    BY <1>d, <2>1, Kept DEF DomKnown, RowsKnown
  <2> QED
    BY <1>c, <1>d, <2>1, <2>2, <2>3
<1>6. CASE Mark(w)
  <2>1. /\ UNCHANGED <<dom, rr, ctr, net>>
        /\ pc[w] = "mark" /\ pc'[w] = "release"
    BY <1>0, <1>6 DEF Mark, At, Advance, Goto, dockerVars
  <2>2. Emptied'
    BY <1>d, <2>1, EmptiedStays
  <2>3. DomKnown' /\ RowsKnown'
    BY <1>d, <2>1, Kept DEF DomKnown, RowsKnown
  <2> QED
    BY <1>c, <2>1, <2>2, <2>3
<1>7. ~RuntimeRows(w) /\ ~RemoveContainer(w) /\ ~RemoveEnvNetwork(w) /\ ~Unroute(w)
        /\ ~Untrack(w) /\ ~Mark(w) => FALSE
  BY DEF Pass, List, TryLock, Read, ReadFails, Network, degrade, Promote,
         LookUpFails, NextService, TriggerBuild, TriggerFails, InsertDeployment,
         InsertFails, Poll, PollFails, StillBuilding, RecordFailed, RemoveOld,
         Create, CreateRefused, CreateFails, RecordRunning, Track, InspectService,
         ServicesDone, DeleteDomains, UpsertDomains, FinalState, Release, At
<1> QED
  BY <1>1, <1>2, <1>3, <1>4, <1>5, <1>6, <1>7

\* A request never makes the row destroyed: only a teardown does.
LEMMA CallerNeverDestroys ==
  ASSUME Typed, NEW c \in Callers, Caller(c)
  PROVE  row'.state = "destroyed" => row.state = "destroyed"
<1>1. row \in Rows
  BY DEF Typed, RowTyped, StoreTypeOK
<1>2. CASE Request(c)
  BY <1>2 DEF Request, destroyEnv, closePR, cleanerTick, suspendEnv, resumeEnv,
              planEvent, requestRestart, LookUp, storeVars
<1>3. CASE Write(c)
  BY <1>1, <1>3
  DEF Write, Destroy, Suspend, Resume, Plan, PlanFails, MarkFailed, MarkResolving,
      Replan, MarkDeploying, UpdateState, SetSuspended, BumpGeneration, Rows
<1> QED
  BY <1>2, <1>3 DEF Caller

\* A worker that starts or ends a pass, or dies in one, keeps it: what it had
\* created and not yet recorded when it died is remembered.
LEMMA OthersClean ==
  ASSUME Typed, OnePass, Clean, NEW w \in Workers, Remember(w),
         UNCHANGED <<storeVars, dockerVars>>,
         \A v \in Workers \ {w} : pc'[v] = pc[v] /\ pass'[v] = pass[v],
         \/ /\ pc[w] \in {"idle", "listed", "release"}
            /\ pc'[w] \in {"idle", "listed", "locked"}
         \/ pc'[w] = "idle" /\ Fails
  PROVE  Clean'
<1>0. \A s \in Services : Exists(s)' <=> Exists(s)
  BY DEF Exists, dockerVars
<1>1. \A s \in Services : Exists(s)' /\ s \in left.ctr => s \in left'.ctr
  BY Kept
<1>2. UNCHANGED <<left.net, left.dom, left.rr>>
  BY Kept
<1>3. Emptied => Emptied'
  BY <1>0, <1>1, <1>2 DEF Emptied, CtrKnown, NetKnown, dockerVars
<1>4. (DomKnown => DomKnown') /\ (RowsKnown => RowsKnown')
  BY <1>2 DEF DomKnown, RowsKnown, storeVars
<1>5. Tracked'
  <2> SUFFICES ASSUME NEW s \in Services, Exists(s)', s \notin rr', s \notin left'.ctr
               PROVE  \E v \in Workers :
                        pc'[v] \in {"running", "track"} /\ svc(v)' = s
    BY DEF Tracked
  <2>1. Exists(s) /\ s \notin rr /\ s \notin left.ctr
    BY <1>0, <1>1 DEF storeVars
  <2>2. PICK v \in Workers : pc[v] \in {"running", "track"} /\ svc(v) = s
    BY <2>1 DEF Clean, Tracked
  <2>3. CASE v = w
    <3>1. s \in Missed(w) /\ Fails
      BY <2>1, <2>2, <2>3 DEF Missed, Dies
    <3> QED
      BY <3>1, Kept
  <2> QED
    BY <2>2, <2>3 DEF svc
<1>6. TornDown'
  <2> SUFFICES ASSUME NEW v \in Workers PROVE TornDownBy(v)'
    BY DEF TornDown
  <2>1. CASE v = w
    BY <2>1 DEF TornDownBy
  <2>2. CASE v # w
    <3>1. TornDownBy(v)
      BY DEF Clean, TornDown
    <3>2. Listed(v) => Listed(v)'
      BY <1>0, <1>1, <2>2 DEF Listed
    <3>3. pc'[v] = pc[v]
      BY <2>2
    <3> QED
      BY <1>3, <1>4, <3>1, <3>2, <3>3 DEF TornDownBy
  <2> QED
    BY <2>1, <2>2
<1>7. Gone'
  <2> SUFFICES ASSUME row'.state = "destroyed" PROVE Gone'
    BY DEF Gone
  <2>1. row.state = "destroyed"
    BY DEF storeVars
  <2>2. /\ Emptied /\ DomKnown /\ RowsKnown
        /\ \A v \in Workers : InPass(v) => pc[v] \in {"locked", "release"}
    BY <2>1 DEF Clean, Gone
  <2>3. \A v \in Workers : InPass(v)' => pc'[v] \in {"locked", "release"}
    BY <2>2 DEF InPass
  <2> QED
    BY <1>3, <1>4, <2>2, <2>3 DEF Gone
<1> QED
  BY <1>5, <1>6, <1>7 DEF Clean

\* Passes that do not overlap keep the host known, whatever fails in them and
\* wherever they end.
LEMMA NextClean ==
  ASSUME Typed, OnePass, OnePass', Clean, [Next]_vars
  PROVE  Clean'
<1>0. pc \in [Workers -> Steps] /\ FaultsTypeOK
  BY DEF Typed, WorkersTyped, ReconcilerTypeOK
<1>1. ASSUME NEW w \in Workers, Pass(w), Remember(w)
      PROVE  Clean'
  <2>1. CASE List(w) \/ TryLock(w) \/ Release(w)
    <3>1. /\ UNCHANGED <<storeVars, dockerVars>>
          /\ pc[w] \in {"idle", "listed", "release"}
          /\ pc'[w] \in {"idle", "listed", "locked"}
      BY <1>0, <2>1 DEF List, TryLock, Release, EndPass, Advance, At, Goto
    <3>2. \A v \in Workers \ {w} : pc'[v] = pc[v] /\ pass'[v] = pass[v]
      BY <1>1, PassOthers
    <3> QED
      BY <1>1, <3>1, <3>2, OthersClean
  <2>2. CASE ~List(w) /\ ~TryLock(w) /\ ~Release(w)
    <3>1. InPass(w)
      BY <1>1, <2>2, PassKeepsKey
    <3>2. CleanFor(w)
      BY <3>1, CleanOfOne DEF OnePass
    <3>3. \/ pc[w] \in DeploySteps \cup {"locked"}
          \/ pc[w] \in {"rows", "containers", "unroute", "untrack", "mark"}
      <4>1. pc[w] # "release"
        BY <1>1, <2>2
        DEF Pass, Read, Network, degrade,
            Promote, ReadFails, LookUpFails, NextService, TriggerBuild,
            TriggerFails, InsertDeployment, InsertFails, Poll, PollFails,
            StillBuilding,
            RecordFailed, RemoveOld, Create, CreateRefused, CreateFails,
            RecordRunning, Track, InspectService, ServicesDone, DeleteDomains,
            UpsertDomains, FinalState, RuntimeRows, RemoveContainer,
            RemoveEnvNetwork, Unroute, Untrack, Mark, At
      <4> QED
        BY <1>0, <3>1, <4>1 DEF InPass, Steps, DeploySteps, ServiceSteps
    <3>4. CleanFor(w)'
      BY <1>1, <3>2, <3>3, DeployClean, TeardownClean
    <3>5. InPass(w)'
      BY <1>0, <1>1, <2>2
      DEF Pass, Read, Network, degrade,
          Promote, ReadFails, LookUpFails, NextService, TriggerBuild,
          TriggerFails, InsertDeployment, InsertFails, Poll, PollFails,
          StillBuilding,
          RecordFailed, RemoveOld, Create, CreateRefused, CreateFails,
          RecordRunning, Track, InspectService, ServicesDone, DeleteDomains,
          UpsertDomains, FinalState, RuntimeRows, RemoveContainer,
          RemoveEnvNetwork, Unroute, Untrack, Mark, At, Advance, ServiceFails,
          Goto, InPass
    <3>6. \A v \in Workers \ {w} : ~InPass(v)'
      BY <3>5 DEF OnePass
    <3>7. \A v \in Workers \ {w} : TornDownBy(v)'
      BY <3>6 DEF InPass, TornDownBy
    <3>8. Tracked'
      BY <3>4 DEF CleanFor, Tracked
    <3>9. TornDown'
      BY <3>4, <3>7 DEF CleanFor, TornDown
    <3>10. Gone'
      BY <3>4, <3>6 DEF CleanFor, Gone
    <3> QED
      BY <3>8, <3>9, <3>10 DEF Clean
  <2> QED
    BY <2>1, <2>2
<1>2. ASSUME NEW w \in Workers, Crash(w), Remember(w)
      PROVE  Clean'
  <2>1. /\ UNCHANGED <<storeVars, dockerVars>>
        /\ pc'[w] = "idle" /\ Fails
    BY <1>0, <1>2, FaultFails DEF Crash, EndPass, Goto
  <2>2. \A v \in Workers \ {w} : pc'[v] = pc[v] /\ pass'[v] = pass[v]
    BY <1>0, <1>2 DEF Crash, EndPass, Goto, Locals, Typed, WorkersTyped, ReconcilerTypeOK
  <2> QED
    BY <1>2, <2>1, <2>2, OthersClean
<1>3. ASSUME UNCHANGED <<pc, pass, dom, rr, net, left>>,
             \A s \in Services : Exists(s)' <=> Exists(s),
             row'.state = "destroyed" => row.state = "destroyed"
      PROVE  Clean'
  <2>1. Tracked'
    BY <1>3 DEF Clean, Tracked, svc
  <2>2. (Emptied => Emptied') /\ (DomKnown => DomKnown') /\ (RowsKnown => RowsKnown')
    BY <1>3 DEF Emptied, CtrKnown, NetKnown, DomKnown, RowsKnown
  <2>3. \A w \in Workers : Listed(w) => Listed(w)'
    BY <1>3 DEF Listed
  <2>4. TornDown'
    BY <1>3, <2>2, <2>3 DEF Clean, TornDown, TornDownBy
  <2>5. Gone'
    BY <1>3, <2>2 DEF Clean, Gone, InPass
  <2> QED
    BY <2>1, <2>4, <2>5 DEF Clean
<1>4. ASSUME NEW c \in Callers, Caller(c)
      PROVE  Clean'
  BY <1>3, <1>4, CallerStep, CallerNeverDestroys DEF Caller, workerVars, dockerVars, Exists
<1>5. CASE World
  <2>1. UNCHANGED <<net, left>>
    BY <1>5 DEF World, Surroundings, ContainerFails, dockerVars
  <2> QED
    BY <1>3, <1>5, <2>1, WorldStep DEF storeVars, workerVars, Exists
<1>6. CASE Redis \/ UNCHANGED vars
  BY <1>3, <1>6 DEF Redis, LeaseExpires, OrphanExpires, vars, storeVars, dockerVars, Exists
<1> QED
  BY <1>1, <1>2, <1>4, <1>5, <1>6 DEF Next, Worker, Dying

\* As long as no lease expires during a pass, an environment whose row says
\* destroyed has nothing left but what `left` remembers: for any interleaving
\* of passes and requests, and through every crash, every Docker error and
\* every error of PostgreSQL that the code drops, each leftover container,
\* network, domain or runtime row is one that a failed call or a crash left
\* at the steps Missed and Leaves name (reconciler.go:284, :327-346).
THEOREM TeardownComplete ==
  ASSUME "expire" \notin FaultKinds
  PROVE  Spec => []CleanWhenDestroyed
<1> DEFINE I == Typed /\ LockKept /\ lapsed = {} /\ OnePass /\ Clean
<1>1. Init => I
  <2> SUFFICES ASSUME Init PROVE I
    OBVIOUS
  <2>1. Clean
    BY DEF Init, StoreInit, DockerInit, ReconcilerInit, Clean, Tracked, TornDown,
           TornDownBy, Gone, Exists, Absent
  <2>2. OnePass
    BY DEF Init, ReconcilerInit, OnePass, InPass
  <2> QED
    BY <2>1, <2>2, InitTyped, InitLockKept DEF Init, ReconcilerInit
<1>2. I /\ [Next]_vars => I'
  <2> SUFFICES ASSUME I, [Next]_vars PROVE I'
    OBVIOUS
  <2>1. Typed' /\ LockKept' /\ lapsed' = {}
    BY NextTyped, NextLockKept, NextNoneLapsed
  <2>2. OnePass'
    BY <2>1 DEF OnePass, LockKept, PassHoldsLock
  <2>3. Clean'
    BY <2>2, NextClean
  <2> QED
    BY <2>1, <2>2, <2>3
<1>3. I => CleanWhenDestroyed
  BY DEF Clean, Gone, Emptied, CtrKnown, NetKnown, DomKnown, RowsKnown,
         CleanWhenDestroyed
<1> QED
  BY <1>1, <1>2, <1>3, PTL DEF Spec
=============================================================================
