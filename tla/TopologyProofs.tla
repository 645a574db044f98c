--------------------------- MODULE TopologyProofs ---------------------------
(***************************************************************************)
(* Proofs about what the plans of a feature's newest environment contain,  *)
(* as long as no event was in the hands of two processors at once: an      *)
(* event that has created an environment, or written the table, stays      *)
(* unprocessed until the environment is planned for it.                    *)
(***************************************************************************)
EXTENDS PlanningProofs

USE RepoOfAssumption, BoundsAssumption, NoneAssumption, HistoriesAssumption,
    AttemptsAssumption, KeyAssumption, MaxFaultsAssumption

-----------------------------------------------------------------------------
(* Who has which event.                                                    *)

\* No two handlers have one event, and nobody has one that is processed.
OneHolder ==
  shared = {} =>
    /\ \A g, h \in Handlers : job[g].ev = job[h].ev /\ job[g].ev # 0 => g = h
    /\ \A h \in Handlers : job[h].ev # 0 => ~event[job[h].ev].processed

\* A torn-down environment has its destroyed_at.
Dated == \A i \in DOMAIN envs : envs[i].state = "destroyed" => envs[i].destroyedAt

\* An event is marked by the handler that has it, after its handler's end.
LEMMA Marked ==
  ASSUME Typed, [Next]_vars
  PROVE  /\ inbox' = inbox
         /\ \A e \in DOMAIN inbox :
               \/ event'[e].processed = event[e].processed
               \/ \E h \in Handlers : MarkProcessed(h) /\ pc[h] = "mark" /\ job[h].ev = e
<1>0. event \in [DOMAIN inbox -> [attempts : 0..MaxAttempts, processed : BOOLEAN]]
  BY DEF Typed, TypeOK
<1>1. ASSUME NEW h \in Handlers, Work(h)
      PROVE  UNCHANGED <<inbox, event>> \/ MarkProcessed(h)
  <2>1. CASE UpsertPR(h) \/ GetOrCreate(h) \/ BySlug(h) \/ AcquireWait(h) \/ GiveUp(h)
             \/ NoSuchEnv(h) \/ CreateEnv(h) \/ FindBranch(h)
    BY <2>1 DEF UpsertPR, GetOrCreate, BySlug, AcquireWait, GiveUp, NoSuchEnv,
       CreateEnv, FindBranch, Go
  <2>2. CASE ResolveFails(h) \/ MarkFailed(h) \/ Bump(h) \/ MarkResolving(h)
             \/ markDestroying(h) \/ ReturnNil(h) \/ ReturnError(h)
    BY <2>2 DEF ResolveFails, MarkFailed, Bump, MarkResolving, markDestroying, Go,
       ReturnNil, ReturnError, Return
  <2>3. CASE \E i \in 0..Len(envs) : Find(h, i)
    BY <2>3 DEF Find, Go
  <2>4. CASE (\E i \in DOMAIN envs : FindByID(h, i)) \/ (\E r \in Repos : Resolve(h, r))
    BY <2>4 DEF FindByID, Resolve, Go
  <2> QED
    BY <1>1, <2>1, <2>2, <2>3, <2>4 DEF Work
<1>2. ASSUME NEW h \in Handlers, MarkProcessed(h)
      PROVE  /\ inbox' = inbox /\ pc[h] = "mark"
             /\ \A e \in DOMAIN inbox : e # job[h].ev => event'[e] = event[e]
  BY <1>0, <1>2 DEF MarkProcessed, Go
<1>3. ASSUME NEW h \in Handlers, NEW e \in DOMAIN inbox, handle(h, e)
      PROVE  /\ inbox' = inbox
             /\ \A f \in DOMAIN inbox : event'[f].processed = event[f].processed
  BY <1>0, <1>3 DEF handle, Start
<1>4. CASE \/ UNCHANGED vars \/ OrphanExpires
           \/ \E i \in DOMAIN envs : TearDown(i)
           \/ \E h \in Handlers : \/ \E kind \in Calls : call(h, kind)
                                  \/ Crash(h) \/ LeaseExpires(h)
  BY <1>4 DEF vars, handlerVars, OrphanExpires, TearDown, call, Start, Crash, LeaseExpires
<1> QED
  BY <1>1, <1>2, <1>3, <1>4 DEF Next

\* A step is one of a handler that has begun, of one that begins, or of none.
LEMMA Steps ==
  ASSUME Typed, [Next]_vars
  PROVE  \/ \E h \in Handlers : \/ Work(h) \/ Crash(h)
                                \/ \E e \in DOMAIN inbox : handle(h, e)
                                \/ \E kind \in Calls : call(h, kind)
         \/ UNCHANGED <<pc, job, prs, shared>> /\ lock' \in {lock, Nobody}
BY DEF Next, vars, handlerVars, OrphanExpires, TearDown, LeaseExpires, featureVars

\* A handler that begins has the event, or none.
LEMMA Begins ==
  ASSUME Typed, NEW h \in Handlers
  PROVE  /\ \A e \in DOMAIN inbox : handle(h, e) =>
              /\ pc[h] = "idle" /\ UNCHANGED <<prs, envs, lock, inbox>>
              /\ \A g \in Handlers \ {h} : pc'[g] = pc[g] /\ job'[g] = job[g]
              /\ job'[h].ev = e /\ job'[h].kind = inbox[e].action
              /\ pc'[h] = IF inbox[e].action = "push" THEN "feature" ELSE "upsert"
              /\ ~event[e].processed
              /\ shared' = IF \E g \in Handlers : job[g].ev = e THEN shared \cup {e} ELSE shared
         /\ \A kind \in Calls : call(h, kind) =>
              /\ pc[h] = "idle" /\ UNCHANGED <<prs, envs, lock, inbox, shared>>
              /\ \A g \in Handlers \ {h} : pc'[g] = pc[g] /\ job'[g] = job[g]
              /\ job'[h].ev = 0 /\ job'[h].kind = kind
              /\ pc'[h] \in {"feature", "find"}
<1>0. pc \in [Handlers -> Pcs] /\ job \in [Handlers -> Jobs] /\ inbox \in Histories
  BY DEF Typed, TypeOK
<1>2. ASSUME NEW e \in DOMAIN inbox, handle(h, e)
      PROVE  /\ pc[h] = "idle" /\ UNCHANGED <<prs, envs, lock, inbox>>
             /\ \A g \in Handlers \ {h} : pc'[g] = pc[g] /\ job'[g] = job[g]
             /\ job'[h].ev = e /\ job'[h].kind = inbox[e].action
             /\ pc'[h] = IF inbox[e].action = "push" THEN "feature" ELSE "upsert"
             /\ ~event[e].processed
             /\ shared' = IF \E g \in Handlers : job[g].ev = e THEN shared \cup {e} ELSE shared
  <2> DEFINE payload == inbox[e]
             origin == IF payload.action = "push" THEN None ELSE <<payload.pr, payload.sha>>
             new == [NoJob EXCEPT !.kind = payload.action, !.ev = e, !.origin = origin]
             next == IF payload.action = "push" THEN "feature" ELSE "upsert"
  <2>1. Start(h, new, next) /\ ~event[e].processed
        /\ shared' = IF \E g \in Handlers : job[g].ev = e THEN shared \cup {e} ELSE shared
    BY <1>2 DEF handle
  <2>2. new.kind = payload.action /\ new.ev = e
    <3> HIDE DEF payload, origin
    <3>1. NoJob \in [{"kind", "ev", "origin", "env", "todo", "plan"} -> {NoJob[f] : f \in {"kind", "ev", "origin", "env", "todo", "plan"}}]
      BY DEF NoJob
    <3> QED
      BY <3>1 DEF new
  <2>3. \A g \in Handlers : g # h => pc'[g] = pc[g] /\ job'[g] = job[g]
    BY <1>0, <2>1 DEF Start
  <2>4. pc[h] = "idle" /\ UNCHANGED <<prs, envs, lock, inbox>> /\ pc'[h] = next /\ job'[h] = new
    <3> HIDE DEF new, next
    <3> QED
      BY <1>0, <2>1 DEF Start, featureVars
  <2> QED
    BY <2>1, <2>2, <2>3, <2>4
<1>3. ASSUME NEW kind \in Calls, call(h, kind)
      PROVE  /\ pc[h] = "idle" /\ UNCHANGED <<prs, envs, lock, inbox, shared>>
             /\ \A g \in Handlers \ {h} : pc'[g] = pc[g] /\ job'[g] = job[g]
             /\ job'[h].ev = 0 /\ job'[h].kind = kind
             /\ pc'[h] \in {"feature", "find"}
  <2> DEFINE new == [NoJob EXCEPT !.kind = kind]
  <2>1. new.kind = kind /\ new.ev = 0
    BY DEF NoJob
  <2> HIDE DEF new
  <2> QED
    BY <1>0, <1>3, <2>1 DEF call, Start, featureVars, new
<1> QED
  BY <1>2, <1>3

\* A handler that has begun keeps its event or ends.
LEMMA Continues ==
  ASSUME Typed, Typed', NEW h \in Handlers, Work(h) \/ Crash(h)
  PROVE  /\ \A g \in Handlers \ {h} : pc'[g] = pc[g] /\ job'[g] = job[g]
         /\ UNCHANGED <<inbox, shared>>
         /\ \/ job'[h].ev = job[h].ev /\ job'[h].kind = job[h].kind /\ Work(h)
            \/ job'[h].ev = 0 /\ pc'[h] = "idle"
<1>0. job \in [Handlers -> Jobs] /\ pc \in [Handlers -> Pcs]
  BY DEF Typed, TypeOK
<1>1. \/ job'[h].ev = job[h].ev /\ job'[h].kind = job[h].kind /\ Work(h)
      \/ job'[h].ev = 0 /\ pc'[h] = "idle"
  <2>1. CASE Work(h)
    <3>1. FeatureTypeOK' /\ Len(envs') >= Len(envs)
      BY <2>1, RowsStep DEF Next
    <3>2. PICK p \in Pcs, j \in Jobs : GoesTo(h, p, j)
      BY <2>1, <3>1, OwnStep
    <3> QED
      BY <1>0, <2>1, <3>2 DEF GoesTo, NoJob
  <2>2. CASE Crash(h)
    BY <1>0, <2>2 DEF Crash, Local, NoJob
  <2> QED
    BY <2>1, <2>2
<1> QED
  BY <1>1, OthersKept

\* An event that two handlers had at once is never forgotten.
LEMMA SharedGrows ==
  ASSUME Typed, Typed', [Next]_vars, shared' = {}
  PROVE  shared = {}
<1>1. ASSUME NEW h \in Handlers, NEW e \in DOMAIN inbox, handle(h, e)
      PROVE  shared \subseteq shared'
  BY <1>1 DEF handle
<1>2. ASSUME NEW h \in Handlers, NEW kind \in Calls, call(h, kind)
      PROVE  shared' = shared
  BY <1>2 DEF call
<1> QED
  BY <1>1, <1>2, Steps, Continues

\* While no event is shared, who has one has it alone, until it is marked.
LEMMA OneHolderStep ==
  ASSUME Typed, Typed', OneHolder, [Next]_vars
  PROVE  OneHolder'
<1> SUFFICES ASSUME shared' = {}
             PROVE  /\ \A g, h \in Handlers : job'[g].ev = job'[h].ev /\ job'[g].ev # 0 => g = h
                    /\ \A h \in Handlers : job'[h].ev # 0 => ~event'[job'[h].ev].processed
  BY DEF OneHolder
<1>0. \A h \in Handlers : job[h].ev # 0 => job[h].ev \in DOMAIN inbox
  BY DEF Typed, TypeOK
<1>1. ASSUME NEW h \in Handlers, Work(h) \/ Crash(h)
      PROVE  /\ \A g, k \in Handlers : job'[g].ev = job'[k].ev /\ job'[g].ev # 0 => g = k
             /\ \A g \in Handlers : job'[g].ev # 0 => ~event'[job'[g].ev].processed
  <2>1. /\ shared = {}
        /\ \A g \in Handlers \ {h} : job'[g] = job[g]
        /\ job'[h].ev \in {job[h].ev, 0}
    BY <1>1, Continues
  <2>2. ASSUME NEW g \in Handlers, job'[g].ev # 0
        PROVE  ~event'[job'[g].ev].processed
    <3>1. job'[g].ev = job[g].ev
      BY <2>1, <2>2
    <3>2. ~event[job[g].ev].processed /\ job[g].ev \in DOMAIN inbox
      BY <1>0, <2>1, <2>2, <3>1 DEF OneHolder
    <3>3. ASSUME NEW k \in Handlers, MarkProcessed(k), job[k].ev = job[g].ev
          PROVE  FALSE
      <4>1. k = g
        BY <2>1, <2>2, <3>1, <3>3 DEF OneHolder
      <4>2. job' = [job EXCEPT ![g] = NoJob]
        BY <3>3, <4>1 DEF MarkProcessed, Local
      <4> QED
        BY <2>2, <4>2 DEF Typed, TypeOK, NoJob
    <3> QED
      BY <3>1, <3>2, <3>3, Marked
  <2> QED
    BY <2>1, <2>2 DEF OneHolder
<1>2. ASSUME NEW h \in Handlers, NEW e \in DOMAIN inbox, handle(h, e)
      PROVE  /\ \A g, k \in Handlers : job'[g].ev = job'[k].ev /\ job'[g].ev # 0 => g = k
             /\ \A g \in Handlers : job'[g].ev # 0 => ~event'[job'[g].ev].processed
  <2>1. /\ pc[h] = "idle" /\ job'[h].ev = e /\ ~event[e].processed
        /\ \A g \in Handlers \ {h} : job'[g] = job[g]
        /\ shared = {} /\ ~ \E g \in Handlers : job[g].ev = e
    <3>1. /\ pc[h] = "idle" /\ job'[h].ev = e /\ ~event[e].processed
          /\ \A g \in Handlers \ {h} : job'[g] = job[g]
      BY <1>2, Begins
    <3>2. shared' = IF \E g \in Handlers : job[g].ev = e THEN shared \cup {e} ELSE shared
      BY <1>2, Begins
    <3> QED
      BY <3>1, <3>2
  <2>2. \A f \in DOMAIN inbox : event'[f].processed = event[f].processed
    <3>1. event' = [event EXCEPT ![e].attempts = event[e].attempts + 1]
      BY <1>2 DEF handle
    <3>2. event \in [DOMAIN inbox -> [attempts : 0..MaxAttempts, processed : BOOLEAN]]
      BY DEF Typed, TypeOK
    <3> QED
      BY <3>1, <3>2
  <2>3. ASSUME NEW g \in Handlers, job'[g].ev # 0
        PROVE  ~event'[job'[g].ev].processed
    <3>1. CASE g = h
      BY <2>1, <2>2, <3>1
    <3>2. CASE g # h
      BY <1>0, <2>1, <2>2, <2>3, <3>2 DEF OneHolder
    <3> QED
      BY <3>1, <3>2
  <2> QED
    BY <2>1, <2>3 DEF OneHolder
<1>3. ASSUME NEW h \in Handlers, NEW kind \in Calls, call(h, kind)
      PROVE  /\ \A g, k \in Handlers : job'[g].ev = job'[k].ev /\ job'[g].ev # 0 => g = k
             /\ \A g \in Handlers : job'[g].ev # 0 => ~event'[job'[g].ev].processed
  <2>1. /\ job'[h].ev = 0 /\ shared = {} /\ event' = event
        /\ \A g \in Handlers \ {h} : job'[g] = job[g]
    BY <1>3, Begins DEF call
  <2> QED
    BY <2>1 DEF OneHolder
<1>4. CASE UNCHANGED <<pc, job, shared>> /\ ~ \E h \in Handlers : Work(h)
  <2>1. \A f \in DOMAIN inbox : event'[f].processed = event[f].processed
    BY <1>4, Marked DEF Work
  <2> QED
    BY <1>0, <1>4, <2>1 DEF OneHolder
<1> QED
  BY <1>1, <1>2, <1>3, <1>4, Steps

-----------------------------------------------------------------------------
(* What a step does to the rows of the environments.                       *)

\* Of a row, only Bump changes the plan, and nothing clears destroyed_at.
RowKept(i) ==
  /\ envs'[i].byEvent = envs[i].byEvent
  /\ envs[i].planned => envs'[i].planned
  /\ envs[i].destroyedAt => envs'[i].destroyedAt
  /\ envs'[i].state = "destroyed" => envs[i].state = "destroyed" \/ envs'[i].destroyedAt
  /\ \/ envs'[i].plan = envs[i].plan /\ envs'[i].byLocked = envs[i].byLocked
     \/ \E h \in Handlers :
          /\ Bump(h) /\ pc[h] = "bump" /\ job[h].env = i /\ UNCHANGED prs
          /\ envs'[i].planned
          /\ envs'[i].plan = job[h].plan /\ envs'[i].byLocked = (lock = h)

\* A handler's Bump stores its plan, and that it had the lock if it had.
LEMMA BumpPlans ==
  ASSUME Typed, NEW h \in Handlers, Bump(h)
  PROVE  /\ pc[h] = "bump" /\ UNCHANGED prs
         /\ Len(envs') = Len(envs)
         /\ \A j \in DOMAIN envs : j # job[h].env => envs'[j] = envs[j]
         /\ envs'[job[h].env].state = envs[job[h].env].state
         /\ envs'[job[h].env].destroyedAt = envs[job[h].env].destroyedAt
         /\ envs'[job[h].env].byEvent = envs[job[h].env].byEvent
         /\ envs'[job[h].env].planned /\ envs'[job[h].env].plan = job[h].plan
         /\ envs'[job[h].env].byLocked = (lock = h)
<1>0. envs \in Seq(Environment) /\ JobAt(pc[h], job[h]) /\ job[h].plan \in Plans
  BY DEF Typed, TypeOK, FeatureTypeOK, Handling, Jobs
<1> DEFINE locked == lock = h
<1>1. /\ BumpGeneration(job[h].env, job[h].plan, locked) /\ locked \in BOOLEAN
      /\ pc[h] = "bump" /\ job[h].env \in DOMAIN envs /\ UNCHANGED prs
  BY <1>0 DEF Bump, Go, JobAt, Planners
<1> HIDE DEF locked
<1>2. /\ Len(envs') = Len(envs)
      /\ \A j \in DOMAIN envs : j # job[h].env => envs'[j] = envs[j]
      /\ envs'[job[h].env].state = envs[job[h].env].state
      /\ envs'[job[h].env].destroyedAt = envs[job[h].env].destroyedAt
      /\ envs'[job[h].env].byEvent = envs[job[h].env].byEvent
      /\ envs'[job[h].env].planned /\ envs'[job[h].env].plan = job[h].plan
      /\ envs'[job[h].env].byLocked = locked
  BY <1>0, <1>1, Bumped
<1> QED
  BY <1>1, <1>2 DEF locked

\* A step keeps each row in the sense of RowKept, and adds one at most, by CreateEnv.
LEMMA RowsChange ==
  ASSUME Typed, [Next]_vars
  PROVE  /\ \A i \in DOMAIN envs : RowKept(i)
         /\ \/ Len(envs') = Len(envs)
            \/ /\ Len(envs') = Len(envs) + 1
               /\ ~envs'[Len(envs')].planned /\ ~envs'[Len(envs')].byLocked
               /\ envs'[Len(envs')].state = "live"
               /\ \E h \in Handlers :
                    CreateEnv(h) /\ envs'[Len(envs')].byEvent = (job[h].kind # "create")
<1>0. /\ pc \in [Handlers -> Pcs] /\ job \in [Handlers -> Jobs]
      /\ envs \in Seq(Environment) /\ Len(envs) <= MaxEnvs
      /\ \A h \in Handlers : JobAt(pc[h], job[h]) /\ job[h].plan \in Plans
  BY DEF Typed, TypeOK, FeatureTypeOK, Handling, Jobs
<1>1. CASE UNCHANGED envs
  BY <1>1 DEF RowKept
<1>2. ASSUME NEW i \in DOMAIN envs, NEW to \in {"live", "destroying"}, UpdateState(i, to)
      PROVE  Len(envs') = Len(envs) /\ \A j \in DOMAIN envs : RowKept(j)
  BY <1>0, <1>2, StateUpdated DEF RowKept, SamePlan
<1>3. ASSUME NEW i \in DOMAIN envs, MarkDestroyed(i)
      PROVE  Len(envs') = Len(envs) /\ \A j \in DOMAIN envs : RowKept(j)
  BY <1>0, <1>3, TornDown DEF RowKept, SamePlan
<1>4. ASSUME NEW h \in Handlers, Bump(h)
      PROVE  Len(envs') = Len(envs) /\ \A j \in DOMAIN envs : RowKept(j)
  <2>1. \A j \in DOMAIN envs : j # job[h].env => RowKept(j)
    BY <1>4, BumpPlans DEF RowKept
  <2>2. RowKept(job[h].env)
    BY <1>4, BumpPlans DEF RowKept
  <2> QED
    BY <1>4, <2>1, <2>2, BumpPlans
<1>5. ASSUME NEW h \in Handlers, CreateEnv(h)
      PROVE  /\ \A i \in DOMAIN envs : RowKept(i)
             /\ Len(envs') = Len(envs) + 1
             /\ ~envs'[Len(envs')].planned /\ ~envs'[Len(envs')].byLocked
             /\ envs'[Len(envs')].state = "live"
             /\ envs'[Len(envs')].byEvent = (job[h].kind # "create")
  <2> DEFINE byEvent == job[h].kind # "create"
  <2>1. Create(byEvent) /\ byEvent \in BOOLEAN
    BY <1>5 DEF CreateEnv
  <2> HIDE DEF byEvent
  <2>2. /\ Len(envs') = Len(envs) + 1
        /\ \A j \in DOMAIN envs : envs'[j] = envs[j]
        /\ envs'[Len(envs')].byEvent = byEvent /\ ~envs'[Len(envs')].planned
        /\ ~envs'[Len(envs')].byLocked /\ envs'[Len(envs')].state = "live"
    BY <1>0, <2>1, Created
  <2> QED
    BY <2>2 DEF RowKept, byEvent
<1>6. ASSUME NEW h \in Handlers, Work(h)
      PROVE  \/ CreateEnv(h) \/ Bump(h) \/ UNCHANGED envs
             \/ \E i \in DOMAIN envs : UpdateState(i, "live") \/ UpdateState(i, "destroying")
  <2>1. CASE MarkFailed(h) \/ MarkResolving(h) \/ markDestroying(h)
    <3>1. /\ job[h].env \in DOMAIN envs
          /\ UpdateState(job[h].env, "live") \/ UpdateState(job[h].env, "destroying")
      BY <1>0, <2>1 DEF MarkFailed, MarkResolving, markDestroying, Go, JobAt, Planners
    <3> QED
      BY <3>1
  <2>2. CASE UpsertPR(h)
    BY <2>2 DEF UpsertPR
  <2> QED
    BY <1>6, <2>1, <2>2, RowsKept
<1>7. CASE \/ UNCHANGED vars \/ OrphanExpires
           \/ \E h \in Handlers : \/ \E e \in DOMAIN inbox : handle(h, e)
                                  \/ \E kind \in Calls : call(h, kind)
                                  \/ Crash(h) \/ LeaseExpires(h)
  BY <1>1, <1>7 DEF vars, featureVars, OrphanExpires, handle, call, Start, Crash, LeaseExpires
<1> QED
  BY <1>1, <1>2, <1>3, <1>4, <1>5, <1>6, <1>7 DEF Next, TearDown

\* Only MarkDestroyed writes destroyed.
LEMMA DatedStep ==
  ASSUME Typed, Typed', Dated, [Next]_vars
  PROVE  Dated'
<1>1. envs \in Seq(Environment) /\ envs' \in Seq(Environment)
  BY DEF Typed, TypeOK, FeatureTypeOK
<1>2. ASSUME NEW i \in DOMAIN envs, envs'[i].state = "destroyed"
      PROVE  envs'[i].destroyedAt
  BY <1>2, RowsChange DEF RowKept, Dated
<1>3. CASE Len(envs') = Len(envs)
  BY <1>1, <1>2, <1>3 DEF Dated
<1>4. CASE Len(envs') = Len(envs) + 1 /\ envs'[Len(envs')].state = "live"
  BY <1>1, <1>2, <1>4 DEF Dated
<1> QED
  BY <1>3, <1>4, RowsChange

-----------------------------------------------------------------------------
(* The way of a handler that takes the lock.                               *)

\* Its next call; find takes up the newest environment, or none that stands.
LockingMove(h) ==
  \/ pc[h] = "upsert" /\ pc'[h] = "feature"
  \/ pc[h] = "feature" /\ pc'[h] = "lock"
  \/ pc[h] = "lock" /\ pc'[h] = "find" /\ lock' = h
  \/ pc[h] = "lock" /\ pc'[h] = "error"
  \/ pc[h] = "find" /\ pc'[h] = "resolve" /\ job'[h].todo = Repos
       /\ job'[h].env \in DOMAIN envs /\ ByFeature(job'[h].env)
  \/ pc[h] = "find" /\ pc'[h] = "create" /\ ByFeature(0)
  \/ pc[h] = "create" /\ pc'[h] = "resolve" /\ job'[h].todo = Repos
       /\ job'[h].env = Len(envs) + 1 /\ CreateEnv(h)
  \/ pc[h] = "resolve" /\ pc'[h] \in {"resolve", "bump"} /\ job'[h].env = job[h].env
       /\ \E r \in Repos : Resolve(h, r)
  \/ pc[h] = "resolve" /\ pc'[h] = "unplanned" /\ job'[h].env = job[h].env
  \/ pc[h] = "bump" /\ pc'[h] = "state" /\ Bump(h)
  \/ pc[h] = "unplanned" /\ pc'[h] = "error" /\ job'[h].env = job[h].env
  \/ pc[h] = "error" /\ pc'[h] = "idle" /\ job'[h].ev = 0
  \/ pc[h] \in {"state", "ok", "mark"} /\ pc'[h] \in {"ok", "mark", "idle"}

\* A handler that takes the lock makes one of these moves.
LEMMA LockingMoves ==
  ASSUME Typed, NEW h \in Handlers, Work(h), job[h].kind \in Locking
  PROVE  LockingMove(h)
<1>0. /\ pc \in [Handlers -> Pcs] /\ job \in [Handlers -> Jobs]
      /\ JobAt(pc[h], job[h])
      /\ envs \in Seq(Environment) /\ DOMAIN envs = 1..Len(envs) /\ Len(envs) \in Nat
      /\ job[h].kind \notin {"push", "closed", "create", "restart", "none"}
  BY DEF Typed, TypeOK, FeatureTypeOK, Handling, Locking
<1>1. CASE UpsertPR(h)
  BY <1>0, <1>1 DEF UpsertPR, Go, LockingMove
<1>2. CASE GetOrCreate(h)
  BY <1>0, <1>2 DEF GetOrCreate, Go, LockingMove
<1>3. CASE AcquireWait(h)
  BY <1>0, <1>3 DEF AcquireWait, Go, LockingMove
<1>4. CASE GiveUp(h)
  BY <1>0, <1>4 DEF GiveUp, Go, LockingMove
<1>5. ASSUME NEW i \in 0..Len(envs), Find(h, i)
      PROVE  LockingMove(h)
  <2>1. job' = [job EXCEPT ![h] = [job[h] EXCEPT !.env = i, !.todo = Repos]]
    BY <1>5 DEF Find, Local
  <2>2. job'[h].env = i /\ job'[h].todo = Repos
    BY <1>0, <2>1 DEF Jobs
  <2>3. /\ pc[h] = "find" /\ ByFeature(i)
        /\ pc'[h] = IF i = 0 THEN "create" ELSE "resolve"
    BY <1>0, <1>5 DEF Find, Go, AfterFound, AfterNotFound
  <2> QED
    BY <1>0, <2>2, <2>3 DEF LockingMove
<1>6. CASE CreateEnv(h)
  <2>1. job' = [job EXCEPT ![h] = [job[h] EXCEPT !.env = Len(envs) + 1]]
    BY <1>6 DEF CreateEnv, Local
  <2>2. job'[h].env = Len(envs) + 1 /\ job'[h].todo = job[h].todo
    BY <1>0, <2>1 DEF Jobs
  <2>3. pc[h] = "create" /\ pc'[h] = "resolve"
    BY <1>0, <1>6 DEF CreateEnv, Go
  <2>4. job[h].todo = Repos
    BY <1>0, <2>3 DEF JobAt
  <2> QED
    BY <1>6, <2>2, <2>3, <2>4 DEF LockingMove
<1>7. ASSUME NEW r \in Repos, Resolve(h, r)
      PROVE  LockingMove(h)
  <2>1. job'[h].env = job[h].env
    BY <1>0, <1>7, ResolveOwn
  <2>2. pc[h] = "resolve" /\ pc'[h] \in {"resolve", "bump"}
    BY <1>0, <1>7 DEF Resolve, Go
  <2> QED
    BY <1>7, <2>1, <2>2 DEF LockingMove
<1>8. CASE ResolveFails(h)
  BY <1>0, <1>8 DEF ResolveFails, LockingMove
<1>9. CASE MarkFailed(h) \/ Bump(h) \/ MarkResolving(h)
  BY <1>0, <1>9 DEF MarkFailed, Bump, MarkResolving, Go, LockingMove
<1>10. CASE ReturnNil(h) \/ ReturnError(h) \/ MarkProcessed(h)
  BY <1>0, <1>10 DEF ReturnNil, ReturnError, MarkProcessed, Return, Go, Local, NoJob, LockingMove
<1>11. CASE \/ BySlug(h) \/ NoSuchEnv(h) \/ FindBranch(h) \/ markDestroying(h)
            \/ \E i \in DOMAIN envs : FindByID(h, i)
  BY <1>0, <1>11 DEF BySlug, NoSuchEnv, FindBranch, markDestroying, FindByID, Go, JobAt, KindAt
<1> QED
  BY <1>1, <1>2, <1>3, <1>4, <1>5, <1>6, <1>7, <1>8, <1>9, <1>10, <1>11 DEF Work

-----------------------------------------------------------------------------
(* An environment that an event created is planned before the event is     *)
(* processed.                                                              *)

\* h has not planned environment i yet, and will not end before it has, unless
\* in an error.
WillPlan(h, i) ==
  \/ pc[h] \in {"upsert", "feature", "lock", "find", "error"}
  \/ pc[h] \in {"resolve", "bump", "unplanned"} /\ job[h].env = i

PlanOwed(e, i) ==
  /\ ~event[e].processed
  /\ inbox[e].action \in Locking
  /\ \A h \in Handlers : job[h].ev = e => WillPlan(h, i)

NewestOwed ==
  \A i \in DOMAIN envs :
    /\ shared = {} /\ i = Len(envs)
    /\ envs[i].byEvent /\ ~envs[i].planned /\ ~envs[i].destroyedAt
    => \E e \in DOMAIN inbox : PlanOwed(e, i)

\* A handler on its way goes on to plan it, or ends in an error.
LEMMA GoesOnToPlan ==
  ASSUME Typed, Typed', Dated, NEW i \in DOMAIN envs, i = Len(envs), ~envs[i].destroyedAt,
         NEW h \in Handlers, Work(h), job[h].kind \in Locking, WillPlan(h, i)
  PROVE  \/ WillPlan(h, i)'
         \/ job'[h].ev = 0
         \/ envs'[i].planned
<1>0. /\ envs \in Seq(Environment) /\ Len(envs) \in Nat /\ DOMAIN envs = 1..Len(envs)
      /\ job \in [Handlers -> Jobs] /\ pc \in [Handlers -> Pcs]
      /\ job[h] \in Jobs
  BY DEF Typed, TypeOK, FeatureTypeOK
<1>00. envs[i].state # "destroyed"
  BY DEF Dated
<1>1. LockingMove(h)
  BY LockingMoves
<1>2. CASE pc[h] = "find"
  <2>1. \A k \in 0..Len(envs) : ByFeature(k) => k = i
    BY <1>0, <1>00 DEF ByFeature
  <2> QED
    BY <1>0, <1>1, <1>2, <2>1 DEF LockingMove, WillPlan
<1>3. CASE pc[h] = "bump"
  <2>1. Bump(h) /\ job[h].env = i
    BY <1>1, <1>3 DEF LockingMove, WillPlan
  <2> QED
    BY <2>1, BumpPlans
<1>4. CASE pc[h] = "error"
  BY <1>1, <1>4 DEF LockingMove
<1>5. CASE pc[h] \in {"upsert", "feature", "lock", "resolve", "unplanned"}
  BY <1>1, <1>5 DEF LockingMove, WillPlan
<1> QED
  BY <1>2, <1>3, <1>4, <1>5 DEF WillPlan

\* The event that is owed a plan keeps it owed until the newest environment has one.
LEMMA NewestOwedStep ==
  ASSUME Typed, Typed', OneHolder, Dated, NewestOwed, [Next]_vars
  PROVE  NewestOwed'
<1> SUFFICES ASSUME shared' = {}, NEW i \in DOMAIN envs', i = Len(envs'),
                    envs'[i].byEvent, ~envs'[i].planned, ~envs'[i].destroyedAt
             PROVE  (\E e \in DOMAIN inbox : PlanOwed(e, i))'
  BY DEF NewestOwed
<1>0. /\ envs \in Seq(Environment) /\ Len(envs) \in Nat /\ DOMAIN envs = 1..Len(envs)
      /\ envs' \in Seq(Environment) /\ DOMAIN envs' = 1..Len(envs')
      /\ pc \in [Handlers -> Pcs] /\ job \in [Handlers -> Jobs]
      /\ \A h \in Handlers : JobAt(pc[h], job[h])
      /\ \A h \in Handlers : job[h].ev # 0 => job[h].ev \in DOMAIN inbox
      /\ inbox' = inbox
      /\ \A e \in DOMAIN inbox : e # 0
  BY Marked, PayloadTyped DEF Typed, TypeOK, FeatureTypeOK, Handling
<1>00. shared = {}
  BY SharedGrows
<1>1. ASSUME NEW h \in Handlers, CreateEnv(h), Len(envs') = Len(envs) + 1,
             job[h].kind # "create"
      PROVE  (\E e \in DOMAIN inbox : PlanOwed(e, i))'
  <2> DEFINE e == job[h].ev
  <2>1. Work(h) /\ pc[h] = "create"
    BY <1>1 DEF Work, CreateEnv, Go
  <2>2. e \in DOMAIN inbox /\ inbox[e].action \in Locking /\ job[h].kind \in Locking
    BY <1>0, <1>1, <2>1 DEF JobAt, KindAt, Locking
  <2>3. LockingMove(h)
    BY <2>1, <2>2, LockingMoves
  <2>4. pc'[h] = "resolve" /\ job'[h].env = i
    BY <1>1, <2>1, <2>3 DEF LockingMove
  <2>5. ~event'[e].processed
    <3>1. ~event[e].processed
      BY <1>0, <1>00, <2>2 DEF OneHolder
    <3>2. event' = event
      BY <1>1 DEF CreateEnv
    <3> QED
      BY <3>1, <3>2
  <2>6. \A g \in Handlers \ {h} : job'[g].ev = job[g].ev /\ job[g].ev # e
    BY <1>0, <2>1, <2>2, <1>00, Continues DEF OneHolder
  <2>7. PICK f \in DOMAIN inbox : f = e
    BY <2>2
  <2>8. PlanOwed(f, i)'
    BY <1>0, <2>2, <2>4, <2>5, <2>6, <2>7 DEF PlanOwed, WillPlan
  <2> QED
    BY <1>0, <2>8
<1>2. ASSUME Len(envs') = Len(envs)
      PROVE  (\E e \in DOMAIN inbox : PlanOwed(e, i))'
  <2>1. i \in DOMAIN envs /\ i = Len(envs) /\ envs[i].byEvent /\ ~envs[i].planned /\ ~envs[i].destroyedAt
    BY <1>0, <1>2, RowsChange DEF RowKept
  <2>2. PICK e \in DOMAIN inbox : PlanOwed(e, i)
    BY <1>0, <1>00, <2>1 DEF NewestOwed
  <2>3. ASSUME NEW g \in Handlers, job'[g].ev = e
        PROVE  WillPlan(g, i)'
    <3>1. ASSUME pc'[g] = pc[g], job'[g] = job[g]
          PROVE  WillPlan(g, i)'
      BY <2>2, <2>3, <3>1 DEF PlanOwed, WillPlan
    <3>2. ASSUME NEW h \in Handlers, Work(h) \/ Crash(h)
          PROVE  WillPlan(g, i)'
      <4>1. CASE g # h
        BY <3>1, <3>2, <4>1, Continues
      <4>2. CASE g = h
        <5>1. job[g].ev = e /\ Work(g)
          BY <1>0, <2>3, <3>2, <4>2, Continues
        <5>2. job[g].kind \in Locking /\ WillPlan(g, i)
          BY <1>0, <2>2, <5>1 DEF PlanOwed, JobAt
        <5> QED
          BY <1>0, <2>1, <2>3, <5>1, <5>2, GoesOnToPlan
      <4> QED
        BY <4>1, <4>2
    <3>3. ASSUME NEW h \in Handlers, \/ \E f \in DOMAIN inbox : handle(h, f)
                                     \/ \E kind \in Calls : call(h, kind)
          PROVE  WillPlan(g, i)'
      <4>1. CASE g # h
        BY <3>1, <3>3, <4>1, Begins
      <4>2. CASE g = h
        <5>1. job'[g].kind = inbox[e].action /\ pc'[g] = IF inbox[e].action = "push" THEN "feature" ELSE "upsert"
          BY <1>0, <2>3, <3>3, <4>2, Begins
        <5> QED
          BY <2>2, <5>1 DEF PlanOwed, WillPlan
      <4> QED
        BY <4>1, <4>2
    <3> QED
      BY <3>1, <3>2, <3>3, Steps
  <2>4. ~event'[e].processed
    <3>1. ASSUME NEW h \in Handlers, pc[h] = "mark", job[h].ev = e
          PROVE  FALSE
      BY <2>2, <3>1 DEF PlanOwed, WillPlan
    <3> QED
      BY <2>2, <3>1, Marked DEF PlanOwed
  <2>5. PlanOwed(e, i)'
    BY <1>0, <2>2, <2>3, <2>4 DEF PlanOwed
  <2> QED
    BY <1>0, <2>5
<1> QED
  BY <1>1, <1>2, RowsChange

-----------------------------------------------------------------------------
(* The newest environment's plan is the table's, unless the event that     *)
(* changed the table is still to be planned for, or being planned for.     *)

\* Before the look-up, or after the failure of a resolution.
Early(p) == p \in {"upsert", "feature", "lock", "unplanned", "error"}

\* Nobody who has event e has read the table for it yet.
Pending(e) ==
  /\ ~event[e].processed
  /\ inbox[e].action \in Locking
  /\ \A h \in Handlers : job[h].ev = e => Early(pc[h])

TableOwed == \E e \in DOMAIN inbox : Pending(e)

\* h, for an event, is on the way to give environment i a new plan.
Reading(h, i) ==
  /\ job[h].kind \in Locking
  /\ pc[h] = "find" \/ (pc[h] \in {"resolve", "bump"} /\ job[h].env = i)

\* What the holder of the lock has read is still so.
OwnerFresh ==
  \A h \in Handlers :
    shared = {} /\ lock = h /\ pc[h] \in {"resolve", "bump"}
    => TableOwed \/ \A r \in Repos \ job[h].todo : Fresh(r, job[h].plan)

RowFresh ==
  \A i \in DOMAIN envs :
    /\ shared = {} /\ i = Len(envs)
    /\ envs[i].byLocked /\ ~envs[i].destroyedAt
    => \/ TableOwed
       \/ \E h \in Handlers : Reading(h, i)
       \/ \A r \in Repos : Fresh(r, envs[i].plan)

\* h gets the feature lock for a locking event.
Locks(h) == Work(h) /\ job[h].kind \in Locking /\ pc[h] = "lock" /\ pc'[h] = "find" /\ lock' = h

\* An event stays pending until its handler has the lock.
LEMMA PendingKept ==
  ASSUME Typed, Typed', [Next]_vars, NEW e \in DOMAIN inbox, Pending(e),
         ~ \E h \in Handlers : Locks(h)
  PROVE  TableOwed'
<1>0. /\ pc \in [Handlers -> Pcs]
      /\ \A h \in Handlers : JobAt(pc[h], job[h])
      /\ inbox' = inbox /\ e # 0 /\ inbox \in Histories
  BY Marked, PayloadTyped DEF Typed, TypeOK, Handling
<1>1. ASSUME NEW g \in Handlers, job'[g].ev = e
      PROVE  Early(pc'[g])
  <2>1. ASSUME pc'[g] = pc[g], job'[g] = job[g]
        PROVE  Early(pc'[g])
    BY <1>1, <2>1 DEF Pending
  <2>2. ASSUME NEW h \in Handlers, Work(h) \/ Crash(h)
        PROVE  Early(pc'[g])
    <3>1. CASE g = h
      <4>1. job[g].ev = e /\ Work(g)
        BY <1>0, <1>1, <2>2, <3>1, Continues
      <4>2. job[g].kind \in Locking /\ Early(pc[g])
        BY <1>0, <4>1 DEF Pending, JobAt
      <4>3. LockingMove(g) /\ ~Locks(g)
        BY <4>1, <4>2, LockingMoves
      <4> QED
        BY <1>0, <1>1, <4>1, <4>2, <4>3 DEF LockingMove, Locks, Early
    <3> QED
      BY <2>1, <2>2, <3>1, Continues
  <2>3. ASSUME NEW h \in Handlers, \/ \E f \in DOMAIN inbox : handle(h, f)
                                   \/ \E kind \in Calls : call(h, kind)
        PROVE  Early(pc'[g])
    <3>1. CASE g = h
      <4>1. pc'[g] = IF inbox[e].action = "push" THEN "feature" ELSE "upsert"
        BY <1>0, <1>1, <2>3, <3>1, Begins
      <4> QED
        BY <4>1 DEF Pending, Early
    <3> QED
      BY <2>1, <2>3, <3>1, Begins
  <2> QED
    BY <2>1, <2>2, <2>3, Steps
<1>2. ~event'[e].processed
  <2>1. ASSUME NEW h \in Handlers, pc[h] = "mark", job[h].ev = e
        PROVE  FALSE
    BY <2>1 DEF Pending, Early
  <2> QED
    BY <2>1, Marked DEF Pending
<1>3. Pending(e)'
  BY <1>0, <1>1, <1>2 DEF Pending
<1> QED
  BY <1>0, <1>3 DEF TableOwed

\* An event whose handler has written the table, or ended early, is pending.
LEMMA PendingMade ==
  ASSUME Typed, Typed', OneHolder, shared = {}, [Next]_vars,
         NEW h \in Handlers, Work(h) \/ Crash(h), job[h].kind \in Locking, pc[h] # "mark",
         job'[h].ev = 0 \/ Early(pc'[h])
  PROVE  TableOwed'
<1>0. /\ pc \in [Handlers -> Pcs]
      /\ JobAt(pc[h], job[h])
      /\ inbox' = inbox /\ inbox \in Histories
      /\ \A e \in DOMAIN inbox : e # 0
  BY Marked, PayloadTyped DEF Typed, TypeOK, Handling
<1>1. PICK e \in DOMAIN inbox : e = job[h].ev
  BY <1>0 DEF JobAt, Locking
<1>2. inbox[e].action \in Locking
  BY <1>0, <1>1 DEF JobAt
<1>3. \A g \in Handlers : g # h => job[g].ev # e
  BY <1>0, <1>1 DEF OneHolder
<1>4. ~event'[e].processed
  <2>1. ~event[e].processed
    BY <1>0, <1>1 DEF OneHolder
  <2> QED
    BY <1>3, <2>1, Marked
<1>5. Pending(e)'
  BY <1>0, <1>2, <1>3, <1>4, Continues DEF Pending
<1> QED
  BY <1>0, <1>5 DEF TableOwed

\* A step leaves a fresh pick fresh, or its event is pending.
LEMMA FreshKept ==
  ASSUME Typed, Typed', OneHolder, shared = {}, [Next]_vars
  PROVE  \/ TableOwed'
         \/ \A r \in Repos, plan \in Plans : Fresh(r, plan) => Fresh(r, plan)'
<1> DEFINE Goal == \/ TableOwed'
                   \/ \A r \in Repos, plan \in Plans : Fresh(r, plan) => Fresh(r, plan)'
<1>1. ASSUME UNCHANGED prs PROVE Goal
  BY <1>1 DEF Fresh, OpenIn
<1>2. ASSUME NEW h \in Handlers, UpsertPR(h)
      PROVE  Goal
  <2>0. /\ pc \in [Handlers -> Pcs] /\ JobAt(pc[h], job[h])
        /\ inbox \in Histories /\ prs \in [PRs -> PullRequest]
    BY DEF Typed, TypeOK, FeatureTypeOK, Handling
  <2>1. Work(h) /\ pc[h] = "upsert" /\ pc'[h] = "feature"
    BY <1>2, <2>0 DEF Work, UpsertPR, Go
  <2>2. CASE job[h].kind \in Locking
    BY <2>1, <2>2, PendingMade DEF Early
  <2>3. CASE job[h].kind = "closed"
    <3>1. job[h].ev \in DOMAIN inbox /\ inbox[job[h].ev].action = "closed"
      BY <2>0, <2>3 DEF JobAt
    <3>2. Payload(h).state = "closed" /\ Payload(h).pr \in PRs
      BY <2>0, <3>1, PayloadTyped DEF Payload
    <3>3. PICK p \in PRs, sha \in 1..MaxCommits : prs' = [prs EXCEPT ![p] = [sha |-> sha, state |-> "closed"]]
      BY <1>2, <2>0, <3>1, <3>2, PayloadTyped DEF UpsertPR, Upsert, Payload
    <3>4. /\ prs'[p].state = "closed"
          /\ \A q \in PRs : q # p => prs'[q] = prs[q]
      BY <2>0, <3>3
    <3>5. ASSUME NEW r \in Repos, NEW plan \in Plans, Fresh(r, plan), OpenIn(r)' # {}
          PROVE  Fresh(r, plan)'
      <4>1. OpenIn(r) # {}
        BY <3>4, <3>5 DEF OpenIn
      <4>2. PICK q \in PRs, n \in 1..MaxCommits :
               plan[r] = <<q, n>> /\ RepoOf[q] = r /\ (prs[q].state = "open" => prs[q].sha = n)
        BY <3>5, <4>1 DEF Fresh
      <4>3. prs'[q].state = "open" => prs'[q].sha = n
        BY <3>4, <4>2
      <4> QED
        BY <4>2, <4>3 DEF Fresh
    <3>6. ASSUME NEW r \in Repos, NEW plan \in Plans, OpenIn(r)' = {}
          PROVE  Fresh(r, plan)'
      BY <3>6 DEF Fresh
    <3> QED
      BY <3>5, <3>6
  <2> QED
    BY <2>0, <2>1, <2>2, <2>3 DEF JobAt, KindAt
<1>3. ASSUME NEW h \in Handlers, Work(h)
      PROVE  UNCHANGED prs \/ UpsertPR(h)
  BY <1>3, RowsKept DEF CreateEnv, MarkFailed, Bump, MarkResolving, markDestroying
<1>4. ASSUME NEW h \in Handlers, \/ Crash(h)
                                 \/ \E f \in DOMAIN inbox : handle(h, f)
                                 \/ \E kind \in Calls : call(h, kind)
      PROVE  UNCHANGED prs
  BY <1>4, Begins DEF Crash, featureVars
<1>5. UNCHANGED prs \/ \E h \in Handlers : UpsertPR(h)
  <2>1. CASE \E h \in Handlers : \/ Work(h) \/ Crash(h)
                                 \/ \E e \in DOMAIN inbox : handle(h, e)
                                 \/ \E kind \in Calls : call(h, kind)
    <3>1. PICK h \in Handlers : \/ Work(h) \/ Crash(h)
                                \/ \E e \in DOMAIN inbox : handle(h, e)
                                \/ \E kind \in Calls : call(h, kind)
      BY <2>1
    <3>2. CASE Work(h)
      BY <1>3, <3>2
    <3>3. CASE ~Work(h)
      BY <1>4, <3>1, <3>3
    <3> QED
      BY <3>2, <3>3
  <2>2. CASE UNCHANGED <<pc, job, prs, shared>> /\ lock' \in {lock, Nobody}
    BY <2>2
  <2> QED
    BY <2>1, <2>2, Steps
<1> QED
  <2>1. Goal
    <3> HIDE DEF Goal
    <3> QED
      BY <1>1, <1>2, <1>5
  <2> QED
    BY <2>1

\* The holder of the lock adds what the table has; what the table changes
\* meanwhile leaves an event pending.
LEMMA OwnerFreshStep ==
  ASSUME Typed, Typed', OneHolder, OwnerFresh, [Next]_vars
  PROVE  OwnerFresh'
<1> SUFFICES ASSUME NEW g \in Handlers, shared' = {}, lock' = g, pc'[g] \in {"resolve", "bump"},
                    ~TableOwed', NEW r \in Repos \ job'[g].todo
             PROVE  Fresh(r, job[g].plan)'
  BY DEF OwnerFresh
<1>0. /\ pc \in [Handlers -> Pcs] /\ job \in [Handlers -> Jobs]
      /\ \A h \in Handlers : JobAt(pc[h], job[h]) /\ job[h].plan \in Plans
      /\ \A h \in Handlers : lock = h => job[h].kind \in Locking
      /\ \A h \in Handlers : lock' = h => job'[h].kind \in Locking
  BY DEF Typed, TypeOK, Handling, Holding, Jobs
<1>1. shared = {}
  BY SharedGrows
<1>2. ASSUME NEW s \in Repos, NEW plan \in Plans, Fresh(s, plan)
      PROVE  Fresh(s, plan)'
  BY <1>1, <1>2, FreshKept
<1>3. ~ \E h \in Handlers : Locks(h)
  BY KeyAssumption DEF Locks
<1>4. ~TableOwed
  BY <1>3, PendingKept DEF TableOwed
<1>5. ASSUME lock = g, pc[g] \in {"resolve", "bump"}, r \notin job[g].todo
      PROVE  Fresh(r, job[g].plan)
  BY <1>1, <1>4, <1>5 DEF OwnerFresh
<1>6. ASSUME lock = g, pc'[g] = pc[g], job'[g] = job[g]
      PROVE  Fresh(r, job[g].plan)'
  <2>1. PICK plan \in Plans : plan = job[g].plan /\ plan = job'[g].plan
    BY <1>0, <1>6
  <2>2. Fresh(r, plan)
    BY <1>5, <1>6, <2>1
  <2>3. Fresh(r, plan)'
    BY <1>2, <2>2
  <2> QED
    BY <2>1, <2>3 DEF Fresh
<1>7. ASSUME Work(g)
      PROVE  Fresh(r, job[g].plan)'
  <2>1. job[g].kind \in Locking /\ LockingMove(g)
    BY <1>0, <1>7, Continues, LockingMoves DEF LockingMove, Locking, JobAt, KindAt
  <2>2. PICK s \in Repos : Resolve(g, s) /\ pc[g] = "resolve"
    BY <1>0, <2>1 DEF LockingMove
  <2>3. /\ lock = g /\ UNCHANGED prs
    BY <2>2 DEF Resolve, featureVars
  <2>4. PICK j \in Jobs, pick \in pickBranch(s, job[g].origin) :
           /\ job' = [job EXCEPT ![g] = j]
           /\ j.kind = job[g].kind /\ j.ev = job[g].ev /\ j.env = job[g].env
           /\ j.todo = job[g].todo \ {s}
           /\ j.plan = [job[g].plan EXCEPT ![s] = pick]
    BY <2>2, ResolveOwn
  <2>5. job'[g] = j /\ job[g].plan \in [Repos -> Picks]
    BY <1>0, <2>4 DEF Plans
  <2>6. CASE r = s
    <3>1. j.plan[r] = pick
      BY <2>4, <2>5, <2>6
    <3>2. ASSUME OpenIn(r) # {}
          PROVE  \E p \in PRs, sha \in 1..MaxCommits :
                    /\ pick = <<p, sha>> /\ RepoOf[p] = r
                    /\ prs[p].sha = sha
      <4>1. PICK p \in OpenIn(r) : pick = <<p, prs[p].sha>>
        BY <2>4, <2>6, <3>2 DEF pickBranch
      <4>2. prs[p].sha \in 0..MaxCommits /\ prs[p].sha # 0 /\ p \in PRs /\ RepoOf[p] = r
        BY <4>1 DEF OpenIn, Typed, HeadsKnown, TypeOK, FeatureTypeOK, PullRequest
      <4>3. prs[p].sha \in 1..MaxCommits
        BY <4>2
      <4> QED
        BY <4>1, <4>2, <4>3
    <3> QED
      BY <2>3, <2>5, <3>1, <3>2 DEF Fresh, OpenIn
  <2>7. CASE r # s
    <3>1. r \notin job[g].todo /\ j.plan[r] = job[g].plan[r]
      BY <2>4, <2>5, <2>7
    <3>2. Fresh(r, job[g].plan)
      BY <1>5, <2>2, <2>3, <3>1
    <3> QED
      BY <2>3, <2>5, <3>1, <3>2 DEF Fresh, OpenIn
  <2> QED
    BY <2>6, <2>7
<1>8. ASSUME NEW h \in Handlers, Work(h) \/ Crash(h)
      PROVE  Fresh(r, job[g].plan)'
  <2>1. CASE h = g
    BY <1>0, <1>7, <1>8, <2>1, Continues
  <2>2. CASE h # g
    <3>1. lock = g
      BY <1>8, <2>2, LockPasses, KeyAssumption DEF Crash
    <3> QED
      BY <1>6, <1>8, <2>2, <3>1, Continues
  <2> QED
    BY <2>1, <2>2
<1>9. ASSUME NEW h \in Handlers, \/ \E f \in DOMAIN inbox : handle(h, f)
                                 \/ \E kind \in Calls : call(h, kind)
      PROVE  Fresh(r, job[g].plan)'
  <2>1. h # g
    BY <1>9, Begins
  <2> QED
    BY <1>6, <1>9, <2>1, Begins
<1>10. ASSUME UNCHANGED <<pc, job>>, lock' \in {lock, Nobody}
       PROVE  Fresh(r, job[g].plan)'
  BY <1>6, <1>10, KeyAssumption
<1> QED
  BY <1>8, <1>9, <1>10, Steps

\* A handler on its way to give environment i a new plan stays on it, gives it,
\* or leaves its event pending.
LEMMA ReadingGoesOn ==
  ASSUME Typed, Typed', OneHolder, Dated, shared = {}, [Next]_vars,
         NEW i \in DOMAIN envs, i = Len(envs), ~envs[i].destroyedAt,
         NEW h \in Handlers, Reading(h, i)
  PROVE  Reading(h, i)' \/ TableOwed' \/ (Bump(h) /\ job[h].env = i)
<1>0. /\ envs \in Seq(Environment) /\ Len(envs) \in Nat /\ DOMAIN envs = 1..Len(envs)
      /\ pc \in [Handlers -> Pcs] /\ job \in [Handlers -> Jobs]
      /\ envs[i].state # "destroyed"
      /\ job[h].kind \in Locking /\ pc[h] \in {"find", "resolve", "bump"}
  BY DEF Typed, TypeOK, FeatureTypeOK, Dated, Reading
<1>1. ASSUME pc'[h] = pc[h], job'[h] = job[h]
      PROVE  Reading(h, i)'
  BY <1>1 DEF Reading
<1>2. ASSUME Work(h)
      PROVE  Reading(h, i)' \/ TableOwed' \/ (Bump(h) /\ job[h].env = i)
  <2>1. LockingMove(h)
    BY <1>0, <1>2, LockingMoves
  <2>2. CASE job'[h].ev = 0 \/ Early(pc'[h])
    BY <1>0, <1>2, <2>2, PendingMade
  <2>3. CASE job'[h].ev # 0 /\ ~Early(pc'[h])
    <3>1. job'[h].kind \in Locking \/ pc'[h] = "idle"
      BY <1>0, <1>2, Continues
    <3>2. CASE pc[h] = "find"
      <4>1. \A k \in 0..Len(envs) : ByFeature(k) => k = i
        BY <1>0 DEF ByFeature
      <4>2. pc'[h] = "resolve" /\ job'[h].env = i
        BY <1>0, <2>1, <3>2, <4>1 DEF LockingMove
      <4> QED
        BY <3>1, <4>2 DEF Reading
    <3>3. CASE pc[h] \in {"resolve", "bump"}
      <4>1. job[h].env = i
        BY <3>3 DEF Reading
      <4>2. \/ pc'[h] \in {"resolve", "bump"} /\ job'[h].env = i
            \/ Bump(h)
        BY <2>1, <2>3, <3>3, <4>1 DEF LockingMove, Early
      <4> QED
        BY <3>1, <4>1, <4>2 DEF Reading
    <3> QED
      BY <1>0, <3>2, <3>3
  <2> QED
    BY <2>2, <2>3
<1>3. ASSUME Crash(h)
      PROVE  TableOwed'
  <2>1. job'[h].ev = 0
    BY <1>0, <1>3 DEF Crash, Local, NoJob
  <2> QED
    BY <1>0, <1>3, <2>1, PendingMade
<1>4. ASSUME NEW g \in Handlers, \/ Work(g) \/ Crash(g)
                                 \/ \E e \in DOMAIN inbox : handle(g, e)
                                 \/ \E kind \in Calls : call(g, kind)
      PROVE  Reading(h, i)' \/ TableOwed' \/ (Bump(h) /\ job[h].env = i)
  <2>1. CASE g # h
    BY <1>1, <1>4, <2>1, Continues, Begins
  <2>2. CASE g = h
    BY <1>0, <1>2, <1>3, <1>4, <2>2, Begins
  <2> QED
    BY <2>1, <2>2
<1> QED
  BY <1>1, <1>4, Steps

\* Only its own handler plans an environment, and it has read the table.
LEMMA RowFreshStep ==
  ASSUME Typed, Typed', OneHolder, Dated, OwnerFresh, RowFresh, [Next]_vars
  PROVE  RowFresh'
<1> SUFFICES ASSUME NEW i \in DOMAIN envs', shared' = {}, i = Len(envs'),
                    envs'[i].byLocked, ~envs'[i].destroyedAt,
                    ~TableOwed', ~ \E h \in Handlers : Reading(h, i)',
                    NEW r \in Repos
             PROVE  Fresh(r, envs[i].plan)'
  BY DEF RowFresh
<1>0. /\ envs \in Seq(Environment) /\ Len(envs) \in Nat /\ DOMAIN envs = 1..Len(envs)
      /\ envs' \in Seq(Environment) /\ DOMAIN envs' = 1..Len(envs')
      /\ pc \in [Handlers -> Pcs] /\ job \in [Handlers -> Jobs]
      /\ \A h \in Handlers : JobAt(pc[h], job[h]) /\ job[h].plan \in Plans
  <2>1. envs \in Seq(Environment) /\ envs' \in Seq(Environment)
    BY DEF Typed, TypeOK, FeatureTypeOK
  <2>2. pc \in [Handlers -> Pcs] /\ job \in [Handlers -> Jobs] /\ Handling
    BY DEF Typed, TypeOK
  <2>3. \A h \in Handlers : job[h].plan \in Plans
    BY <2>2 DEF Jobs
  <2> QED
    BY <2>1, <2>2, <2>3 DEF Handling
<1>1. shared = {}
  BY SharedGrows
<1>2. i \in DOMAIN envs /\ i = Len(envs) /\ RowKept(i) /\ ~envs[i].destroyedAt
  <2>1. Len(envs') = Len(envs)
    BY RowsChange
  <2>2. i \in DOMAIN envs /\ i = Len(envs)
    BY <1>0, <2>1
  <2>3. RowKept(i)
    BY <2>2, RowsChange
  <2> QED
    BY <2>2, <2>3 DEF RowKept
<1>3. ASSUME NEW h \in Handlers, Bump(h), job[h].env = i
      PROVE  Fresh(r, envs[i].plan)'
  <2>1. pc[h] = "bump" /\ UNCHANGED prs
    BY <1>3, BumpPlans
  <2>2. envs'[i].plan = job[h].plan /\ lock = h
    <3> DEFINE k == job[h].env
    <3>1. envs'[k].plan = job[h].plan /\ envs'[k].byLocked = (lock = h)
      BY <1>3, BumpPlans
    <3>2. k = i
      BY <1>3
    <3> HIDE DEF k
    <3> QED
      BY <3>1, <3>2
  <2>3. ~ \E g \in Handlers : Locks(g)
    <3>1. pc' = [pc EXCEPT ![h] = "state"]
      BY <1>3 DEF Bump, Go
    <3> QED
      BY <1>0, <2>1, <3>1 DEF Locks
  <2>4. ~TableOwed
    BY <2>3, PendingKept DEF TableOwed
  <2>5. job[h].todo = {}
    BY <1>0, <2>1 DEF JobAt
  <2>6. Fresh(r, job[h].plan)
    BY <1>1, <2>1, <2>2, <2>4, <2>5 DEF OwnerFresh
  <2> QED
    BY <2>1, <2>2, <2>6 DEF Fresh, OpenIn
<1>4. ASSUME ~ \E h \in Handlers : Bump(h) /\ job[h].env = i
      PROVE  Fresh(r, envs[i].plan)'
  <2>1. envs'[i].plan = envs[i].plan /\ envs'[i].byLocked = envs[i].byLocked
    BY <1>2, <1>4 DEF RowKept
  <2>2. ~ \E h \in Handlers : Reading(h, i)
    BY <1>1, <1>2, <1>4, ReadingGoesOn
  <2>3. ~TableOwed
    <3>1. ASSUME NEW h \in Handlers, Locks(h)
          PROVE  Reading(h, i)'
      BY <3>1, Continues DEF Locks, Reading
    <3> QED
      BY <3>1, PendingKept DEF TableOwed
  <2>4. Fresh(r, envs[i].plan)
    BY <1>1, <1>2, <2>1, <2>2, <2>3 DEF RowFresh
  <2>5. PICK plan \in Plans : plan = envs[i].plan /\ plan = envs'[i].plan
    <3>1. envs[i] \in Environment
      BY <1>0, <1>2
    <3>2. envs[i].plan \in Plans
      BY <3>1 DEF Environment
    <3> QED
      BY <2>1, <3>2
  <2>6. Fresh(r, plan)'
    BY <1>1, <2>4, <2>5, FreshKept
  <2> QED
    BY <2>5, <2>6 DEF Fresh
<1> QED
  BY <1>3, <1>4

-----------------------------------------------------------------------------
\* When every event is processed, the newest environment has a topology if an
\* event has created it, though ensureAndBump makes the two in separate calls
\* and any of them can fail or be the handler's last (processor.go:211-229).
THEOREM EventEnvsPlanned == Spec => []EventEnvsArePlanned
<1> DEFINE Inv == Typed /\ OneHolder /\ Dated /\ NewestOwed
<1>1. Init => Inv
  <2> SUFFICES ASSUME Init PROVE Inv
    OBVIOUS
  <2>1. Typed
    BY TypedInit
  <2>2. OneHolder
    BY DEF Init, NoJob, OneHolder
  <2>3. Dated /\ NewestOwed
    BY DEF Init, FeatureInit, Dated, NewestOwed
  <2> QED
    BY <2>1, <2>2, <2>3
<1>2. Inv /\ [Next]_vars => Inv'
  <2> SUFFICES ASSUME Inv, [Next]_vars PROVE Inv'
    OBVIOUS
  <2>1. Typed'
    BY TypedStep
  <2> QED
    BY <2>1, OneHolderStep, DatedStep, NewestOwedStep
<1>3. Inv => EventEnvsArePlanned
  <2> SUFFICES ASSUME Inv, Settled, NEW i \in Newest, envs[i].byEvent, ~envs[i].planned
               PROVE  FALSE
    BY DEF EventEnvsArePlanned
  <2>1. i \in DOMAIN envs /\ i = Len(envs) /\ ~envs[i].destroyedAt
    BY DEF Newest, Live
  <2> QED
    BY <2>1 DEF NewestOwed, PlanOwed, Settled
<1> QED
  BY <1>1, <1>2, <1>3, PTL DEF Spec

\* When every event is processed, the newest environment has the open pull
\* requests as the table has them if a holder of the feature lock planned it
\* last: the events that have changed the table since were still to be planned
\* for, and each of them reads the whole table under the lock
\* (processor.go:127, :201, resolver.go:57-64).
THEOREM FreshPlans == Spec => []PlansAreFresh
<1> DEFINE Inv == Typed /\ OneHolder /\ Dated /\ OwnerFresh /\ RowFresh
<1>1. Init => Inv
  <2> SUFFICES ASSUME Init PROVE Inv
    OBVIOUS
  <2>1. Typed
    BY TypedInit
  <2>2. OneHolder
    BY DEF Init, NoJob, OneHolder
  <2>3. Dated /\ RowFresh
    BY DEF Init, FeatureInit, Dated, RowFresh
  <2>4. OwnerFresh
    BY DEF Init, OwnerFresh
  <2> QED
    BY <2>1, <2>2, <2>3, <2>4
<1>2. Inv /\ [Next]_vars => Inv'
  <2> SUFFICES ASSUME Inv, [Next]_vars PROVE Inv'
    OBVIOUS
  <2>1. Typed'
    BY TypedStep
  <2> QED
    BY <2>1, OneHolderStep, DatedStep, OwnerFreshStep, RowFreshStep
<1>3. Inv => PlansAreFresh
  <2> SUFFICES ASSUME Inv, Settled, NEW i \in Newest, envs[i].byLocked, NEW r \in Repos
               PROVE  Fresh(r, envs[i].plan)
    BY DEF PlansAreFresh
  <2>1. i \in DOMAIN envs /\ i = Len(envs) /\ ~envs[i].destroyedAt
    BY DEF Newest, Live
  <2>2. ~TableOwed
    BY DEF TableOwed, Pending, Settled
  <2>3. ~ \E h \in Handlers : Reading(h, i)
    BY DEF Reading, Settled
  <2> QED
    BY <2>1, <2>2, <2>3 DEF RowFresh, Settled
<1> QED
  BY <1>1, <1>2, <1>3, PTL DEF Spec
=============================================================================
