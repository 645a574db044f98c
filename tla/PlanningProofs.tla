--------------------------- MODULE PlanningProofs ---------------------------
(***************************************************************************)
(* Proofs about how events and requests plan the environments of a         *)
(* feature, for any number of repositories, pull requests, events,         *)
(* handlers and faults.                                                    *)
(***************************************************************************)
EXTENDS Planning, FiniteSetTheorems, TLAPS

USE RepoOfAssumption, BoundsAssumption, NoneAssumption, HistoriesAssumption,
    AttemptsAssumption, KeyAssumption, MaxFaultsAssumption

-----------------------------------------------------------------------------
(* What the statements do to the environments.                             *)

\* The columns that UpdateState leaves alone.
SamePlan(new, old) ==
  /\ new.planned = old.planned
  /\ new.plan = old.plan
  /\ new.byEvent = old.byEvent
  /\ new.byLocked = old.byLocked

\* UPDATE environments SET state: the rest of the row and the other rows stay.
LEMMA StateUpdated ==
  ASSUME envs \in Seq(Environment), NEW i \in DOMAIN envs,
         NEW to \in {"live", "destroying", "destroyed"}, UpdateState(i, to)
  PROVE  /\ envs' \in Seq(Environment)
         /\ Len(envs') = Len(envs)
         /\ \A j \in DOMAIN envs : j # i => envs'[j] = envs[j]
         /\ envs'[i].state = to
         /\ envs'[i].destroyedAt = envs[i].destroyedAt
         /\ SamePlan(envs'[i], envs[i])
<1>1. envs[i] \in Environment
  OBVIOUS
<1> DEFINE new == [envs[i] EXCEPT !.state = to]
<1>2. new \in Environment
  BY <1>1 DEF Environment
<1>3. envs' = [envs EXCEPT ![i] = new]
  BY DEF UpdateState
<1>4. /\ new.state = to
      /\ new.destroyedAt = envs[i].destroyedAt
      /\ SamePlan(new, envs[i])
  BY <1>1 DEF Environment, SamePlan
<1> HIDE DEF new
<1> QED
  BY <1>1, <1>2, <1>3, <1>4

\* MarkDestroyed also sets destroyed_at, and nothing else.
LEMMA TornDown ==
  ASSUME envs \in Seq(Environment), NEW i \in DOMAIN envs, MarkDestroyed(i)
  PROVE  /\ envs' \in Seq(Environment)
         /\ Len(envs') = Len(envs)
         /\ \A j \in DOMAIN envs : j # i => envs'[j] = envs[j]
         /\ envs'[i].state = "destroyed"
         /\ envs'[i].destroyedAt
         /\ SamePlan(envs'[i], envs[i])
<1> DEFINE new == [envs[i] EXCEPT !.state = "destroyed", !.destroyedAt = TRUE]
<1>1. envs[i] \in Environment
  OBVIOUS
<1>2. new \in Environment
  BY <1>1 DEF Environment
<1>3. envs' = [envs EXCEPT ![i] = new]
  BY DEF MarkDestroyed
<1>4. new.state = "destroyed" /\ new.destroyedAt /\ SamePlan(new, envs[i])
  BY <1>1 DEF Environment, SamePlan
<1> HIDE DEF new
<1> QED
  BY <1>1, <1>2, <1>3, <1>4

\* BumpGeneration stores the plan and leaves the state and destroyed_at alone.
LEMMA Bumped ==
  ASSUME envs \in Seq(Environment), NEW i \in DOMAIN envs, NEW plan \in Plans,
         NEW locked \in BOOLEAN, BumpGeneration(i, plan, locked)
  PROVE  /\ envs' \in Seq(Environment)
         /\ Len(envs') = Len(envs)
         /\ \A j \in DOMAIN envs : j # i => envs'[j] = envs[j]
         /\ envs'[i].state = envs[i].state
         /\ envs'[i].destroyedAt = envs[i].destroyedAt
         /\ envs'[i].byEvent = envs[i].byEvent
         /\ envs'[i].planned /\ envs'[i].plan = plan /\ envs'[i].byLocked = locked
<1> DEFINE new == [envs[i] EXCEPT !.planned = TRUE, !.plan = plan, !.byLocked = locked]
<1>1. envs[i] \in Environment
  OBVIOUS
<1>2. new \in Environment
  BY <1>1 DEF Environment
<1>3. envs' = [envs EXCEPT ![i] = new]
  BY DEF BumpGeneration
<1>4. /\ new.state = envs[i].state
      /\ new.destroyedAt = envs[i].destroyedAt
      /\ new.byEvent = envs[i].byEvent
      /\ new.planned /\ new.plan = plan /\ new.byLocked = locked
  BY <1>1 DEF Environment
<1> HIDE DEF new
<1> QED
  BY <1>1, <1>2, <1>3, <1>4

\* Create adds one live environment without a topology, after the others.
LEMMA Created ==
  ASSUME envs \in Seq(Environment), Len(envs) <= MaxEnvs, NEW byEvent \in BOOLEAN,
         Create(byEvent)
  PROVE  LET n == Len(envs) + 1
         IN  /\ envs' \in Seq(Environment)
             /\ Len(envs') = n /\ n <= MaxEnvs
             /\ \A j \in DOMAIN envs : envs'[j] = envs[j]
             /\ envs'[n].state = "live" /\ ~envs'[n].destroyedAt
             /\ envs'[n].byEvent = byEvent /\ ~envs'[n].planned /\ ~envs'[n].byLocked
<1> DEFINE new == [state |-> "live", destroyedAt |-> FALSE,
                   planned |-> FALSE, plan |-> NoPlan,
                   byEvent |-> byEvent, byLocked |-> FALSE]
<1>1. NoPlan \in Plans
  BY DEF NoPlan, Plans, Picks
<1>2. new \in Environment
  BY <1>1 DEF Environment
<1>3. envs' = Append(envs, new) /\ Len(envs) < MaxEnvs
  BY DEF Create
<1>4. /\ new.state = "live" /\ ~new.destroyedAt
      /\ new.byEvent = byEvent /\ ~new.planned /\ ~new.byLocked
  OBVIOUS
<1> HIDE DEF new
<1> QED
  BY <1>2, <1>3, <1>4
-----------------------------------------------------------------------------
(* Types, and which handler can be where.                                  *)

\* The kinds of handler that take the feature lock.
Locking == {"opened", "synchronize", "labeled"}

\* The calls of a handler that plans an environment.
Planners == {"branch", "resolve", "bump", "state", "unplanned"}

\* The handlers that can be about to make call p.
KindAt(p, kind) ==
  /\ p = "idle" => kind = "none"
  /\ p = "upsert" => kind \in Locking \cup {"closed"}
  /\ p = "feature" => kind \in Actions \cup {"create"}
  /\ p = "lock" => kind \in Locking
  /\ p = "find" => kind \in Actions \cup {"create", "restart"}
  /\ p = "create" => kind \in Locking \cup {"create"}
  /\ p = "branch" => kind = "push"
  /\ p = "destroy" => kind = "closed"
  /\ p = "unplanned" => kind \in Locking \cup {"push"}
  /\ p \in {"resolve", "bump", "state"}
        => kind \in Locking \cup {"push", "create", "restart"}

\* The job of a handler at call p fits the call.
JobAt(p, j) ==
  /\ j.ev \in DOMAIN inbox => j.kind = inbox[j.ev].action
  /\ j.ev \notin DOMAIN inbox => j.ev = 0 /\ j.kind \in {"create", "restart", "none"}
  /\ KindAt(p, j.kind)
  /\ p \in {"error", "mark"} => j.ev # 0
  /\ p = "create" => j.todo = Repos
  /\ p = "bump" => j.todo = {}
  /\ p \in Planners \cup {"destroy"} => j.env \in DOMAIN envs

Handling == \A h \in Handlers : JobAt(pc[h], job[h])

\* Only a handler that takes the lock has it, and not after its return.
Holding == \A h \in Handlers : lock = h => job[h].kind \in Locking /\ pc[h] # "mark"

\* An open pull request has a head.
HeadsKnown == \A p \in PRs : prs[p].state = "open" => prs[p].sha # 0

Typed == TypeOK /\ Handling /\ Holding /\ HeadsKnown

\* Every payload is one.
LEMMA PayloadTyped ==
  ASSUME inbox \in Histories, NEW e \in DOMAIN inbox
  PROVE  /\ inbox[e] \in Payloads
         /\ inbox[e].action \in Actions
         /\ inbox[e].pr \in PRs /\ inbox[e].sha \in 1..MaxCommits
         /\ inbox[e].state \in {"open", "closed"}
         /\ inbox[e].action = "closed" => inbox[e].state = "closed"
         /\ e \in Nat \ {0}
<1>1. inbox \in Seq(Payloads)
  OBVIOUS
<1>2. inbox[e] \in Payloads /\ e \in Nat \ {0}
  BY <1>1
<1> QED
  BY <1>1, <1>2 DEF Payloads

\* What a handler does to the rows.
LEMMA RowsKept ==
  ASSUME Typed, NEW h \in Handlers, Work(h)
  PROVE  \/ UpsertPR(h) \/ CreateEnv(h) \/ MarkFailed(h) \/ Bump(h)
         \/ MarkResolving(h) \/ markDestroying(h)
         \/ UNCHANGED <<prs, envs>>
<1>1. CASE GetOrCreate(h) \/ BySlug(h) \/ AcquireWait(h) \/ GiveUp(h) \/ NoSuchEnv(h)
           \/ FindBranch(h) \/ ResolveFails(h)
           \/ ReturnNil(h) \/ ReturnError(h) \/ MarkProcessed(h)
  BY <1>1 DEF GetOrCreate, BySlug, AcquireWait, GiveUp, NoSuchEnv, FindBranch,
     ResolveFails, ReturnNil, ReturnError, MarkProcessed, featureVars
<1>2. CASE (\E i \in 0..Len(envs) : Find(h, i)) \/ (\E i \in DOMAIN envs : FindByID(h, i))
           \/ (\E r \in Repos : Resolve(h, r))
  BY <1>2 DEF Find, FindByID, Resolve, featureVars
<1> QED
  BY <1>1, <1>2 DEF Work

\* No handler's step changes what happens outside of handlers' reach.
LEMMA OthersKept ==
  ASSUME Typed, NEW h \in Handlers, Work(h) \/ Crash(h)
  PROVE  /\ \A g \in Handlers \ {h} : pc'[g] = pc[g] /\ job'[g] = job[g]
         /\ UNCHANGED <<inbox, calls, shared>>
<1>0. pc \in [Handlers -> Pcs] /\ job \in [Handlers -> Jobs]
  BY DEF Typed, TypeOK
<1>1. CASE UpsertPR(h) \/ GetOrCreate(h) \/ BySlug(h) \/ AcquireWait(h) \/ GiveUp(h)
           \/ NoSuchEnv(h) \/ CreateEnv(h) \/ FindBranch(h)
  BY <1>0, <1>1 DEF UpsertPR, GetOrCreate, BySlug, AcquireWait, GiveUp, NoSuchEnv,
     CreateEnv, FindBranch, Go, Local
<1>2. CASE ResolveFails(h) \/ MarkFailed(h) \/ Bump(h) \/ MarkResolving(h)
           \/ markDestroying(h) \/ MarkProcessed(h) \/ Crash(h)
  BY <1>0, <1>2 DEF ResolveFails, MarkFailed, Bump, MarkResolving, markDestroying,
     MarkProcessed, Crash, Go, Local
<1>3. CASE ReturnNil(h) \/ ReturnError(h)
  BY <1>0, <1>3 DEF ReturnNil, ReturnError, Return, Go, Local
<1>4. CASE \E i \in 0..Len(envs) : Find(h, i)
  BY <1>0, <1>4 DEF Find, Go, Local, AfterFound, AfterNotFound
<1>5. CASE (\E i \in DOMAIN envs : FindByID(h, i)) \/ (\E r \in Repos : Resolve(h, r))
  BY <1>0, <1>5 DEF FindByID, Resolve, Go, Local
<1> QED
  BY <1>1, <1>2, <1>3, <1>4, <1>5 DEF Work

\* A plan is made of heads of pull requests.
LEMMA PickTyped ==
  ASSUME Typed, NEW r \in Repos, NEW origin \in Picks, NEW pick \in pickBranch(r, origin)
  PROVE  pick \in Picks
<1>1. ASSUME NEW p \in PRs, prs[p].state = "open"
      PROVE  <<p, prs[p].sha>> \in Picks
  <2>1. prs[p].sha \in 0..MaxCommits /\ prs[p].sha # 0
    BY <1>1 DEF Typed, HeadsKnown, TypeOK, FeatureTypeOK, PullRequest
  <2>2. prs[p].sha \in 1..MaxCommits
    BY <2>1
  <2> QED
    BY <2>2 DEF Picks
<1> QED
  BY <1>1 DEF pickBranch, OpenIn, Picks

\* A step keeps the rows typed and every open pull request with a head, and
\* removes no environment.
LEMMA RowsStep ==
  ASSUME Typed, [Next]_vars
  PROVE  FeatureTypeOK' /\ HeadsKnown' /\ Len(envs') >= Len(envs)
<1>0. /\ prs \in [PRs -> PullRequest] /\ HeadsKnown
      /\ feature \in BOOLEAN
      /\ envs \in Seq(Environment) /\ Len(envs) <= MaxEnvs /\ Len(envs) \in Nat
      /\ job \in [Handlers -> Jobs]
      /\ inbox \in Histories
  BY DEF Typed, TypeOK, FeatureTypeOK
<1> DEFINE PullsKept == prs' \in [PRs -> PullRequest] /\ HeadsKnown'
           EnvsKept == envs' \in Seq(Environment) /\ Len(envs') <= MaxEnvs /\ Len(envs') >= Len(envs)
<1>1. ASSUME UNCHANGED prs PROVE PullsKept
  BY <1>0, <1>1 DEF HeadsKnown
<1>2. ASSUME UNCHANGED envs PROVE EnvsKept
  BY <1>0, <1>2
<1>3. ASSUME NEW i \in DOMAIN envs, NEW to \in {"live", "destroying", "destroyed"}, UpdateState(i, to)
      PROVE  EnvsKept
  BY <1>0, <1>3, StateUpdated
<1>4. ASSUME NEW h \in Handlers, Work(h)
      PROVE  PullsKept /\ EnvsKept /\ feature' \in BOOLEAN
  <2>0. JobAt(pc[h], job[h]) /\ job[h] \in Jobs
    BY <1>0 DEF Typed, Handling
  <2>1. CASE UpsertPR(h)
    <3>1. job[h].ev \in DOMAIN inbox
      BY <2>0, <2>1 DEF UpsertPR, Go, JobAt, KindAt, Locking
    <3> DEFINE pl == Payload(h)
    <3>2. pl.pr \in PRs /\ pl.sha \in 1..MaxCommits /\ pl.state \in {"open", "closed"}
      BY <1>0, <3>1, PayloadTyped DEF Payload
    <3>3. prs' = [prs EXCEPT ![pl.pr] = [sha |-> pl.sha, state |-> pl.state]]
      BY <2>1 DEF UpsertPR, Upsert
    <3>4. UNCHANGED <<feature, envs>>
      BY <2>1 DEF UpsertPR
    <3> HIDE DEF pl
    <3>5. [sha |-> pl.sha, state |-> pl.state] \in PullRequest /\ pl.sha # 0
      BY <3>2 DEF PullRequest
    <3>6. PullsKept
      BY <1>0, <3>2, <3>3, <3>5 DEF HeadsKnown
    <3> QED
      BY <1>0, <1>2, <3>4, <3>6
  <2>2. CASE CreateEnv(h)
    <3>1. UNCHANGED <<prs, feature>>
      BY <2>2 DEF CreateEnv
    <3> DEFINE byEvent == job[h].kind # "create"
    <3>2. Create(byEvent) /\ byEvent \in BOOLEAN
      BY <2>2 DEF CreateEnv
    <3> HIDE DEF byEvent
    <3>3. EnvsKept
      BY <1>0, <3>2, Created
    <3> QED
      BY <1>0, <1>1, <3>1, <3>3
  <2>3. CASE Bump(h)
    <3>1. UNCHANGED <<prs, feature>>
      BY <2>3 DEF Bump
    <3> DEFINE locked == lock = h
    <3>2. BumpGeneration(job[h].env, job[h].plan, locked) /\ locked \in BOOLEAN
      BY <2>3 DEF Bump
    <3>3. job[h].env \in DOMAIN envs /\ job[h].plan \in Plans
      BY <2>0, <2>3 DEF Bump, Go, JobAt, Planners, Jobs
    <3> HIDE DEF locked
    <3>4. EnvsKept
      BY <1>0, <3>2, <3>3, Bumped
    <3> QED
      BY <1>0, <1>1, <3>1, <3>4
  <2>4. CASE MarkFailed(h) \/ MarkResolving(h) \/ markDestroying(h)
    <3>1. UNCHANGED <<prs, feature>>
      BY <2>4 DEF MarkFailed, MarkResolving, markDestroying
    <3>2. job[h].env \in DOMAIN envs
      BY <2>0, <2>4 DEF MarkFailed, MarkResolving, markDestroying, Go, JobAt, Planners
    <3>3. UpdateState(job[h].env, "live") \/ UpdateState(job[h].env, "destroying")
      BY <2>4 DEF MarkFailed, MarkResolving, markDestroying
    <3>4. EnvsKept
      BY <1>3, <3>2, <3>3
    <3> QED
      BY <1>0, <1>1, <3>1, <3>4
  <2>5. CASE UNCHANGED <<prs, envs>>
    <3>1. feature' \in BOOLEAN
      BY <1>0, <1>4, <2>5 DEF Work, GetOrCreate, BySlug, AcquireWait, GiveUp, NoSuchEnv,
         FindBranch, ResolveFails, ReturnNil, ReturnError, MarkProcessed, featureVars,
         Find, FindByID, Resolve, UpsertPR, CreateEnv, Bump, MarkFailed, MarkResolving,
         markDestroying
    <3> QED
      BY <1>1, <1>2, <2>5, <3>1
  <2> QED
    BY <1>4, <2>1, <2>2, <2>3, <2>4, <2>5, RowsKept
<1>5. CASE \/ UNCHANGED vars \/ OrphanExpires
           \/ \E h \in Handlers : \/ \E e \in DOMAIN inbox : handle(h, e)
                                  \/ \E kind \in Calls : call(h, kind)
                                  \/ Crash(h) \/ LeaseExpires(h)
  <2>1. UNCHANGED <<prs, feature, envs>>
    BY <1>5 DEF vars, featureVars, OrphanExpires, handle, call, Start, Crash, LeaseExpires
  <2> QED
    BY <1>0, <1>1, <1>2, <2>1 DEF FeatureTypeOK
<1>6. ASSUME NEW i \in DOMAIN envs, TearDown(i)
      PROVE  PullsKept /\ EnvsKept /\ feature' \in BOOLEAN
  <2>1. UNCHANGED <<prs, feature>> /\ MarkDestroyed(i)
    BY <1>6 DEF TearDown
  <2>2. EnvsKept
    BY <1>0, <2>1, TornDown
  <2> QED
    BY <1>0, <1>1, <2>1, <2>2
<1> QED
  BY <1>4, <1>5, <1>6 DEF Next, FeatureTypeOK

\* A job that fits its call goes on fitting it.
LEMMA JobKept ==
  ASSUME Typed, Len(envs') >= Len(envs), FeatureTypeOK', UNCHANGED inbox,
         NEW p, NEW j, JobAt(p, j)
  PROVE  JobAt(p, j)'
<1>1. DOMAIN envs \subseteq DOMAIN envs'
  BY DEF Typed, TypeOK, FeatureTypeOK
<1> QED
  BY <1>1 DEF JobAt

\* Resolve picks the branch of one repository.
LEMMA ResolveOwn ==
  ASSUME Typed, NEW h \in Handlers, NEW r \in Repos, Resolve(h, r)
  PROVE  \E j \in Jobs, pick \in pickBranch(r, job[h].origin) :
           /\ job' = [job EXCEPT ![h] = j]
           /\ j.kind = job[h].kind /\ j.ev = job[h].ev /\ j.env = job[h].env
           /\ j.todo = job[h].todo \ {r}
           /\ j.plan = [job[h].plan EXCEPT ![r] = pick]
<1>0. job[h] \in Jobs
  BY DEF Typed, TypeOK
<1>1. PICK pick \in pickBranch(r, job[h].origin) :
         job' = [job EXCEPT ![h] = [job[h] EXCEPT !.todo = job[h].todo \ {r}, !.plan[r] = pick]]
  BY DEF Resolve, Local
<1>2. pick \in Picks
  BY <1>0, PickTyped DEF Jobs
<1> DEFINE plan == [job[h].plan EXCEPT ![r] = pick]
           j == [job[h] EXCEPT !.todo = job[h].todo \ {r}, !.plan = plan]
<1>3. plan \in Plans
  BY <1>0, <1>2 DEF Jobs, Plans
<1>4. job' = [job EXCEPT ![h] = j]
  BY <1>0, <1>1 DEF Jobs
<1> HIDE DEF plan
<1>5. /\ j \in Jobs /\ j.kind = job[h].kind /\ j.ev = job[h].ev /\ j.env = job[h].env
      /\ j.todo = job[h].todo \ {r} /\ j.plan = plan
  BY <1>0, <1>3 DEF Jobs
<1> HIDE DEF j
<1> QED
  BY <1>4, <1>5 DEF plan

\* Handler h goes on to p with its job, or ends.
GoesTo(h, p, j) ==
  /\ pc' = [pc EXCEPT ![h] = p]
  /\ job' = [job EXCEPT ![h] = j]
  /\ \/ j.kind = job[h].kind /\ j.ev = job[h].ev /\ p # "idle"
     \/ j = NoJob /\ p = "idle"

\* What a handler does to its own place and locals.
LEMMA OwnStep ==
  ASSUME Typed, NEW h \in Handlers, Work(h), FeatureTypeOK', Len(envs') >= Len(envs)
  PROVE  \E p \in Pcs, j \in Jobs : GoesTo(h, p, j) /\ JobAt(p, j)'
<1>0. /\ pc \in [Handlers -> Pcs] /\ job \in [Handlers -> Jobs]
      /\ job[h] \in Jobs /\ JobAt(pc[h], job[h])
      /\ envs \in Seq(Environment) /\ Len(envs) \in Nat
      /\ Len(envs) <= MaxEnvs
      /\ DOMAIN envs \subseteq DOMAIN envs'
      /\ inbox' = inbox /\ inbox \in Histories
      /\ \A e \in DOMAIN inbox : inbox[e].action \in Actions /\ e # 0
  BY OthersKept, PayloadTyped DEF Typed, TypeOK, FeatureTypeOK, Handling
<1>1. ASSUME NEW p \in Pcs, p # "idle", pc' = [pc EXCEPT ![h] = p],
             NEW j \in Jobs, job' = [job EXCEPT ![h] = j],
             j.kind = job[h].kind, j.ev = job[h].ev, JobAt(p, j)'
      PROVE  \E q \in Pcs, k \in Jobs : GoesTo(h, q, k) /\ JobAt(q, k)'
  BY <1>1 DEF GoesTo
<1>2. CASE UpsertPR(h) \/ GetOrCreate(h) \/ BySlug(h) \/ AcquireWait(h) \/ GiveUp(h)
           \/ NoSuchEnv(h)
  <2>1. PICK p \in Pcs : /\ p # "idle"
                         /\ pc' = [pc EXCEPT ![h] = p] /\ UNCHANGED job
                         /\ JobAt(p, job[h])'
    BY <1>0, <1>2 DEF UpsertPR, GetOrCreate, BySlug, AcquireWait, GiveUp, NoSuchEnv, Go,
       JobAt, KindAt, Locking, Actions, Planners, Pcs
  <2> QED
    BY <1>0, <1>1, <2>1
<1>3. CASE ResolveFails(h) \/ MarkFailed(h) \/ Bump(h) \/ MarkResolving(h) \/ markDestroying(h)
  <2>1. PICK p \in Pcs : /\ p # "idle"
                         /\ pc' = [pc EXCEPT ![h] = p] /\ UNCHANGED job
                         /\ JobAt(p, job[h])'
    BY <1>0, <1>3 DEF ResolveFails, MarkFailed, Bump, MarkResolving, markDestroying, Go,
       JobAt, KindAt, Locking, Actions, Planners, Pcs
  <2> QED
    BY <1>0, <1>1, <2>1
<1>4. ASSUME NEW i \in 0..Len(envs), Find(h, i) \/ (i \in DOMAIN envs /\ FindByID(h, i))
      PROVE  \E q \in Pcs, k \in Jobs : GoesTo(h, q, k) /\ JobAt(q, k)'
  <2>1. PICK j \in Jobs :
           /\ job' = [job EXCEPT ![h] = j]
           /\ j.kind = job[h].kind /\ j.ev = job[h].ev /\ j.env = i /\ j.todo = Repos
    <3>1. job' = [job EXCEPT ![h] = [job[h] EXCEPT !.env = i, !.todo = Repos]]
      BY <1>4 DEF Find, FindByID, Local
    <3>2. i \in 0..MaxEnvs
      BY <1>0
    <3> DEFINE new == [job[h] EXCEPT !.env = i, !.todo = Repos]
    <3>3. /\ new \in Jobs
          /\ new.kind = job[h].kind /\ new.ev = job[h].ev /\ new.env = i /\ new.todo = Repos
      BY <1>0, <3>2 DEF Jobs
    <3> QED
      BY <3>1, <3>3
  <2>2. pc[h] = "find"
    BY <1>4 DEF Find, FindByID, Go
  <2>3. i # 0 => i \in DOMAIN envs'
    BY <1>0
  <2>4. PICK p \in Pcs : p # "idle" /\ pc' = [pc EXCEPT ![h] = p] /\ JobAt(p, j)'
    <3>1. CASE Find(h, i) /\ i = 0
      BY <1>0, <2>1, <2>2, <3>1 DEF Find, Go, AfterNotFound,
         JobAt, KindAt, Locking, Actions, Planners, Pcs
    <3>2. CASE Find(h, i) /\ i # 0
      BY <1>0, <2>1, <2>2, <2>3, <3>2 DEF Find, Go, AfterFound,
         JobAt, KindAt, Locking, Actions, Planners, Pcs
    <3>3. CASE i \in DOMAIN envs /\ FindByID(h, i)
      BY <1>0, <2>1, <2>2, <2>3, <3>3 DEF FindByID, Go,
         JobAt, KindAt, Locking, Actions, Planners, Pcs
    <3> QED
      BY <1>4, <3>1, <3>2, <3>3
  <2> QED
    BY <1>1, <2>1, <2>2, <2>4
<1>5. CASE CreateEnv(h)
  <2>1. pc' = [pc EXCEPT ![h] = "resolve"] /\ pc[h] = "create" /\ Create(job[h].kind # "create")
    BY <1>5 DEF CreateEnv, Go
  <2>2. Len(envs) + 1 \in 0..MaxEnvs /\ Len(envs) + 1 \in DOMAIN envs'
    BY <1>0, <2>1 DEF Create
  <2>3. PICK j \in Jobs :
           /\ job' = [job EXCEPT ![h] = j]
           /\ j.kind = job[h].kind /\ j.ev = job[h].ev /\ j.env = Len(envs) + 1
    <3>1. job' = [job EXCEPT ![h] = [job[h] EXCEPT !.env = Len(envs) + 1]]
      BY <1>5 DEF CreateEnv, Local
    <3> DEFINE new == [job[h] EXCEPT !.env = Len(envs) + 1]
    <3>2. new \in Jobs /\ new.kind = job[h].kind /\ new.ev = job[h].ev /\ new.env = Len(envs) + 1
      BY <1>0, <2>2 DEF Jobs
    <3> QED
      BY <3>1, <3>2
  <2>4. JobAt("resolve", j)'
    BY <1>0, <2>1, <2>2, <2>3 DEF JobAt, KindAt, Locking
  <2> QED
    BY <1>1, <2>1, <2>3, <2>4 DEF Pcs
<1>6. CASE FindBranch(h)
  <2>1. pc' = [pc EXCEPT ![h] = "resolve"] /\ pc[h] = "branch"
    BY <1>6 DEF FindBranch, Go
  <2>2. Payload(h).pr \in PRs
    BY <1>0, <2>1, PayloadTyped DEF Payload, JobAt, KindAt
  <2>3. FindOpenByBranch(Payload(h).pr) \in Picks
    <3> DEFINE p == Payload(h).pr
    <3>1. CASE prs[p].state = "open"
      <4>1. prs[p].sha \in 0..MaxCommits /\ prs[p].sha # 0
        BY <2>2, <3>1 DEF Typed, HeadsKnown, TypeOK, FeatureTypeOK, PullRequest
      <4>2. prs[p].sha \in 1..MaxCommits
        BY <4>1
      <4> QED
        BY <2>2, <3>1, <4>2 DEF FindOpenByBranch, Picks
    <3>2. CASE prs[p].state # "open"
      BY <3>2 DEF FindOpenByBranch, Picks
    <3> QED
      BY <3>1, <3>2
  <2>4. PICK j \in Jobs :
           /\ job' = [job EXCEPT ![h] = j]
           /\ j.kind = job[h].kind /\ j.ev = job[h].ev /\ j.env = job[h].env
    <3> DEFINE o == FindOpenByBranch(Payload(h).pr)
               new == [job[h] EXCEPT !.origin = o]
    <3>1. job' = [job EXCEPT ![h] = new]
      BY <1>6 DEF FindBranch, Local
    <3> HIDE DEF o
    <3>2. new \in Jobs /\ new.kind = job[h].kind /\ new.ev = job[h].ev /\ new.env = job[h].env
      BY <1>0, <2>3 DEF Jobs, o
    <3> QED
      BY <3>1, <3>2
  <2>5. JobAt("resolve", j)'
    BY <1>0, <2>1, <2>4 DEF JobAt, KindAt, Planners
  <2> QED
    BY <1>1, <2>1, <2>4, <2>5 DEF Pcs
<1>7. ASSUME NEW r \in Repos, Resolve(h, r)
      PROVE  \E q \in Pcs, k \in Jobs : GoesTo(h, q, k) /\ JobAt(q, k)'
  <2>1. PICK j \in Jobs, pick \in pickBranch(r, job[h].origin) :
           /\ job' = [job EXCEPT ![h] = j]
           /\ j.kind = job[h].kind /\ j.ev = job[h].ev /\ j.env = job[h].env
           /\ j.todo = job[h].todo \ {r}
           /\ j.plan = [job[h].plan EXCEPT ![r] = pick]
    BY <1>7, ResolveOwn
  <2>2. PICK p \in {"bump", "resolve"} :
           /\ pc' = [pc EXCEPT ![h] = p] /\ pc[h] = "resolve"
           /\ p = "bump" => j.todo = {}
    BY <1>7, <2>1 DEF Resolve, Go
  <2>3. JobAt(p, j)'
    BY <1>0, <2>1, <2>2 DEF JobAt, KindAt, Planners
  <2> QED
    BY <1>1, <2>1, <2>2, <2>3 DEF Pcs
<1>8. CASE ReturnNil(h) \/ ReturnError(h) \/ MarkProcessed(h)
  <2>1. NoJob \in Jobs /\ NoJob.kind = "none" /\ NoJob.ev = 0
    BY DEF NoJob, NoPlan, Jobs, Plans, Picks
  <2>2. CASE ReturnNil(h) /\ job[h].ev # 0
    <3>1. pc' = [pc EXCEPT ![h] = "mark"] /\ job' = job /\ pc[h] = "ok"
      BY <1>0, <2>2 DEF ReturnNil, Return, Go, Local
    <3>2. JobAt("mark", job[h])'
      BY <1>0, <2>2, <3>1 DEF JobAt, KindAt, Planners
    <3> QED
      BY <1>0, <1>1, <3>1, <3>2 DEF Pcs
  <2>3. CASE ~(ReturnNil(h) /\ job[h].ev # 0)
    <3>1. pc' = [pc EXCEPT ![h] = "idle"] /\ job' = [job EXCEPT ![h] = NoJob]
      BY <1>8, <2>3 DEF ReturnNil, ReturnError, MarkProcessed, Return, Go, Local
    <3>2. JobAt("idle", NoJob)'
      BY <1>0, <2>1 DEF JobAt, KindAt, Planners
    <3> QED
      BY <2>1, <3>1, <3>2 DEF Pcs, GoesTo
  <2> QED
    BY <2>2, <2>3
<1> QED
  BY <1>2, <1>3, <1>4, <1>5, <1>6, <1>7, <1>8 DEF Work

\* Which key the lock can pass to.
LEMMA LockPasses ==
  ASSUME Typed, NEW h \in Handlers, Work(h)
  PROVE  /\ event' \in [DOMAIN inbox -> [attempts : 0..MaxAttempts, processed : BOOLEAN]]
         /\ \/ lock' = lock
            \/ lock' = Nobody /\ lock = h
            \/ lock' = h /\ pc[h] = "lock" /\ pc'[h] = "find" /\ lock = Nobody
         /\ pc'[h] \in {"idle", "mark"} => lock' # h
         /\ unlocked' \in Nat
         /\ NoFault \/ \E kind : Fault(kind)
<1>0. /\ pc \in [Handlers -> Pcs]
      /\ event \in [DOMAIN inbox -> [attempts : 0..MaxAttempts, processed : BOOLEAN]]
      /\ unlocked \in Nat
      /\ lock = h => pc[h] # "mark"
  BY DEF Typed, TypeOK, Holding
<1>1. CASE UpsertPR(h) \/ GetOrCreate(h) \/ BySlug(h) \/ AcquireWait(h) \/ GiveUp(h)
           \/ NoSuchEnv(h) \/ CreateEnv(h) \/ FindBranch(h)
  BY <1>0, <1>1 DEF UpsertPR, GetOrCreate, BySlug, AcquireWait, GiveUp, NoSuchEnv,
     CreateEnv, FindBranch, Go
<1>2. CASE ResolveFails(h) \/ MarkFailed(h) \/ Bump(h) \/ MarkResolving(h)
           \/ markDestroying(h)
  BY <1>0, <1>2 DEF ResolveFails, MarkFailed, Bump, MarkResolving, markDestroying, Go
<1>3. CASE ReturnNil(h) \/ ReturnError(h)
  BY <1>0, <1>3, KeyAssumption DEF ReturnNil, ReturnError, Return, Go
<1>4. CASE \E i \in 0..Len(envs) : Find(h, i)
  BY <1>0, <1>4 DEF Find, Go, AfterFound, AfterNotFound
<1>5. CASE (\E i \in DOMAIN envs : FindByID(h, i)) \/ (\E r \in Repos : Resolve(h, r))
  BY <1>0, <1>5 DEF FindByID, Resolve, Go
<1>6. CASE MarkProcessed(h)
  BY <1>0, <1>6 DEF MarkProcessed, Go
<1> QED
  BY <1>1, <1>2, <1>3, <1>4, <1>5, <1>6 DEF Work

\* The rows are empty and every handler is idle.
LEMMA TypedInit == Init => Typed
<1> SUFFICES ASSUME Init PROVE Typed
  OBVIOUS
<1>1. FeatureTypeOK /\ HeadsKnown
  <2>1. [sha |-> 0, state |-> "none"] \in PullRequest
    BY DEF PullRequest
  <2>2. prs = [p \in PRs |-> [sha |-> 0, state |-> "none"]] /\ feature = FALSE /\ envs = <<>>
    BY DEF Init, FeatureInit
  <2>3. prs \in [PRs -> PullRequest] /\ HeadsKnown
    BY <2>1, <2>2 DEF HeadsKnown
  <2>4. envs \in Seq(Environment) /\ Len(envs) = 0
    BY <2>2
  <2> QED
    BY <2>2, <2>3, <2>4, BoundsAssumption, 0 <= MaxEnvs DEF FeatureTypeOK
<1>2. NoJob \in Jobs /\ NoJob.kind = "none" /\ NoJob.ev = 0
  BY DEF NoJob, NoPlan, Jobs, Plans, Picks
<1>3. /\ pc \in [Handlers -> Pcs] /\ job \in [Handlers -> Jobs]
      /\ \A h \in Handlers : pc[h] = "idle" /\ job[h] = NoJob
  BY <1>2 DEF Init, Pcs
<1>4. inbox \in Histories /\ \A e \in DOMAIN inbox : e # 0
  BY PayloadTyped DEF Init
<1>5. Handling /\ Holding
  BY <1>2, <1>3, <1>4, KeyAssumption DEF Init, Handling, Holding, JobAt, KindAt, Planners
<1>6. event \in [DOMAIN inbox -> [attempts : 0..MaxAttempts, processed : BOOLEAN]]
  BY DEF Init
<1> QED
  BY <1>1, <1>2, <1>3, <1>4, <1>5, <1>6 DEF Init, Typed, TypeOK, FaultsInit, FaultsTypeOK

\* Types, the places of handlers, the lock and the heads survive every step.
LEMMA TypedStep == Typed /\ [Next]_vars => Typed'
<1> SUFFICES ASSUME Typed, [Next]_vars PROVE Typed'
  OBVIOUS
<1> DEFINE Events == [DOMAIN inbox -> [attempts : 0..MaxAttempts, processed : BOOLEAN]]
           Control == /\ inbox' = inbox
                      /\ event' \in Events
                      /\ lock' \in Handlers \cup {Nobody, Orphan}
                      /\ calls' \in 0..MaxCalls /\ unlocked' \in Nat
                      /\ shared' \subseteq DOMAIN inbox
                      /\ FaultsTypeOK'
           Places == /\ pc' \in [Handlers -> Pcs] /\ job' \in [Handlers -> Jobs]
                     /\ Handling' /\ Holding'
<1>0. /\ pc \in [Handlers -> Pcs] /\ job \in [Handlers -> Jobs]
      /\ inbox \in Histories /\ event \in Events
      /\ lock \in Handlers \cup {Nobody, Orphan}
      /\ calls \in 0..MaxCalls /\ unlocked \in Nat
      /\ shared \subseteq DOMAIN inbox /\ FaultsTypeOK
      /\ Handling /\ Holding
  BY DEF Typed, TypeOK
<1>1. FeatureTypeOK' /\ HeadsKnown' /\ Len(envs') >= Len(envs)
  BY RowsStep
<1>2. ASSUME NoFault \/ \E kind : Fault(kind)
      PROVE  FaultsTypeOK'
  BY <1>0, <1>2 DEF NoFault, Fault, FaultsTypeOK
<1>3. ASSUME NEW h \in Handlers, NEW p \in Pcs, NEW j \in Jobs, inbox' = inbox,
             pc' = [pc EXCEPT ![h] = p], job' = [job EXCEPT ![h] = j], JobAt(p, j)'
      PROVE  /\ pc' \in [Handlers -> Pcs] /\ job' \in [Handlers -> Jobs]
             /\ Handling'
  <2>1. ASSUME NEW g \in Handlers PROVE JobAt(pc[g], job[g])'
    <3>1. CASE g = h
      <4>1. pc'[g] = p /\ job'[g] = j
        BY <1>0, <1>3, <3>1
      <4> QED
        BY <1>3, <4>1 DEF JobAt, KindAt
    <3>2. CASE g # h
      <4>1. pc'[g] = pc[g] /\ job'[g] = job[g]
        BY <1>0, <1>3, <3>2
      <4>2. DOMAIN envs \subseteq DOMAIN envs'
        BY <1>1 DEF Typed, TypeOK, FeatureTypeOK
      <4>3. JobAt(pc[g], job[g])
        BY <1>0 DEF Handling
      <4> QED
        BY <1>3, <4>1, <4>2, <4>3 DEF JobAt
    <3> QED
      BY <3>1, <3>2
  <2> QED
    BY <1>0, <1>3, <2>1 DEF Handling
<1>4. ASSUME NEW h \in Handlers, Work(h)
      PROVE  Control /\ Places
  <2>1. UNCHANGED <<inbox, calls, shared>>
    BY <1>4, OthersKept
  <2>2. PICK p \in Pcs, j \in Jobs : GoesTo(h, p, j) /\ JobAt(p, j)'
    BY <1>1, <1>4, OwnStep
  <2>3. pc' \in [Handlers -> Pcs] /\ job' \in [Handlers -> Jobs] /\ Handling'
    BY <1>3, <2>1, <2>2 DEF GoesTo
  <2>4. /\ event' \in Events
        /\ \/ lock' = lock
           \/ lock' = Nobody /\ lock = h
           \/ lock' = h /\ pc[h] = "lock" /\ pc'[h] = "find"
        /\ pc'[h] \in {"idle", "mark"} => lock' # h
        /\ unlocked' \in Nat
    BY <1>4, LockPasses
  <2>5. Holding'
    <3> SUFFICES ASSUME NEW g \in Handlers, lock' = g
                 PROVE  job'[g].kind \in Locking /\ pc'[g] # "mark"
      BY DEF Holding
    <3>1. CASE g # h
      BY <1>0, <2>2, <2>4, <3>1, KeyAssumption DEF Holding, GoesTo
    <3>2. CASE g = h
      <4>1. pc'[h] = p /\ job'[h] = j /\ p \notin {"idle", "mark"}
        BY <1>0, <2>2, <2>4, <3>2 DEF GoesTo
      <4>2. job'[h].kind = job[h].kind
        BY <2>2, <4>1 DEF GoesTo
      <4>3. job[h].kind \in Locking
        BY <1>0, <2>4, <3>2, KeyAssumption DEF Holding, Handling, JobAt, KindAt
      <4> QED
        BY <3>2, <4>1, <4>2, <4>3
    <3> QED
      BY <3>1, <3>2
  <2>6. FaultsTypeOK'
    BY <1>2, <1>4, LockPasses
  <2> QED
    BY <1>0, <2>1, <2>3, <2>4, <2>5, <2>6
<1>5. ASSUME NEW h \in Handlers, NEW new, NEW next \in Pcs \ {"idle", "mark"}, Start(h, new, next),
             new \in Jobs, JobAt(next, new)
      PROVE  Places /\ UNCHANGED <<inbox, lock>> /\ unlocked' \in Nat /\ FaultsTypeOK'
  <2>1. /\ UNCHANGED <<inbox, envs, lock>> /\ unlocked' \in Nat /\ FaultsTypeOK'
        /\ pc[h] = "idle"
        /\ pc' = [pc EXCEPT ![h] = next] /\ job' = [job EXCEPT ![h] = new]
    BY <1>0, <1>2, <1>5 DEF Start, featureVars
  <2>2. JobAt(next, new)'
    BY <1>5, <2>1 DEF JobAt
  <2>3. pc' \in [Handlers -> Pcs] /\ job' \in [Handlers -> Jobs] /\ Handling'
    BY <1>3, <1>5, <2>1, <2>2
  <2>4. lock # h
    BY <1>0, <2>1 DEF Holding, Handling, JobAt, KindAt, Locking
  <2>5. Holding'
    BY <1>0, <2>1, <2>4 DEF Holding
  <2> QED
    BY <2>1, <2>3, <2>5
<1>6. ASSUME NEW h \in Handlers, NEW e \in DOMAIN inbox, handle(h, e)
      PROVE  Control /\ Places
  <2> DEFINE payload == inbox[e]
             origin == IF payload.action = "push" THEN None ELSE <<payload.pr, payload.sha>>
             new == [NoJob EXCEPT !.kind = payload.action, !.ev = e, !.origin = origin]
             next == IF payload.action = "push" THEN "feature" ELSE "upsert"
  <2>1. payload.action \in Actions /\ payload.pr \in PRs /\ payload.sha \in 1..MaxCommits /\ e \in Nat \ {0}
    BY <1>0, PayloadTyped
  <2>2. origin \in Picks
    BY <2>1 DEF Picks
  <2>3. Start(h, new, next)
    BY <1>6 DEF handle
  <2>4. next \in Pcs \ {"idle", "mark"}
    BY DEF Pcs
  <2>5. new \in Jobs /\ new.kind = inbox[e].action /\ new.ev = e
    <3>1. ASSUME NEW kind \in Actions, NEW o \in Picks
          PROVE  LET j == [NoJob EXCEPT !.kind = kind, !.ev = e, !.origin = o]
                 IN  j \in Jobs /\ j.kind = kind /\ j.ev = e
      <4>1. NoJob \in Jobs
        BY DEF NoJob, NoPlan, Jobs, Plans, Picks
      <4>2. ASSUME NEW j \in Jobs
            PROVE  LET k == [j EXCEPT !.kind = kind, !.ev = e, !.origin = o]
                   IN  k \in Jobs /\ k.kind = kind /\ k.ev = e
        BY <2>1 DEF Jobs
      <4> QED
        BY <4>1, <4>2
    <3> HIDE DEF origin
    <3> QED
      BY <2>1, <2>2, <3>1
  <2>6. JobAt(next, new)
    <3> HIDE DEF new
    <3> QED
      BY <2>1, <2>5 DEF JobAt, KindAt, Actions, Locking, Planners
  <2> HIDE DEF new, next
  <2>7. Places /\ UNCHANGED <<inbox, lock>> /\ unlocked' \in Nat /\ FaultsTypeOK'
    BY <1>5, <2>3, <2>4, <2>5, <2>6
  <2>8. event' \in Events /\ shared' \subseteq DOMAIN inbox /\ calls' = calls
    <3>1. /\ event' = [event EXCEPT ![e].attempts = event[e].attempts + 1]
          /\ event[e].attempts < MaxAttempts
      BY <1>6 DEF handle
    <3>2. event' \in Events
      <4> DEFINE counted == [event[e] EXCEPT !.attempts = event[e].attempts + 1]
      <4>1. event[e] \in [attempts : 0..MaxAttempts, processed : BOOLEAN]
        BY <1>0
      <4>2. counted \in [attempts : 0..MaxAttempts, processed : BOOLEAN]
        BY <3>1, <4>1
      <4>3. event' = [event EXCEPT ![e] = counted]
        BY <3>1
      <4> HIDE DEF counted
      <4> QED
        BY <1>0, <4>2, <4>3
    <3>3. shared' \subseteq shared \cup {e} /\ calls' = calls
      BY <1>6 DEF handle
    <3> QED
      BY <1>0, <3>2, <3>3
  <2> QED
    BY <1>0, <2>7, <2>8
<1>7. ASSUME NEW h \in Handlers, NEW kind \in Calls, call(h, kind)
      PROVE  Control /\ Places
  <2> DEFINE new == [NoJob EXCEPT !.kind = kind]
             next == IF kind = "create" THEN "feature" ELSE "find"
  <2>1. kind \in {"create", "restart"} /\ \A e \in DOMAIN inbox : e # 0
    BY <1>0, PayloadTyped, CallsAssumption
  <2>2. Start(h, new, next)
    BY <1>7 DEF call
  <2>3. new \in Jobs /\ new.kind = kind /\ new.ev = 0
    BY <2>1 DEF NoJob, NoPlan, Jobs, Plans, Picks
  <2>4. JobAt(next, new)
    <3> HIDE DEF new
    <3> QED
      BY <2>1, <2>3 DEF JobAt, KindAt, Actions, Locking, Planners
  <2>5. next \in Pcs \ {"idle", "mark"}
    BY DEF Pcs
  <2> HIDE DEF new, next
  <2>6. Places /\ UNCHANGED <<inbox, lock>> /\ unlocked' \in Nat /\ FaultsTypeOK'
    BY <1>5, <2>2, <2>3, <2>4, <2>5
  <2>7. event' \in Events /\ shared' \subseteq DOMAIN inbox /\ calls' \in 0..MaxCalls
    BY <1>0, <1>7, AttemptsAssumption DEF call
  <2> QED
    BY <1>0, <2>6, <2>7
<1>8. ASSUME NEW h \in Handlers, Crash(h)
      PROVE  Control /\ Places
  <2>1. NoJob \in Jobs /\ NoJob.kind = "none" /\ NoJob.ev = 0
    BY DEF NoJob, NoPlan, Jobs, Plans, Picks
  <2>2. \A e \in DOMAIN inbox : e # 0
    BY <1>0, PayloadTyped
  <2>3. JobAt("idle", NoJob)'
    BY <2>1, <2>2, <1>8 DEF JobAt, KindAt, Planners, Crash
  <2>4. pc' \in [Handlers -> Pcs] /\ job' \in [Handlers -> Jobs] /\ Handling'
    BY <1>3, <1>8, <2>1, <2>3 DEF Crash, Local, Pcs
  <2>5. Holding'
    BY <1>0, <1>8, <2>1, KeyAssumption DEF Crash, Local, Holding
  <2>6. FaultsTypeOK'
    BY <1>2, <1>8 DEF Crash
  <2> QED
    BY <1>0, <1>8, <2>4, <2>5, <2>6 DEF Crash
<1>9. ASSUME \/ OrphanExpires \/ UNCHANGED vars
             \/ \E i \in DOMAIN envs : TearDown(i)
             \/ \E h \in Handlers : LeaseExpires(h)
      PROVE  Control /\ Places
  <2>1. UNCHANGED <<inbox, pc, job, event, calls, shared>> /\ lock' \in {lock, Nobody} /\ unlocked' \in Nat
    BY <1>0, <1>9 DEF OrphanExpires, TearDown, LeaseExpires, vars, handlerVars
  <2>2. FaultsTypeOK'
    BY <1>0, <1>2, <1>9 DEF OrphanExpires, TearDown, LeaseExpires, vars, FaultsTypeOK
  <2>3. ASSUME NEW g \in Handlers PROVE JobAt(pc[g], job[g])'
    <3>1. DOMAIN envs \subseteq DOMAIN envs'
      BY <1>1 DEF Typed, TypeOK, FeatureTypeOK
    <3>2. JobAt(pc[g], job[g])
      BY <1>0 DEF Handling
    <3> QED
      BY <2>1, <3>1, <3>2 DEF JobAt
  <2>4. Handling' /\ Holding'
    BY <1>0, <2>1, <2>3, KeyAssumption DEF Handling, Holding
  <2> QED
    BY <1>0, <2>1, <2>2, <2>4
<1>10. Control /\ Places
  <2> HIDE DEF Control, Places
  <2> QED
    BY <1>4, <1>6, <1>7, <1>8, <1>9 DEF Next
<1>11. \A h \in Handlers :
         /\ pc'[h] \in {"branch", "resolve", "bump", "state", "unplanned", "destroy"}
               => job'[h].env \in DOMAIN envs'
         /\ job'[h].ev # 0 => job'[h].ev \in DOMAIN inbox'
  BY <1>10 DEF Handling, JobAt, Planners
<1> QED
  BY <1>0, <1>1, <1>10, <1>11 DEF Typed, TypeOK

\* The variables and locals stay within their types, and every handler of a kind
\* that calls for them holds what its next call needs.
THEOREM Types == Spec => []TypeOK
<1>1. Typed => TypeOK
  BY DEF Typed
<1> QED
  BY <1>1, TypedInit, TypedStep, PTL DEF Spec

-----------------------------------------------------------------------------
(* Environments are paid for. Each live environment beyond the first is    *)
(* owed to a handler that plans without the lock, and so is each that such *)
(* a handler can still create or revive; one that holds the lock finds all *)
(* the others at work, or none.                                            *)

\* h looks for the environment, or plans one, without the lock.
Stray(h) ==
  \/ pc[h] = "feature" /\ job[h].kind \in Unlocked
  \/ pc[h] \in Planners \cup {"find", "create"} /\ job[h].kind # "closed" /\ lock # h

\* h is going to create an environment, or may take up one that was torn down.
Coming(h) == pc[h] = "create" \/ (pc[h] \in {"feature", "find"} /\ Stray(h))

\* Environment i is not torn down, or a handler can still revive it.
Standing(i) ==
  \/ envs[i].state # "destroyed"
  \/ \E h \in Handlers : pc[h] \in Planners /\ job[h].env = i

Strays == {h \in Handlers : Stray(h)}
Comers == {h \in Handlers : Coming(h)}
Stands == {i \in DOMAIN envs : Standing(i)}

StraysPaid == Cardinality(Strays) <= unlocked

EnvsPaid == Cardinality(Stands) + Cardinality(Comers) <= 1 + unlocked

\* Sets that grow only when they are paid for stay paid for.
LEMMA Paid ==
  ASSUME NEW N, NEW B, IsFiniteSet(N), IsFiniteSet(B), NEW N2, NEW B2,
         NEW u \in Nat, NEW u2 \in Nat, Cardinality(N) + Cardinality(B) <= 1 + u,
         \/ N2 \subseteq N /\ B2 \subseteq B /\ u2 >= u
         \/ \E x : N2 \subseteq N \cup {x} /\ B2 \subseteq B /\ u2 >= u + 1
         \/ \E x : N2 \subseteq N /\ B2 \subseteq B \cup {x} /\ u2 >= u + 1
         \/ \E x : \E h \in B : N2 \subseteq N \cup {x} /\ B2 \subseteq B \ {h} /\ u2 >= u
  PROVE  Cardinality(N2) + Cardinality(B2) <= 1 + u2
<1>0. Cardinality(N) \in Nat /\ Cardinality(B) \in Nat
  BY FS_CardinalityType
<1>1. ASSUME NEW S, NEW T, IsFiniteSet(S), T \subseteq S
      PROVE  Cardinality(T) <= Cardinality(S) /\ Cardinality(S) \in Nat /\ Cardinality(T) \in Nat
  BY <1>1, FS_Subset, FS_CardinalityType
<1>2. ASSUME NEW S, NEW T, NEW x, IsFiniteSet(S), T \subseteq S \cup {x}
      PROVE  Cardinality(T) <= Cardinality(S) + 1 /\ Cardinality(T) \in Nat
  <2>1. Cardinality(S) \in Nat
    BY <1>2, FS_CardinalityType
  <2>2. /\ IsFiniteSet(S \cup {x})
        /\ Cardinality(S \cup {x}) = IF x \in S THEN Cardinality(S) ELSE Cardinality(S) + 1
    BY <1>2, FS_AddElement
  <2>3. Cardinality(S \cup {x}) <= Cardinality(S) + 1
    BY <2>1, <2>2
  <2> QED
    BY <1>1, <1>2, <2>1, <2>2, <2>3
<1>3. ASSUME NEW h \in B, B2 \subseteq B \ {h}
      PROVE  Cardinality(B2) <= Cardinality(B) - 1 /\ Cardinality(B2) \in Nat
  <2>1. IsFiniteSet(B \ {h}) /\ Cardinality(B \ {h}) = Cardinality(B) - 1
    BY <1>3, FS_RemoveElement
  <2> QED
    BY <1>1, <1>3, <2>1
<1>4. CASE N2 \subseteq N /\ B2 \subseteq B /\ u2 >= u
  BY <1>0, <1>1, <1>4
<1>5. ASSUME NEW x, N2 \subseteq N \cup {x}, B2 \subseteq B, u2 >= u + 1
      PROVE  Cardinality(N2) + Cardinality(B2) <= 1 + u2
  <2>1. Cardinality(N2) <= Cardinality(N) + 1 /\ Cardinality(N2) \in Nat
    BY <1>2, <1>5
  <2>2. Cardinality(B2) <= Cardinality(B) /\ Cardinality(B2) \in Nat
    BY <1>1, <1>5
  <2> QED
    BY <1>0, <1>5, <2>1, <2>2
<1>6. ASSUME NEW x, N2 \subseteq N, B2 \subseteq B \cup {x}, u2 >= u + 1
      PROVE  Cardinality(N2) + Cardinality(B2) <= 1 + u2
  <2>1. Cardinality(B2) <= Cardinality(B) + 1 /\ Cardinality(B2) \in Nat
    BY <1>2, <1>6
  <2>2. Cardinality(N2) <= Cardinality(N) /\ Cardinality(N2) \in Nat
    BY <1>1, <1>6
  <2> QED
    BY <1>0, <1>6, <2>1, <2>2
<1>7. ASSUME NEW x, NEW h \in B, N2 \subseteq N \cup {x}, B2 \subseteq B \ {h}, u2 >= u
      PROVE  Cardinality(N2) + Cardinality(B2) <= 1 + u2
  <2>1. Cardinality(N2) <= Cardinality(N) + 1 /\ Cardinality(N2) \in Nat
    BY <1>2, <1>7
  <2>2. Cardinality(B2) <= Cardinality(B) - 1 /\ Cardinality(B2) \in Nat
    BY <1>3, <1>7
  <2> QED
    BY <1>0, <1>7, <2>1, <2>2
<1> QED
  BY <1>4, <1>5, <1>6, <1>7

\* They are finite sets.
LEMMA PaidFinite ==
  ASSUME Typed
  PROVE  IsFiniteSet(Strays) /\ IsFiniteSet(Comers) /\ IsFiniteSet(Stands) /\ IsFiniteSet(Live)
<1>1. IsFiniteSet(Strays) /\ IsFiniteSet(Comers)
  BY FS_Subset, HandlersAssumption DEF Strays, Comers
<1>2. IsFiniteSet(1..Len(envs)) /\ DOMAIN envs = 1..Len(envs)
  BY FS_Interval DEF Typed, TypeOK, FeatureTypeOK
<1>3. IsFiniteSet(Stands) /\ IsFiniteSet(Live)
  BY <1>2, FS_Subset DEF Stands, Live
<1> QED
  BY <1>1, <1>3

\* A step of h makes nobody else stray, nor revives what nobody has.
LEMMA OthersStray ==
  ASSUME Typed, NEW h \in Handlers,
         \A g \in Handlers \ {h} : pc'[g] = pc[g] /\ job'[g] = job[g],
         lock' = lock \/ lock \in {h, Nobody, Orphan}
  PROVE  /\ \A g \in Handlers \ {h} : (Stray(g)' => Stray(g)) /\ (Coming(g)' => Coming(g))
         /\ (Stray(h)' => Stray(h)) => Strays' \subseteq Strays
         /\ Strays' \subseteq Strays \cup {h}
         /\ (Coming(h)' => Coming(h)) => Comers' \subseteq Comers
         /\ Comers' \subseteq Comers \cup {h}
         /\ ~Coming(h)' => Comers' \subseteq Comers \ {h}
<1>1. ASSUME NEW g \in Handlers \ {h}
      PROVE  (Stray(g)' => Stray(g)) /\ (Coming(g)' => Coming(g))
  <2>1. pc'[g] = pc[g] /\ job'[g] = job[g] /\ (lock' # g => lock' = lock \/ lock # g)
    OBVIOUS
  <2>2. lock' = lock \/ lock # g
    BY KeyAssumption
  <2> QED
    BY <2>1, <2>2 DEF Stray, Coming
<1> QED
  BY <1>1 DEF Strays, Comers

\* Who is about to revive an environment stays so while another one moves.
LEMMA OthersStand ==
  ASSUME Typed, NEW h \in Handlers,
         \A g \in Handlers \ {h} : pc'[g] = pc[g] /\ job'[g] = job[g],
         DOMAIN envs' = DOMAIN envs,
         \A i \in DOMAIN envs : envs'[i].state # "destroyed" => Standing(i),
         pc'[h] \in Planners => Standing(job'[h].env)
  PROVE  Stands' \subseteq Stands
<1>1. ASSUME NEW i \in DOMAIN envs, Standing(i)'
      PROVE  Standing(i)
  BY <1>1 DEF Standing
<1> QED
  BY <1>1 DEF Stands

\* A handler's step either stays within what is there, or ...
StaysWithin ==
  Strays' \subseteq Strays /\ Comers' \subseteq Comers /\ Stands' \subseteq Stands /\ unlocked' >= unlocked

\* ... goes astray, or revives an environment, and is paid for, or ...
PaysFor(x) ==
  /\ unlocked' = unlocked + 1
  /\ \/ Strays' \subseteq Strays \cup {x} /\ Comers' \subseteq Comers \cup {x} /\ Stands' \subseteq Stands
     \/ Strays' \subseteq Strays /\ Comers' \subseteq Comers /\ Stands' \subseteq Stands \cup {x}

\* ... takes up the environment it came for, or ...
TakesUp(h, i) ==
  /\ h \in Comers /\ Comers' \subseteq Comers \ {h}
  /\ Strays' \subseteq Strays /\ Stands' \subseteq Stands \cup {i} /\ unlocked' >= unlocked

\* ... has the lock and finds every environment torn down.
FindsNone(h) ==
  /\ lock = h /\ pc[h] = "find"
  /\ \A i \in DOMAIN envs : envs[i].state = "destroyed"
  /\ Strays' \subseteq Strays /\ Stands' \subseteq Stands /\ Comers' \subseteq Comers \cup {h}
  /\ unlocked' >= unlocked

\* A step of a handler pays for each stray planner it makes.
LEMMA HandlerPays ==
  ASSUME Typed, NEW h \in Handlers, Work(h)
  PROVE  \/ StaysWithin \/ FindsNone(h)
         \/ \E x : PaysFor(x) \/ TakesUp(h, x)
<1>0. /\ pc \in [Handlers -> Pcs] /\ job \in [Handlers -> Jobs]
      /\ envs \in Seq(Environment) /\ Len(envs) <= MaxEnvs
      /\ DOMAIN envs = 1..Len(envs) /\ Len(envs) \in Nat
      /\ unlocked \in Nat
      /\ JobAt(pc[h], job[h])
      /\ lock = h => job[h].kind \in Locking
      /\ Nobody # h
  BY KeyAssumption DEF Typed, TypeOK, FeatureTypeOK, Handling, Holding
<1>1. /\ \A g \in Handlers \ {h} : pc'[g] = pc[g] /\ job'[g] = job[g]
      /\ lock' = lock \/ lock \in {h, Nobody, Orphan}
  BY OthersKept, LockPasses
<1>2. /\ (Stray(h)' => Stray(h)) => Strays' \subseteq Strays
      /\ Strays' \subseteq Strays \cup {h}
      /\ (Coming(h)' => Coming(h)) => Comers' \subseteq Comers
      /\ Comers' \subseteq Comers \cup {h}
      /\ ~Coming(h)' => Comers' \subseteq Comers \ {h}
  BY <1>1, OthersStray
<1>3. ASSUME UNCHANGED envs, pc'[h] \in Planners => Standing(job'[h].env)
      PROVE  Stands' \subseteq Stands
  BY <1>1, <1>3, OthersStand DEF Standing
<1>4. CASE UpsertPR(h) \/ GetOrCreate(h) \/ BySlug(h) \/ AcquireWait(h) \/ GiveUp(h)
           \/ NoSuchEnv(h) \/ ReturnNil(h) \/ ReturnError(h) \/ MarkProcessed(h)
  <2>1. UNCHANGED <<envs, unlocked>> /\ pc'[h] \notin Planners
    BY <1>0, <1>4 DEF UpsertPR, GetOrCreate, BySlug, AcquireWait, GiveUp, NoSuchEnv,
       ReturnNil, ReturnError, MarkProcessed, Return, Go, featureVars, Planners
  <2>2. (Stray(h)' => Stray(h)) /\ (Coming(h)' => Coming(h))
    <3>1. CASE UpsertPR(h) \/ GiveUp(h) \/ NoSuchEnv(h)
      BY <1>0, <3>1 DEF UpsertPR, GiveUp, NoSuchEnv, Go, Stray, Coming, Planners, JobAt,
         KindAt, Locking, Unlocked
    <3>2. CASE ReturnNil(h) \/ ReturnError(h) \/ MarkProcessed(h)
      BY <1>0, <3>2 DEF ReturnNil, ReturnError, MarkProcessed, Return, Go, Stray, Coming, Planners
    <3>3. CASE GetOrCreate(h)
      BY <1>0, <3>3 DEF GetOrCreate, Go, Stray, Coming, Planners, JobAt,
         KindAt, Locking, Unlocked
    <3>4. CASE BySlug(h)
      BY <1>0, <3>4 DEF BySlug, Go, Stray, Coming, Planners, Unlocked
    <3>5. CASE AcquireWait(h)
      BY <1>0, <3>5 DEF AcquireWait, Go, Stray, Coming, Planners, Unlocked
    <3> QED
      BY <1>4, <3>1, <3>2, <3>3, <3>4, <3>5
  <2> QED
    BY <1>0, <1>2, <1>3, <2>1, <2>2 DEF StaysWithin
<1>5. CASE FindBranch(h) \/ (\E r \in Repos : Resolve(h, r)) \/ ResolveFails(h)
  <2>1. /\ UNCHANGED <<envs, unlocked, lock>> /\ pc[h] \in {"branch", "resolve"}
        /\ job'[h].env = job[h].env /\ job'[h].kind = job[h].kind
        /\ pc'[h] \in {"resolve", "bump", "ok", "state", "unplanned"}
    <3>1. ASSUME NEW r \in Repos, Resolve(h, r)
          PROVE  job'[h].env = job[h].env /\ job'[h].kind = job[h].kind
      BY <1>0, <3>1, ResolveOwn
    <3>2. CASE FindBranch(h)
      <4> DEFINE o == FindOpenByBranch(Payload(h).pr)
      <4>1. job' = [job EXCEPT ![h] = [job[h] EXCEPT !.origin = o]]
        BY <3>2 DEF FindBranch, Local
      <4> HIDE DEF o
      <4>2. job'[h].env = job[h].env /\ job'[h].kind = job[h].kind
        BY <1>0, <4>1 DEF Jobs
      <4> QED
        BY <1>0, <3>2, <4>2 DEF FindBranch, Go, featureVars
    <3>3. CASE ResolveFails(h)
      BY <1>0, <3>3 DEF ResolveFails, featureVars
    <3>4. ASSUME NEW r \in Repos, Resolve(h, r)
          PROVE  /\ UNCHANGED <<envs, unlocked, lock>> /\ pc[h] = "resolve"
                 /\ pc'[h] \in {"resolve", "bump"}
      BY <1>0, <3>4 DEF Resolve, Go, featureVars
    <3> QED
      BY <1>5, <3>1, <3>2, <3>3, <3>4
  <2>2. Standing(job[h].env)
    BY <2>1 DEF Standing, Planners
  <2>3. (Stray(h)' => Stray(h)) /\ ~Coming(h)'
    BY <2>1 DEF Stray, Coming, Planners
  <2> QED
    BY <1>0, <1>2, <1>3, <2>1, <2>2, <2>3 DEF StaysWithin
<1>6. CASE MarkFailed(h) \/ MarkResolving(h) \/ Bump(h)
  <2> DEFINE i == job[h].env
  <2>1. /\ UNCHANGED <<unlocked, lock, job>> /\ pc[h] \in {"unplanned", "state", "bump"}
        /\ pc'[h] \in {"error", "ok", "state"}
    BY <1>0, <1>6 DEF MarkFailed, MarkResolving, Bump, Go
  <2>2. i \in DOMAIN envs /\ Standing(i) /\ job[h].plan \in Plans
    BY <1>0, <2>1 DEF JobAt, Planners, Standing, Jobs
  <2> HIDE DEF i
  <2>3. Len(envs') = Len(envs) /\ envs' \in Seq(Environment)
        /\ \A j \in DOMAIN envs : j # i => envs'[j] = envs[j]
    <3>1. CASE MarkFailed(h) \/ MarkResolving(h)
      BY <1>0, <2>2, <3>1, StateUpdated DEF MarkFailed, MarkResolving, i
    <3>2. CASE Bump(h)
      <4> DEFINE locked == lock = h
      <4>1. BumpGeneration(i, job[h].plan, locked) /\ locked \in BOOLEAN
        BY <3>2 DEF Bump, i
      <4> HIDE DEF locked
      <4> QED
        BY <1>0, <2>2, <4>1, Bumped
    <3> QED
      BY <1>6, <3>1, <3>2
  <2>4. Stands' \subseteq Stands
    <3>1. DOMAIN envs' = DOMAIN envs
      BY <1>0, <2>3
    <3>2. ASSUME NEW j \in DOMAIN envs, envs'[j].state # "destroyed"
          PROVE  Standing(j)
      BY <2>2, <2>3, <3>2 DEF Standing
    <3>3. pc'[h] \in Planners => Standing(job'[h].env)
      BY <2>1, <2>2 DEF i
    <3> QED
      BY <1>1, <3>1, <3>2, <3>3, OthersStand
  <2>5. (Stray(h)' => Stray(h)) /\ ~Coming(h)'
    BY <2>1 DEF Stray, Coming, Planners
  <2> QED
    BY <1>0, <1>2, <2>1, <2>4, <2>5 DEF StaysWithin
<1>7. CASE CreateEnv(h)
  <2> DEFINE n == Len(envs) + 1
             byEvent == job[h].kind # "create"
  <2>1. /\ UNCHANGED <<unlocked, lock>> /\ pc[h] = "create" /\ pc'[h] = "resolve"
        /\ Create(byEvent) /\ byEvent \in BOOLEAN
    BY <1>0, <1>7 DEF CreateEnv, Go
  <2>2. job'[h].env = n /\ job'[h].kind = job[h].kind
    BY <1>0, <1>7 DEF CreateEnv, Local, Jobs
  <2> HIDE DEF byEvent
  <2>3. Len(envs') = n /\ envs' \in Seq(Environment) /\ \A j \in DOMAIN envs : envs'[j] = envs[j]
    BY <1>0, <2>1, Created
  <2>4. ASSUME NEW i \in DOMAIN envs, Standing(i)'
        PROVE  Standing(i)
    BY <1>0, <1>1, <2>2, <2>3, <2>4 DEF Standing
  <2>5. Stands' \subseteq Stands \cup {n}
    BY <1>0, <2>3, <2>4 DEF Stands
  <2>6. (Stray(h)' => Stray(h)) /\ ~Coming(h)' /\ Coming(h)
    BY <2>1, <2>2 DEF Stray, Coming, Planners
  <2>7. Comers' \subseteq Comers \ {h} /\ Strays' \subseteq Strays /\ h \in Comers /\ unlocked' >= unlocked
    BY <1>0, <1>2, <2>1, <2>6 DEF Comers
  <2>8. TakesUp(h, n)
    BY <2>5, <2>7 DEF TakesUp
  <2> QED
    BY <2>8
<1>8. ASSUME NEW i \in DOMAIN envs, FindByID(h, i)
      PROVE  TakesUp(h, i)
  <2>1. /\ UNCHANGED <<envs, unlocked, lock>> /\ pc[h] = "find" /\ job[h].kind = "restart"
        /\ pc'[h] \in {"resolve", "state"}
    BY <1>0, <1>8 DEF FindByID, Go, featureVars
  <2>2. job'[h].env = i /\ job'[h].kind = job[h].kind
    <3>1. job' = [job EXCEPT ![h] = [job[h] EXCEPT !.env = i, !.todo = Repos]]
      BY <1>8 DEF FindByID, Local
    <3> QED
      BY <1>0, <3>1 DEF Jobs
  <2>3. Stray(h) /\ Coming(h) /\ ~Coming(h)'
    BY <1>0, <2>1 DEF Stray, Coming, Locking
  <2>4. ASSUME NEW j \in DOMAIN envs, Standing(j)', j # i
        PROVE  Standing(j)
    BY <1>1, <2>1, <2>2, <2>4 DEF Standing
  <2>5. Stands' \subseteq Stands \cup {i}
    BY <1>0, <2>1, <2>4 DEF Stands
  <2> QED
    BY <1>0, <1>2, <2>1, <2>3, <2>5 DEF TakesUp, Comers
<1>9. ASSUME NEW i \in 0..Len(envs), Find(h, i)
      PROVE  StaysWithin \/ FindsNone(h)
  <2>1. /\ UNCHANGED <<envs, unlocked, lock>> /\ pc[h] = "find" /\ job[h].kind # "restart"
        /\ ByFeature(i)
        /\ pc'[h] = IF i = 0 THEN AfterNotFound(job[h].kind) ELSE AfterFound(job[h].kind)
    BY <1>0, <1>9 DEF Find, Go, featureVars
  <2>2. job'[h].env = i /\ job'[h].kind = job[h].kind
    <3>1. job' = [job EXCEPT ![h] = [job[h] EXCEPT !.env = i, !.todo = Repos]]
      BY <1>9 DEF Find, Local
    <3> QED
      BY <1>0, <3>1 DEF Jobs
  <2>3. CASE i # 0
    <3>1. /\ pc'[h] \in {"destroy", "branch", "ok", "resolve"}
          /\ job[h].kind = "closed" => pc'[h] = "destroy"
      BY <2>1, <2>3 DEF AfterFound
    <3>2. Standing(i)
      BY <2>1, <2>3 DEF ByFeature, Standing
    <3>3. Stray(h)' => Stray(h)
      BY <2>1, <2>2, <3>1 DEF Stray, Planners
    <3>4. ~Coming(h)'
      BY <3>1 DEF Coming
    <3> QED
      BY <1>0, <1>2, <1>3, <2>1, <2>2, <3>2, <3>3, <3>4 DEF StaysWithin
  <2>4. CASE i = 0
    <3>1. /\ pc'[h] \in {"ok", "create"}
          /\ job[h].kind = "closed" => pc'[h] = "ok"
      BY <2>1, <2>4 DEF AfterNotFound
    <3>2. Stands' \subseteq Stands
      BY <1>3, <2>1, <3>1 DEF Planners
    <3>3. Stray(h)' => Stray(h)
      BY <2>1, <2>2, <3>1 DEF Stray, Planners
    <3>4. CASE lock = h
      BY <1>0, <1>2, <2>1, <2>4, <3>2, <3>3, <3>4 DEF FindsNone, ByFeature
    <3>5. CASE lock # h
      <4>1. Coming(h)' => Coming(h)
        BY <2>1, <3>1, <3>5 DEF Coming, Stray
      <4> QED
        BY <1>0, <1>2, <2>1, <3>2, <3>3, <4>1 DEF StaysWithin
    <3> QED
      BY <3>4, <3>5
  <2> QED
    BY <2>3, <2>4
<1>10. CASE markDestroying(h)
  <2> DEFINE i == job[h].env
  <2>1. /\ UNCHANGED <<lock, job>> /\ pc[h] = "destroy" /\ pc'[h] = "ok"
        /\ unlocked' = IF envs[i].state = "destroyed" THEN unlocked + 1 ELSE unlocked
        /\ UpdateState(i, "destroying")
    BY <1>0, <1>10 DEF markDestroying
  <2>2. i \in DOMAIN envs
    BY <1>0, <2>1 DEF JobAt
  <2> HIDE DEF i
  <2>3. Len(envs') = Len(envs) /\ envs' \in Seq(Environment)
        /\ \A j \in DOMAIN envs : j # i => envs'[j] = envs[j]
    BY <1>0, <2>1, <2>2, StateUpdated
  <2>4. ~Stray(h)' /\ ~Coming(h)'
    BY <2>1 DEF Stray, Coming, Planners
  <2>5. ASSUME NEW j \in DOMAIN envs, Standing(j)', j # i \/ envs[i].state # "destroyed"
        PROVE  Standing(j)
    BY <1>1, <2>1, <2>3, <2>5 DEF Standing, Planners
  <2>6. CASE envs[i].state = "destroyed"
    <3>1. Stands' \subseteq Stands \cup {i}
      BY <1>0, <2>3, <2>5 DEF Stands
    <3> QED
      BY <1>0, <1>2, <2>1, <2>4, <2>6, <3>1 DEF PaysFor
  <2>7. CASE envs[i].state # "destroyed"
    <3>1. Stands' \subseteq Stands
      BY <1>0, <2>3, <2>5, <2>7 DEF Stands
    <3> QED
      BY <1>0, <1>2, <2>1, <2>4, <2>7, <3>1 DEF StaysWithin
  <2> QED
    BY <2>6, <2>7
<1> QED
  BY <1>4, <1>5, <1>6, <1>7, <1>8, <1>9, <1>10 DEF Work

\* And so does every step of the system.
LEMMA StepPays ==
  ASSUME Typed, [Next]_vars
  PROVE  \/ StaysWithin
         \/ \E h \in Handlers : FindsNone(h)
         \/ \E h, x : PaysFor(x) \/ TakesUp(h, x)
<1>0. /\ pc \in [Handlers -> Pcs] /\ job \in [Handlers -> Jobs]
      /\ envs \in Seq(Environment) /\ DOMAIN envs = 1..Len(envs)
      /\ unlocked \in Nat
      /\ Handling /\ Holding
  BY DEF Typed, TypeOK, FeatureTypeOK
<1>1. ASSUME NEW h \in Handlers, NEW new, NEW next, Start(h, new, next),
             next \notin Planners \cup {"create"}, new.kind \in Unlocked \/ next = "upsert"
      PROVE  StaysWithin \/ \E x : PaysFor(x)
  <2>1. /\ UNCHANGED <<envs, lock>> /\ pc[h] = "idle"
        /\ pc'[h] = next /\ job'[h] = new
        /\ \A g \in Handlers \ {h} : pc'[g] = pc[g] /\ job'[g] = job[g]
        /\ unlocked' = IF new.kind \in Unlocked THEN unlocked + 1 ELSE unlocked
    BY <1>0, <1>1 DEF Start, featureVars
  <2>2. Stands' \subseteq Stands
    BY <1>1, <2>1, OthersStand DEF Standing
  <2>3. CASE new.kind \in Unlocked
    <3>1. Strays' \subseteq Strays \cup {h} /\ Comers' \subseteq Comers \cup {h}
      BY <2>1, OthersStray
    <3>2. PaysFor(h)
      BY <2>1, <2>2, <2>3, <3>1 DEF PaysFor
    <3> QED
      BY <3>2
  <2>4. CASE new.kind \notin Unlocked
    <3>1. ~Stray(h)' /\ ~Coming(h)'
      BY <1>1, <2>1, <2>4 DEF Stray, Coming, Planners
    <3> QED
      BY <1>0, <2>1, <2>2, <2>4, <3>1, OthersStray DEF StaysWithin
  <2> QED
    BY <2>3, <2>4
<1>2. ASSUME NEW h \in Handlers, NEW e \in DOMAIN inbox, handle(h, e)
      PROVE  StaysWithin \/ \E x : PaysFor(x)
  <2> DEFINE payload == inbox[e]
             origin == IF payload.action = "push" THEN None ELSE <<payload.pr, payload.sha>>
             new == [NoJob EXCEPT !.kind = payload.action, !.ev = e, !.origin = origin]
             next == IF payload.action = "push" THEN "feature" ELSE "upsert"
  <2>1. Start(h, new, next)
    BY <1>2 DEF handle
  <2>2. new.kind = payload.action
    <3> HIDE DEF payload, origin
    <3>1. NoJob \in [{"kind", "ev", "origin", "env", "todo", "plan"} -> {NoJob[f] : f \in {"kind", "ev", "origin", "env", "todo", "plan"}}]
      BY DEF NoJob
    <3> QED
      BY <3>1 DEF new
  <2> HIDE DEF new
  <2> QED
    BY <1>1, <2>1, <2>2 DEF Unlocked, Planners
<1>3. ASSUME NEW h \in Handlers, NEW kind \in Calls, call(h, kind)
      PROVE  StaysWithin \/ \E x : PaysFor(x)
  <2> DEFINE new == [NoJob EXCEPT !.kind = kind]
             next == IF kind = "create" THEN "feature" ELSE "find"
  <2>1. Start(h, new, next)
    BY <1>3 DEF call
  <2>2. new.kind = kind /\ kind \in Unlocked
    BY CallsAssumption DEF NoJob, Unlocked
  <2> HIDE DEF new
  <2> QED
    BY <1>1, <2>1, <2>2 DEF Unlocked, Planners
<1>4. ASSUME NEW h \in Handlers, Crash(h)
      PROVE  StaysWithin
  <2>1. /\ UNCHANGED <<envs, unlocked>> /\ pc'[h] = "idle"
        /\ \A g \in Handlers \ {h} : pc'[g] = pc[g] /\ job'[g] = job[g]
        /\ lock' = lock \/ lock = h
    BY <1>0, <1>4, OthersKept DEF Crash, featureVars
  <2>2. Stands' \subseteq Stands
    BY <2>1, OthersStand DEF Standing, Planners
  <2>3. ~Stray(h)' /\ ~Coming(h)'
    BY <2>1 DEF Stray, Coming, Planners
  <2> QED
    BY <1>0, <2>1, <2>2, <2>3, OthersStray DEF StaysWithin
<1>5. ASSUME NEW h \in Handlers, LeaseExpires(h)
      PROVE  PaysFor(h)
  <2>1. /\ UNCHANGED <<envs, pc, job>> /\ lock = h /\ unlocked' = unlocked + 1
    BY <1>5 DEF LeaseExpires, featureVars
  <2>2. Strays' \subseteq Strays \cup {h} /\ Comers' \subseteq Comers \cup {h}
    BY <2>1, OthersStray
  <2>3. Stands' \subseteq Stands
    BY <2>1 DEF Stands, Standing
  <2> QED
    BY <2>1, <2>2, <2>3 DEF PaysFor
<1>6. CASE OrphanExpires \/ UNCHANGED vars
  <2>1. /\ UNCHANGED <<envs, pc, job, unlocked>>
        /\ lock' = lock \/ lock = Orphan
    BY <1>6 DEF OrphanExpires, featureVars, vars, handlerVars
  <2>2. Stands' = Stands
    BY <2>1 DEF Stands, Standing
  <2>3. ASSUME NEW g \in Handlers PROVE (Stray(g)' => Stray(g)) /\ (Coming(g)' => Coming(g))
    <3>1. lock' = lock \/ lock # g
      BY <2>1, KeyAssumption
    <3> QED
      BY <2>1, <3>1 DEF Stray, Coming
  <2>4. Strays' \subseteq Strays /\ Comers' \subseteq Comers
    BY <2>3 DEF Strays, Comers
  <2> QED
    BY <1>0, <2>1, <2>2, <2>4 DEF StaysWithin
<1>7. ASSUME NEW i \in DOMAIN envs, TearDown(i)
      PROVE  StaysWithin
  <2>1. UNCHANGED <<pc, job, lock, unlocked>> /\ MarkDestroyed(i)
    BY <1>7 DEF TearDown, handlerVars
  <2>2. /\ envs' \in Seq(Environment) /\ Len(envs') = Len(envs)
        /\ \A j \in DOMAIN envs : j # i => envs'[j] = envs[j]
        /\ envs'[i].state = "destroyed"
    BY <1>0, <2>1, TornDown
  <2>3. DOMAIN envs' = DOMAIN envs
    BY <1>0, <2>2
  <2>4. ASSUME NEW j \in DOMAIN envs, Standing(j)' PROVE Standing(j)
    BY <2>1, <2>2, <2>4 DEF Standing
  <2>5. Stands' \subseteq Stands
    BY <2>3, <2>4 DEF Stands
  <2>6. Strays' = Strays /\ Comers' = Comers
    BY <2>1 DEF Strays, Comers, Stray, Coming
  <2> QED
    BY <1>0, <2>1, <2>5, <2>6 DEF StaysWithin
<1> QED
  BY <1>2, <1>3, <1>4, <1>5, <1>6, <1>7, HandlerPays DEF Next

\* The stray planners never outnumber what has been paid.
LEMMA StraysPaidStep ==
  ASSUME Typed, Typed', [Next]_vars, StraysPaid
  PROVE  StraysPaid'
<1>0. IsFiniteSet(Strays) /\ unlocked \in Nat /\ unlocked' \in Nat
  BY PaidFinite DEF Typed, TypeOK
<1>1. \/ Strays' \subseteq Strays /\ unlocked' >= unlocked
      \/ \E x : Strays' \subseteq Strays \cup {x} /\ unlocked' >= unlocked + 1
  BY <1>0, StepPays DEF StaysWithin, FindsNone, PaysFor, TakesUp
<1>2. Cardinality({}) = 0 /\ IsFiniteSet({})
  BY FS_EmptySet
<1> DEFINE S == Strays
           T == Strays'
           u == unlocked
           v == unlocked'
<1>3. Cardinality(S) \in Nat /\ Cardinality(T) \in Nat
  BY <1>0, <1>1, FS_CardinalityType, FS_Subset, FS_AddElement
<1>4. CASE T \subseteq S /\ v >= u
  <2>1. Cardinality(T) <= Cardinality(S)
    BY <1>0, <1>4, FS_Subset
  <2> HIDE DEF T, S
  <2>2. Cardinality(T) <= v
    BY <1>0, <1>3, <1>4, <2>1 DEF StraysPaid, S
  <2> QED
    BY <2>2 DEF StraysPaid, T
<1>5. ASSUME NEW x, T \subseteq S \cup {x}, v >= u + 1
      PROVE  StraysPaid'
  <2>1. /\ IsFiniteSet(S \cup {x})
        /\ Cardinality(S \cup {x}) = IF x \in S THEN Cardinality(S) ELSE Cardinality(S) + 1
    BY <1>0, FS_AddElement
  <2>2. Cardinality(T) <= Cardinality(S \cup {x})
    BY <1>5, <2>1, FS_Subset
  <2> HIDE DEF T, S
  <2>3. Cardinality(T) <= Cardinality(S) + 1
    BY <1>3, <2>1, <2>2
  <2>4. Cardinality(T) <= v
    BY <1>0, <1>3, <1>5, <2>3 DEF StraysPaid, S
  <2> QED
    BY <2>4 DEF StraysPaid, T
<1> QED
  BY <1>1, <1>4, <1>5

\* When the holder of the lock finds none, only strays have environments or are
\* about to create them.
LEMMA StraysOnly ==
  ASSUME Typed, NEW h \in Handlers, FindsNone(h)
  PROVE  Cardinality(Stands) + Cardinality(Comers) <= Cardinality(Strays)
<1>0. /\ IsFiniteSet(Strays) /\ IsFiniteSet(Comers) /\ IsFiniteSet(Stands)
      /\ lock = h /\ pc[h] = "find"
      /\ \A g \in Handlers : JobAt(pc[g], job[g])
  BY PaidFinite DEF FindsNone, Typed, Handling
<1> DEFINE P == {g \in Strays : pc[g] \in Planners}
           f == [g \in P |-> job[g].env]
<1>1. \A g \in Handlers : pc[g] \in Planners \cup {"create"} => Stray(g)
  BY <1>0 DEF Stray, JobAt, KindAt, Planners, Locking
<1>2. Comers \subseteq Strays
  BY <1>0, <1>1 DEF Comers, Strays, Coming
<1>3. P \subseteq Strays /\ P \cap Comers = {}
  BY DEF Comers, Coming, Planners
<1>4. Stands \subseteq {job[g].env : g \in P}
  BY <1>1 DEF FindsNone, Stands, Standing, Strays
<1>5. IsFiniteSet(P)
  BY <1>0, <1>3, FS_Subset
<1>6. f \in Surjection(P, {job[g].env : g \in P})
  BY DEF Surjection
<1>7. /\ IsFiniteSet({job[g].env : g \in P})
      /\ Cardinality({job[g].env : g \in P}) <= Cardinality(P)
  BY <1>5, <1>6, FS_Surjection
<1>8. Cardinality(Stands) <= Cardinality({job[g].env : g \in P})
  BY <1>4, <1>7, FS_Subset
<1> HIDE DEF P, f
<1>9. Cardinality(P \cup Comers) = Cardinality(P) + Cardinality(Comers) - Cardinality(P \cap Comers)
  BY <1>0, <1>5, FS_Union
<1>10. Cardinality(P \cap Comers) = 0
  BY <1>3, FS_EmptySet
<1>11. Cardinality(P \cup Comers) <= Cardinality(Strays)
  BY <1>0, <1>2, <1>3, FS_Subset
<1>12. /\ Cardinality(P) \in Nat /\ Cardinality(Comers) \in Nat /\ Cardinality(Stands) \in Nat
       /\ Cardinality(Strays) \in Nat /\ Cardinality({job[g].env : g \in P}) \in Nat
       /\ Cardinality(P \cup Comers) \in Nat
  BY <1>0, <1>2, <1>3, <1>5, <1>7, FS_CardinalityType, FS_Union
<1> QED
  BY <1>7, <1>8, <1>9, <1>10, <1>11, <1>12

\* Live environments, those that will come and those that may come back
\* never outnumber what has been paid, and one.
LEMMA EnvsPaidStep ==
  ASSUME Typed, Typed', [Next]_vars, StraysPaid, EnvsPaid
  PROVE  EnvsPaid'
<1>0. /\ IsFiniteSet(Strays) /\ IsFiniteSet(Comers) /\ IsFiniteSet(Stands)
      /\ unlocked \in Nat /\ unlocked' \in Nat
      /\ Cardinality(Strays) \in Nat /\ Cardinality(Comers) \in Nat /\ Cardinality(Stands) \in Nat
  BY PaidFinite, FS_CardinalityType DEF Typed, TypeOK
<1> DEFINE N == Stands
           N2 == Stands'
           B == Comers
           B2 == Comers'
           u == unlocked
           u2 == unlocked'
<1>1. CASE ~ \E h \in Handlers : FindsNone(h)
  <2>1. \/ N2 \subseteq N /\ B2 \subseteq B /\ u2 >= u
        \/ \E x : N2 \subseteq N \cup {x} /\ B2 \subseteq B /\ u2 >= u + 1
        \/ \E x : N2 \subseteq N /\ B2 \subseteq B \cup {x} /\ u2 >= u + 1
        \/ \E x : \E h \in B : N2 \subseteq N \cup {x} /\ B2 \subseteq B \ {h} /\ u2 >= u
    <3>1. ASSUME NEW h, NEW x, TakesUp(h, x)
          PROVE  h \in B /\ N2 \subseteq N \cup {x} /\ B2 \subseteq B \ {h} /\ u2 >= u
      BY <3>1 DEF TakesUp
    <3>2. ASSUME NEW x, PaysFor(x)
          PROVE  /\ u2 >= u + 1
                 /\ \/ N2 \subseteq N \cup {x} /\ B2 \subseteq B
                    \/ N2 \subseteq N /\ B2 \subseteq B \cup {x}
      BY <1>0, <3>2 DEF PaysFor
    <3>3. ASSUME StaysWithin PROVE N2 \subseteq N /\ B2 \subseteq B /\ u2 >= u
      BY <3>3 DEF StaysWithin
    <3> HIDE DEF N, N2, B, B2, u, u2
    <3> QED
      BY <1>1, <3>1, <3>2, <3>3, StepPays
  <2>2. Cardinality(N) + Cardinality(B) <= 1 + u
    BY DEF EnvsPaid
  <2>3. IsFiniteSet(N) /\ IsFiniteSet(B) /\ u \in Nat /\ u2 \in Nat
    BY <1>0
  <2> HIDE DEF N, N2, B, B2, u, u2
  <2>4. Cardinality(N2) + Cardinality(B2) <= 1 + u2
    BY <2>1, <2>2, <2>3, Paid
  <2> QED
    BY <2>4 DEF EnvsPaid, N2, B2, u2
<1>2. ASSUME NEW h \in Handlers, FindsNone(h)
      PROVE  EnvsPaid'
  <2>1. Cardinality(N) + Cardinality(B) <= Cardinality(Strays)
    BY <1>2, StraysOnly
  <2>2. N2 \subseteq N /\ B2 \subseteq B \cup {h} /\ u2 >= u
    BY <1>2 DEF FindsNone
  <2>3. Cardinality(Strays) <= u
    BY DEF StraysPaid
  <2>4. Cardinality(N2) <= Cardinality(N) /\ Cardinality(N2) \in Nat
    BY <1>0, <2>2, FS_Subset, FS_CardinalityType
  <2>5. /\ IsFiniteSet(B \cup {h})
        /\ Cardinality(B \cup {h}) = IF h \in B THEN Cardinality(B) ELSE Cardinality(B) + 1
    BY <1>0, FS_AddElement
  <2>6. Cardinality(B2) <= Cardinality(B \cup {h}) /\ Cardinality(B2) \in Nat
    BY <2>2, <2>5, FS_Subset, FS_CardinalityType
  <2>7. IsFiniteSet(N) /\ Cardinality(N) \in Nat /\ Cardinality(B) \in Nat /\ u \in Nat /\ u2 \in Nat
        /\ Cardinality(Strays) \in Nat
    BY <1>0
  <2> HIDE DEF N, N2, B, B2, u, u2
  <2>8. Cardinality(B2) <= Cardinality(B) + 1
    BY <2>5, <2>6, <2>7
  <2>9. Cardinality(N2) + Cardinality(B2) <= 1 + u2
    BY <2>1, <2>2, <2>3, <2>4, <2>6, <2>7, <2>8
  <2> QED
    BY <2>9 DEF EnvsPaid, N2, B2, u2
<1> QED
  BY <1>1, <1>2

\* One environment per feature, and one more for each handler that worked on it
\* without the feature lock: through every retry, crash, shared event, late write
\* and teardown, for any number of handlers and events.
THEOREM OneEnvironment == Spec => []LiveEnvsBounded
<1> DEFINE Inv == Typed /\ StraysPaid /\ EnvsPaid
<1>1. Init => Inv
  <2> SUFFICES ASSUME Init PROVE StraysPaid /\ EnvsPaid
    BY TypedInit
  <2>1. \A h \in Handlers : pc[h] = "idle" /\ unlocked = 0 /\ envs = <<>>
    BY DEF Init, FeatureInit
  <2>2. envs = <<>> /\ unlocked = 0
    BY DEF Init, FeatureInit
  <2>3. Strays = {} /\ Comers = {} /\ Stands = {}
    BY <2>1, <2>2 DEF Strays, Comers, Stands, Stray, Coming, Planners
  <2>4. Cardinality({}) = 0
    BY FS_EmptySet
  <2> QED
    BY <2>2, <2>3, <2>4 DEF StraysPaid, EnvsPaid
<1>2. Inv /\ [Next]_vars => Inv'
  BY TypedStep, StraysPaidStep, EnvsPaidStep
<1>3. Inv => LiveEnvsBounded
  <2> SUFFICES ASSUME Inv PROVE LiveEnvsBounded
    OBVIOUS
  <2>1. Live \subseteq Stands
    BY DEF Live, Stands, Standing
  <2>2. /\ IsFiniteSet(Stands) /\ IsFiniteSet(Comers)
        /\ Cardinality(Live) <= Cardinality(Stands)
    BY <2>1, PaidFinite, FS_Subset
  <2>3. Cardinality(Live) \in Nat /\ Cardinality(Stands) \in Nat /\ Cardinality(Comers) \in Nat
    BY <2>2, PaidFinite, FS_CardinalityType
  <2>4. unlocked \in Nat
    BY DEF Typed, TypeOK
  <2> QED
    BY <2>2, <2>3, <2>4 DEF EnvsPaid, LiveEnvsBounded
<1> QED
  BY <1>1, <1>2, <1>3, PTL DEF Spec
=============================================================================
