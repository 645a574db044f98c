# open-orch: TLA+ models, checks and proofs

open-orch gives every feature branch a preview environment: GitHub webhooks are
stored as events, an event processor turns them into a desired topology (one
service per registered repository), and reconcilers build images with Buddy, run
containers on a Docker host and route hostnames to them. The state is in
PostgreSQL; leases in Redis keep workers apart. The modules here model that
control plane, TLC checks them on small instances, and TLAPS proves every safety
property of the passing runs for every value of the constants. Paths below are
relative to `src/backend/` unless they start with `docs/` or `frontend/`.

## The system

| component | state | operations | who calls it |
|---|---|---|---|
| locks (`internal/locks`) | a Redis key with a TTL | Acquire, AcquireWait, Refresh, Release | reconciler (`<short_id>_deploy_lock`), event processor (`feature:<slug>:plan_lock`) |
| lifecycle FSM (`internal/lifecycle`) | none | CanTransition | reconciler.setState, API destroyEnv |
| stores (`internal/db`) | rows of PostgreSQL | one SQL statement each; no transaction spans two | everything |
| reconciler (`internal/reconciler`) | locals of one pass | tick, reconcileOne, reconcileService, syncDomains, tearDown | a timer, in every process |
| cleaner | none | tick: mark idle environments destroying | a timer |
| docker driver | networks and containers of the host | EnsureNetwork, RunContainer, RemoveByName, RemoveNetwork, Inspect | reconciler |
| buddy client | the runs at Buddy | Trigger, GetRun | reconciler |
| API (`internal/api`) | none | environments: create, destroy, suspend, resume, restart; repositories, dependencies, integrations: CRUD | HTTP |
| event queue (`internal/db/events.go`) | rows of `events` | Ingest, NextBatch, MarkProcessed, MarkError | webhook handler, event processor |
| event processor (`internal/events`) | none | tick, handlePR, handlePush, ensureAndBump, bumpGeneration, markDestroying | a timer |
| resolver, dependency graph, normalizer | none | Resolve, TopoSort, Branch, HostnameLabel | event processor, API |
| repository, PR and feature stores (`internal/db`) | rows of `repositories`, `service_dependencies`, `pull_requests`, `features` | Upsert, AddDependency, RemoveDependency, GetOrCreate, look-ups | API, event processor, resolver |
| integrations store | rows with encrypted secrets | Upsert, Delete, MarkVerified, Reveal | API |
| dashboard (`frontend/`) | React state | polling, overlay | user |

What is hard here: a pass of the reconciler is some fifteen remote calls long,
and between any two of them the API, the event processor, the cleaner and
other workers write the same row, none of them with the deploy lock; the lock is
a lease whose Refresh nobody calls; a process may die between any two calls, and
calls to Docker and Buddy fail, perhaps after they took effect; the state
machine is checked against a copy of the row read earlier. `hazards` in
PROJECT.json lists each place.

What makes each part correct:

- locks: leases that have not expired exclude each other; nobody drops another
  owner's key; a waiter returns.
- reconciler: passes on one environment are serialized by the lock; generations
  are used in order and an older one never replaces a newer one; builds are not
  started twice without a failure; a destroyed environment leaves nothing
  behind; after the last request the environment converges or is destroyed;
  suspended environments are left alone.
- API, cleaner: what they write is what the FSM allows, and a destroyed
  environment stays destroyed (the code does not keep either; see "Findings").
- event queue: an event is marked only after it was handled, handled at most as
  often as it was claimed, and never left behind.
- event processor: one live environment per feature and topologies that know
  every open pull request, as far as the feature lock is taken; an environment
  that was created is planned in the end.
- resolver and dependency graph: dependencies first, cycles and nothing else
  refused; hostnames that end up where the last topology puts them.
- integrations: a secret opens with the key that sealed it and is the last one
  sent; nothing sent is lost but by PATCHes that overlap.

## Modules

| module | models | built on |
|---|---|---|
| `LeaseContract` | what a lease promises, abstractly: the owner of one key | |
| `Lease` | `locks.go`, one key, any clients, a discrete clock | refines `LeaseContract` |
| `LeaseProofs` | theorems about `Lease` | |
| `Params` | services and generations | |
| `Lifecycle` | `fsm.go` and the state sets of the queries | |
| `EnvStore` | the rows of one environment, one operator per statement | `Params`, `Lifecycle` |
| `Docker`, `Buddy`, `Faults` | the driver's calls, the CI service, what may fail and how often | `Params` |
| `Reconciler` | the workers, one action per remote call | `EnvStore`, `Docker`, `Buddy`, `Faults` |
| `Leftovers` | a history variable: what a failed call or a crash made a teardown miss | `Reconciler` |
| `Requests` | API handlers, event handlers and the cleaner, as look-up and later writes | `EnvStore` |
| `ControlPlane` | the composition, its fairness and its properties; uses the deploy lock as a `LeaseContract` | `Leftovers`, `Requests` |
| `ControlPlaneClaims` | what a comment says and the code does not keep | `ControlPlane` |
| `ControlPlaneProofs`, `PassProofs` | theorems about `ControlPlane`: types, lock and generations; builds, stale workers and teardown | `ControlPlane`, TLAPS, the second on the first |
| `EventQueue` | the events table, the loop of the processors and the webhook that fills the table | `Faults` |
| `EventQueueProofs` | theorems about `EventQueue` | `EventQueue`, TLAPS |
| `FeatureStore` | the pull requests, the feature row and the environments of one feature, one operator per statement | |
| `Planning` | the handlers of `processor.go`, createEnv and requestRestart, and the branch picks of the resolver, one action per remote call | `FeatureStore`, `Faults` |
| `PlanningProofs`, `TopologyProofs` | theorems about `Planning`: types and the number of live environments; what the plans contain | `Planning`, TLAPS |
| `Registry` | repositories and dependencies, and the loop of TopoSort with every order of Go's maps | |
| `Catalog` | registering and linking, Resolve with its two reads, hostnames and the domains table of several environments | `Registry`, `Faults` |
| `CatalogProofs` | theorems about `Catalog`: TopoSort for every graph, the registry, the routes | `Catalog`, TLAPS |
| `Integrations` | the integrations table, its seals and the handlers that change it | |
| `IntegrationsProofs` | theorems about `Integrations` | `Integrations`, TLAPS |
| `MCLease`, `MCControlPlane`, `MCEventQueue`, `MCPlanning`, `MCCatalog`, `MCIntegrations` | constants for TLC | |

### State and code

`row` is the `environments` row (state, generation, the service set of
`desired_topology`, suspended). `dep[g][s]` is the `deployments` row of
generation g and repository s: its state and `buddy_run_id`, 0 if there is none.
`dom` and `rr` are the `domains` rows and the `runtime_resources` rows of kind
container. `ctr[s]` is the container named for service s (the generation it was
built for, and whether it is running and not unhealthy) and `net` the network.
Of Buddy, `runs[g][s]` is how many runs of a build were started, with ids from 1
on, and `passed` and `broken` are those that have ended, each on its own; GetRun
is about the one run whose id it is given, as in client.go:86. `lock` is the
content of the deploy-lock key; `pc[w]` names the next remote call of worker w
and `pass[w]` its locals: `env` is the copy of the row (setState keeps only its
state up to date), `todo` the services still to visit. `call[c]` is the
statement that caller c (an HTTP goroutine, an event handler, the cleaner)
executes next. `left` is history (Leftovers): the containers that a failure left
without their row, or that a teardown did not read or could not remove, until
they are gone or recorded; and whether the last teardown failed to remove the
network, the domains or the rows.

Every remote call is a step. The steps of a pass, in order: List, TryLock, Read
(reconciler.go:56-125); Network, Promote (:127-140); per service NextService,
TriggerBuild, InsertDeployment, Poll, RemoveOld, Create, RecordRunning, Track,
InspectService with their failures (:143-303); DeleteDomains, UpsertDomains
(:308-324); FinalState, Release. A destroying row goes to RuntimeRows,
RemoveContainer, RemoveEnvNetwork, Unroute, Untrack, Mark (:329-346) instead. A
failure of PostgreSQL goes where the code sends it. The pass ends (ReadFails),
the service fails (LookUpFails, InsertFails), or the error is dropped and the
pass goes on: existing deployments look absent and are built again (NextService,
:204), a state is not written (setState, Record, Mark), a container is not
recorded (Track, :284), a teardown reads some of the rows or none (RuntimeRows,
:331), domains and runtime rows stay (Unroute, Untrack, :341-342). A write whose
reply is lost may have been executed, where that makes a difference. Redis
failing is TryLock finding the key taken, or a crash before Release.

In `EventQueue`, `event[d]` is the row of delivery d (`at` orders rows by
received_at, 0 before Ingest), `accepted` the deliveries GitHub has seen a 202
for. A processor's `batch` are the events NextBatch gave it and `cur` the one
it has handled and not marked. NextBatch is one statement, in two steps: the
subquery locks rows (NextBatch), the update commits and unlocks them (Claim),
so other claims can overlap it and skip its rows; marks wait for the row
lock. Handlers return nil or an error, in any order within a batch, since
UPDATE ... RETURNING gives none. `handled` is a history variable: it counts
the handlers that returned nil.

`Planning` looks at one feature with all its rows. `prs` are the pull requests
whose branch normalizes to its slug, `envs` its environments by created_at;
live stands for every state but destroying and destroyed, and `plan` keeps of
`desired_topology` which commit each repository runs. `inbox` are the payloads
in the order GitHub sent them, `event` what the queue knows of each; any
handler may take any event that is due, which is what EventQueue leaves of the
order. `pc` and `job` are a handler's next remote call and its locals; `lock` is
`feature:<slug>:plan_lock`. The 5 seconds of AcquireWait end either way as long
as the lock is taken. `destroyedAt` is whether destroyed_at is set, which
MarkDestroyed does and nothing undoes, so it tells a row that was torn down
and revived from one that never was. `byEvent`, `byLocked`, `unlocked` and
`shared` are history: who created and planned a row, how many handlers have
planned without the lock, lost it or written destroying over destroyed, and
which events two handlers had at once.

`Catalog` follows a name from the registry to a route. A repository is its
full_name, since Upsert keeps the id of that row; `resolver` holds where a
Resolve is: what Build has listed before it reads the edges, then the state of
TopoSort's loop (`sort`: the edges, the counters, the queue and the order so
far); `request[c]` is the addDep or removeDep that client c has under way,
between its two look-ups or before its statement; `plan` the services in that
order with the URLs injected into each; `pass` the topology syncDomains works on
and the index of the service it is at. ListEdges is TopoSort up to its loop,
SortTurn a turn of it, Refuse and Resolve its end. A turn is an action although
nothing outside can change what it reads: the states between are what an
invariant of the loop speaks of. Where the code ranges over a map, what is
queued may be in any order. Hostnames are sequences of words, because joining
with hyphens forgets where one part ends. `claimed` is history: who ever wrote a
hostname.

In `Integrations`, a seal is the record of the plain text, the key and the
nonce that made it; None is NULL. `patch` is what a PATCH has read.
last_error is kept because scanIntegration reads it into a Go string: a row
whose last_error is NULL cannot be read, so PATCH only gets past its Get after
a failed verification, and POST answers 500 although it has written the row.
The other variables are history.

### Abstractions

- Services are visited in any order: topology order is TopoSort's, which is
  any order that respects the dependencies.
- The image may exist although no run of the generation succeeded, since
  its tag is only the commit's (reconciler.go:189); Create is then a choice, and
  refused at will. Once a run has succeeded the image stays.
- Docker keeps one container per name. A failed ContainerStart leaves a
  stopped container.
- In Planning a fallback is the default branch (all four strategies pick it);
  labels, titles and merged against closed make no difference to what is run.
- Storing a topology comes one call after the last read of the registry; in
  Catalog that is one step, since nothing reads the registry in between.
- In the control plane, no pulls (best-effort), health_checks and the
  network's own runtime_resources row (nothing reads them) and timestamps. Which
  environment is idle is a free choice, so the cleaner may fire at any time.
  Statements of requests, events and the cleaner do not fail: one that does
  leaves the request undone, and another request can always come.
- ops counts requests and faults counts failures: the bounds of a run.

## Runs

All with MCControlPlane unless said otherwise; `Ops` are the requests explored.

| run | bounds | checks |
|---|---|---|
| lease (`MCLease`) | 3 clients, 4 tokens, TTL 2, wait 1 | TypeOK, MutualExclusion, OnlyOwnerDrops, WaiterReturns, ImplementsContract |
| control_plane | 1 service, 2 workers, 2 callers, 3 requests of all 7 kinds, 2 generations, no faults | TypeOK, CleanWhenDestroyed |
| services | 2 services, topologies {s1}, {s1,s2}, 1 worker, 1 caller, 3 of event, close | CleanWhenDestroyed |
| faults | 1 service, 2 workers, 1 caller, 2 of event, close, restart, 2 of crash, docker, buddy, db, exit | NothingAhead, BuildsBounded, RunsOnlyFinished, CleanWhenDestroyed, NewerNeverReplaced |
| expiry | 1 service, 3 workers, 2 of destroy, suspend, resume, 3 of crash, expire | PassHoldsLock, ImplementsLease |
| live | 1 worker, 1 caller, 3 of event, destroy, suspend, resume, clean; 1 of crash, docker | DestroyCompletes, Converges, SuspendFreezes |
| events (`MCEventQueue`) | 2 deliveries, 2 processors, batches of 1, 3 attempts, 1 crash | TypeOK, ProcessedWasHandled, AttemptsPaid, NeverReclaimed, Settles |
| planning (`MCPlanning`) | 5 histories of 2 webhooks over 2 repositories, 2 handlers, 2 attempts, 1 API call, 1 of crash, expire, resolve | TypeOK, LiveEnvsBounded, EventEnvsArePlanned, PlansAreFresh |
| catalog (`MCCatalog`) | all 64 graphs of 3 repositories and 4 of 2 with 2 clients, 2 API requests and 1 plan; or 2 environments, 2 plans and 1, a registry at rest; 1 failed statement | TypeOK, NoSelfDependency, DependenciesFirst, RefusedForCycle, CyclesAreRefused, RoutesFollowPlan |
| integrations (`MCIntegrations`) | 1 row, 2 PATCHes at once, 3 configs, 2 secrets, nonces and master keys; nothing is bounded | TypeOK, SecretOpens, RevealsLastSecret, KeepsLastConfig, DeletedStaysAway |
| claim_DestroyingTakesPrecedence, claim_AppliedInOrder (`MCPlanning`) | the smallest instance that shows it | one claim each, violated |

Why these bounds: two workers are enough for every overlap of passes as long as
no lease expires (a third would wait for the same lock); with expiry there are
three, one late, one with the key and one that takes it next, and their passes
are teardowns or end at once, since only List, TryLock, Release and the world
touch the key; two faults are a build lost twice, or a container that is
created, not recorded and then missed by a teardown; two generations show stale
against current; two callers interleave a check with another's write; a topology
that loses a service needs two services but no second worker; two deliveries and
a batch of one make the limit bind, and three attempts leave room for a failure,
a lost mark and a crash of one event. A pair of webhooks is what the order of
planning is about: two repositories that join, a pull request that goes on, is
closed, is pushed to, or is labeled after it was closed; two handlers are any
overlap, since a third would only wait or repeat. All graphs of three nodes
include every cycle; with two environments the slug `api-x` ends like the
hostname of service `api` of feature `x`, and with the entry services `web` and
`ui` two services of one environment share a hostname. Each property fails in
the same run when a plausible bug is put into the code it is about (the
`mutants` of PROJECT.json). CHECK_DEADLOCK is off in all runs but lease and
integrations because the system stops: after the last request a destroyed
environment has no more work, a queue whose events are settled is idle, and
plans and requests are used up.

What they show beyond single steps: CleanWhenDestroyed holds through every
interleaving, also when a topology drops a service (its container stays running
until teardown). Without faults `left` stays empty and nothing at all is left;
with them it tells exactly what the code leaves behind a destroyed state
(reconciler.go:284, :331-342): a container whose row was not written or not
read, what Docker would not remove, the rows whose DELETE failed. Everything else is
removed in spite of the failure, by the same teardown or, after a crash, by the
next. NewerNeverReplaced holds although
no worker compares generations, because of the lock alone, and is lost as soon
as a lease expires; Converges holds although MarkDestroyed and setState
overwrite each other's states, because every pass starts from the rows; and
SuspendFreezes holds although suspend does not stop the pass under way. Settles
holds although a batch is limited and every mark may be lost, because each claim
costs an attempt: an event that keeps failing leaves the front of the queue
after MaxAttempts claims.

RunsOnlyFinished is what remains of "run only what was built": a pass removes
the running container only after the run that its deployment names has ended,
though crashes, lost inserts and unread deployments start other runs of the same
build that go on, because the row names a run before it says anything of its
outcome, and no other worker changes that name in between. It is about the end
of that run, not its success, and it is lost with the lease: a worker whose
lease ran out can store a new run between another's NextService and its Record,
which then writes the old run's outcome beside the new id. LiveEnvsBounded holds
for any order and overlap of handlers: each push, create or restart, each
planner whose lease runs out, and each markDestroying that writes over
destroyed, can add one live environment (createEnv looks and creates in two
calls; a state written late revives a destroyed row), and nothing else can.
PlansAreFresh holds although every handler writes its pull request before it
waits for the lock and resolves from a moving table: whoever wrote last also
plans last, or finds its row in the table. EventEnvsArePlanned holds through a
crash between Create and BumpGeneration, because the retry finds the row. Both
are stated for events that were never in the hands of two processors at once: a
shared event that is applied late is never planned again; and for a newest
environment that was not torn down and revived. RefusedForCycle and
CyclesAreRefused say that registering after Build has listed the repositories is
the only way to a false cycle, and to a cycle that goes unnoticed;
DependenciesFirst that not even that makes Resolve inject the URL of a service
that comes later or not at all. RoutesFollowPlan shows that hostnames are lost
only to another environment, never to a pass of one's own; whose a contested one
is, it does not say. In Integrations, KeepsLastConfig and DeletedStaysAway pin
the damage of PATCH's read-modify-write to PATCHes that overlap.

### Fairness

Goroutines that have a next call take it (WF of each worker, of each processor
and of the statements of a request that has begun); Redis deletes a key whose
TTL ran out; Buddy's builds end. No fairness for new requests, faults, or lease
expiries of live workers. A worker's timer fires for ever, which List stands
for. The wait loop of AcquireWait is fair because it polls every 200 ms; Release
is fair because every caller defers it. Weak fairness suffices throughout:
nothing a worker or a request is about to do is ever disabled by others, but
TryLock, which has an outcome either way, and the mark of an event, which waits
only for a claim that is about to commit. `live` has one worker, which finds the
lock taken only by the worker it was before a crash; with two, one may lose the
race for ever, yet some worker wins it.

## Findings

Two sentences of the code's comments have a run that finds them violated
(quotes in PROJECT.json): DestroyingTakesPrecedence, a pass overwrites a destroy
request (reconciler.go:355 against :102-103); and AppliedInOrder, retries and
an unordered RETURNING apply an older webhook after a newer one
(events.go:49 against processor.go:5-7).

Other differences between documents and code were met while modelling and have
no run of their own. In the control plane:

- Leases are never refreshed (locks.go:35, :73), so a pass that outlives the
  TTL overlaps the next one (locks.go:2-3): PassHoldsLock and NewerNeverReplaced
  are stated for leases that have not run out.
- The captured generation is never compared with the row (reconciler.go:98
  against :14-15): a pass goes on creating containers of generation N after the
  row went to N+1. NothingAhead is the direction that holds.
- Restart writes deploying whatever the state is (api.go:403), so a destroyed
  environment comes back (environment-lifecycle.md:43).
- After a failed build the next tick skips the poll and replaces the running
  container (reconciler.go:240 against data-flow.md:44-46, where RunContainer
  comes under "alt Run succeeded"). RunsOnlyFinished with success for ended is
  violated already without a fault: the run fails, RecordFailed, the next pass
  goes from NextService to RemoveOld. If the image of the commit is there the
  container comes back, if not the service has none.
- bumpGeneration and others write states the FSM table forbids (processor.go:251
  against fsm.go:2-3); the cleaner's query does not exclude suspended
  environments (envs.go:121 against environment-lifecycle.md:50-52); healthy is
  written while a build of the generation still runs (reconciler.go:170, :252);
  every tick recreates every container (reconciler.go:270 against :10), and since
  runtime_resources has no unique key its ON CONFLICT never fires and every tick
  adds rows (events.go:86-99).
- A worker that dies between ContainerCreate and Runtime.Upsert leaves a
  container no teardown finds (reconciler.go:284), and tearDown drops every
  error of its five calls before it marks the environment destroyed (:331-342),
  which ActiveForReconcile then never lists again. CleanWhenDestroyed says what
  is left and that nothing else is.
- The error of ByEnvGeneration is dropped (reconciler.go:204): a connection lost
  there starts a build that is already running again, and the row forgets the first.
- Nothing ever writes failed for an environment whose services all failed
  (reconciler.go:168).

Events and planning:

- The claim of SKIP LOCKED ends with its statement, so two processors can handle
  one event at a time (events.go:36-37 says "without stepping on each other").
- createEnv, requestRestart and handlePush plan without the feature lock: two live
  environments for one feature (api/reference.md:96), a stale topology stored
  under a later generation.
- markDestroying looks the environment up and writes without the feature lock
  (processor.go:255-262): a late one revives an environment that was torn down,
  and the next opened event plans it again beside the one created since.
- Closing one repository's pull request destroys the feature's environment
  though others are open (processor.go:147-149); labeling a closed one plans an
  environment (processor.go:143).

Registry, routes and integrations:

- addDep accepts cycles; from then on every Resolve is refused.
- TopoSort only compares the length of its order with that of the list
  (graph.go:79 against :42-43, "Returns an error if a cycle is detected"), and
  the order also holds repositories that were registered and linked after the
  list was read. Two of those make up for the two of a cycle: with the condition
  on the list dropped from CyclesAreRefused, a registry of three with a cycle of
  two and four requests (register, register, link, link) violate it. A service
  without a repository is then planned for each, and the two of the cycle are
  missing.
- Two of frontend, web, app and ui with ports share one hostname; `api-x`-like
  slugs share hostnames with services of other features, and domains.hostname
  changes hands on every pass; a restart, which resolves without its pull request,
  renames the hostnames of the environment.
- reconcileService looks the repository up by the name in the topology
  (reconciler.go:182): after a rename the service fails, or another repository
  that took the name is built.
- last_error is NULL for a fresh or verified integration and cannot be scanned
  (integrations.go:217): POST, GET, the list and PATCH answer 500.
- A secret that is replaced keeps the verification of the old one
  (integrations.go:107-115); verify after a delete answers 200 with null.

## Proofs

Assumptions are those of the modules: MaxGen, MaxOps and MaxFaults are naturals,
NoService, Nobody and Orphan are none of the services or workers, topologies are
sets of services, and TTL is positive; of Catalog, that there are finitely many
repositories, that requests ask for rows of the table's type, that None is no
route and no hostname, and that a run starts with unique names and no dependency
of a repository on itself.

`LeaseProofs`. MutualExclusion is not inductive: the invariant adds that a
lease that has not run out means the key holds the client's token and the two
countdowns agree (LeaseIsKey), and that tokens of different clients differ. The
last conjunct is what a late Release needs: it compares, and so finds its own
token only in its own lease. OnlyOwnerDrops follows step by step from the same
invariant.

`ControlPlaneProofs`. TypeOK is not inductive either: a worker indexes
deployments by the generation it captured and the service at hand, so the
invariant Typed adds that a row with a topology has a generation (RowPlanned) and
that a pass past Read works on a planned generation and, within
reconcileService, on a service (PassPlanned). The proof goes by groups of
variables: what a step does to its worker (Move and its variants, PassWorkers),
to the rows (PassStore), to the host (PassContainers), to Buddy (PassRuns), to
the fault counter (PassFaults), and then the callers, Redis and the world. The
same lemmas carry the other two theorems. PassHoldsLock is inductive given
the types: only List, TryLock and Release touch the key or enter and leave a
pass, and Release and a crash compare before they touch it. NothingAhead needs
Behind, that no captured generation is ahead of the row; then every
deployment, run or container a pass writes is of a generation the row
has reached, and the row's generation never decreases.

`WorkersKeepContract` is the refinement step by step: of the steps of
ControlPlane, those that touch the key are Grant, Release, Abandon or Lapse of
LeaseContract, and all others leave its owner alone; `LeaseKeepsContract` in
`LeaseProofs` is its counterpart, with the owner read off the key and the
clients' tokens. Both are about LeaseContract's Safety, its Spec without
fairness.

`PassProofs`, builds. BuildsBounded holds under every fault, expired leases
included. It is an account (Accounted): the runs of a generation's service, the
workers that may still start one although their lease has run out (Astray), and
the build that is due are never more than one and the faults. A worker with a
lease owns the lock (LockKept), so that one at most is about to start what is
due; and a run that is about to be inserted has an id and is building
(Inserting), so that without a fault the row names it afterwards.

The other three are proved for FaultKinds without "expire", with crashes and
every failure of Docker, Buddy and PostgreSQL; with expired leases they are false.
What they use of that is that passes do not overlap (OnePass). RunsOnlyFinished: a
row that has a run and does not say building names a run that has ended, as
does every step that acts on an outcome; and the run a worker has polled is the
one the row still names (Finished), so that Record writes the outcome beside the
right id. A run that has ended stays so, and how many others were started does not
matter. NewerNeverReplaced: of a generation newer than the one a pass deploys
nothing has begun (NewerUntouched).

CleanWhenDestroyed has a strengthening that follows the teardown (Clean): every
container has its runtime row, or a failure left it without one, or it is the
one a pass is about to record (Tracked); each call of tearDown has removed its
part, or failed to, by the time of the next (TornDown); and once the row says
destroyed no pass is under way that read anything else (Gone). Kept and
EmptiedStays say what a step of no consequence keeps; DeployClean, TeardownClean
and OthersClean are the three kinds of step. The hypothesis on expiry is all
that is excluded.

`EventQueueProofs`. TypeOK bounds the attempts by MaxAttempts, which a claim
increments without looking again; QueueInv adds what makes that right: a running
NextBatch has locked rows that are due and that no other running one has. A
row stays due while it is locked because marks wait (LockedStaysDue), which is
also NeverReclaimed. ProcessedWasHandled needs that whoever is about to mark has
handled (MarksHandled). AttemptsPaid counts the processors that hold an event:
a claim adds a holder and an attempt, a handling turns a holder into one of
`handled`.

`IntegrationsProofs`. SecretInv is inductive: the two CASEs of Upserted, one per
column, together leave the secret and its nonce alone, clear both, or store a
seal with its nonce (UpsertedCases), and the other handlers keep both or the
whole row. RevealsLastSecret adds the history: Sent follows the same three
cases, and a PATCH cannot undo a secret because Keep is decided by the
statement, not by what was read. KeepsLastConfig and DeletedStaysAway are not
inductive: a PATCH under way holds a copy of the row. The strengthening
(PatchesFresh) says that a copy that is not stale still has before it the row it
was made of, with the same config; every handler that changes the row marks the
copies stale (ChangedMarks).

`PlanningProofs`. Typed adds to TypeOK which handlers can be at which call
(Handling), that only handlers that take the lock have it (Holding) and that open
pull requests have a head. LiveEnvsBounded needs an account of what has not
happened yet. A handler is a stray when it plans without the lock and can
still create or revive; strays are never more than `unlocked` (StraysPaid).
The environments that stand or can still be revived, plus the strays and
planners that are about to create one, are never more than one and `unlocked`
(EnvsPaid). A planner with the lock that finds nothing finds everything torn
down, and all others still at work are strays, which pay for themselves.

`TopologyProofs`. Both properties are about the end of everything, so the
invariants say what is owed until then, given that no two handlers have one
event (OneHolder). NewestOwed: while the newest environment of an event has no
topology, some event is unprocessed and its handler, if any, is not past the
plan. For PlansAreFresh, an event whose handler has not got to the look-up under
the lock is pending; what the owner of the lock has read is fresh unless an
event is pending (OwnerFresh), and so is the plan of the newest environment
unless an event is pending or a handler under way to plan it (RowFresh). An
Upsert makes its own event pending; only Locks, which starts a reading of the
whole table, ends that.

The attempt to prove these found the model wrong once. EnvsPaid failed where a
late markDestroying revives an environment: the runs had not seen it, because it
takes five webhooks, and with eight LiveEnvsBounded itself was violated. The
code does behave so (see "Findings"); `unlocked` now counts that write, and what
is said of the newest environment excludes one that has its destroyed_at.

`CatalogProofs`. What a recursive definition of TopoSort returns cannot be
proved here; what its loop keeps can, with a turn of the loop as an action.
SortInv is the invariant of Kahn's algorithm: a counter is the number of
dependencies that are not in the order yet, what is at zero is in the order or
in the queue and only once, and a repository comes after everything it depends
on. It holds for every graph, edges of unlisted repositories included, which is
DependenciesFirst. Given that no edge leaves the list, what the loop ends
without waits for one another (RefusedIsCyclic), and an order with all of them
has none on a cycle, since the first of those would have its dependency before
it (SortedIsAcyclic, by the well-foundedness of <). That no edge leaves it as
long as it is complete is RegistryInv: rows are never deleted, so a request
between two look-ups, and a resolver between its two reads, still refers to
registered repositories. That holds of each client's request (RequestInv), and a
step of one client leaves those of the others alone (OneHandled). RouteInv is
about a syncDomains that is under way: the row of a hostname nobody else has
written is what the services up to the one it is at make of it (Written, the
last of several with one hostname); DeleteForEnv makes that true of none, and
Ahead says when it is true of all.

Only model-checked:

- the liveness properties WaiterReturns, DestroyCompletes, Converges,
  SuspendFreezes and Settles, and the fairness of LeaseContract in
  ImplementsContract and ImplementsLease: they need ENABLED, which is outside
  the prover's reach.

## Plan

1. Done: locks, reconciler and everything that writes the row; the event queue;
   planning; registry, resolver and routes; integrations. Theorems for every
   safety property of the passing runs, and for the two uses of LeaseContract.
2. Left: a composition of Catalog and Reconciler (see below), and the
   liveness properties, which stay with TLC.

## Not modelled

- `ActiveForReconcile`'s LIMIT 100 (envs.go:66): passes that return early never
  touch last_reconciled_at, so a hundred suspended environments keep everyone
  else out. The model would need as many environments as the limit, and its
  property would repeat the ORDER BY.
- The dashboard: a client that only reads, corrected by its next poll.
- The normalizer: string rewriting without state. What depends on it, that
  slugs are compared and hostname words concatenated, is in Planning and Catalog.
- Traefik labels (formatting), the webhook's signature check, HTTP decoding,
  configuration parsing, encryption itself, health_checks rows.
- A repository renamed under a running pass, which needs Catalog and Reconciler
  in one state space; both are at their bounds already.
