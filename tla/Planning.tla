------------------------------ MODULE Planning ------------------------------
(***************************************************************************)
(* How GitHub's events and the API plan the environments of one feature:   *)
(* the handlers of internal/events/processor.go, createEnv and             *)
(* requestRestart of internal/api/api.go and Resolve of                    *)
(* internal/topology/resolver.go, one step per remote call. The queue is   *)
(* what EventQueue leaves of it: any processor may take any event that is  *)
(* not processed and has attempts left, in any order and also while        *)
(* another one works on it.                                                *)
(***************************************************************************)
EXTENDS FeatureStore, Faults, FiniteSets

CONSTANTS Histories,    \* the sequences of webhooks a run explores
          Handlers,     \* goroutines that handle events and requests
          Calls,        \* the API calls explored: "create", "restart"
          MaxCalls,     \* bound: API calls
          MaxAttempts,  \* the 10 of NextBatch
          Nobody, Orphan

Actions == {"opened", "synchronize", "labeled", "closed", "push"}

\* What a webhook carries: the pull request as it was when GitHub sent it.
Payloads == [action : Actions, pr : PRs, sha : 1..MaxCommits, state : {"open", "closed"}]

\* GitHub sends "closed" for a pull request that is.
ASSUME HistoriesAssumption ==
  /\ Histories \subseteq Seq(Payloads)
  /\ \A hist \in Histories : \A e \in DOMAIN hist :
        hist[e].action = "closed" => hist[e].state = "closed"
ASSUME HandlersAssumption == IsFiniteSet(Handlers)
ASSUME CallsAssumption == Calls \subseteq {"create", "restart"}
ASSUME AttemptsAssumption == MaxAttempts \in Nat /\ MaxCalls \in Nat
ASSUME KeyAssumption == Nobody # Orphan /\ {Nobody, Orphan} \cap Handlers = {}

VARIABLES inbox,     \* the payloads in the order GitHub sent them
          event,     \* attempt_count and processed_at of each
          lock,      \* the key feature:<slug>:plan_lock
          pc,        \* the next remote call of each handler
          job,       \* its locals
          calls,     \* API calls so far
          unlocked,  \* history: handlers so far that plan without the lock, lost it,
                     \* or wrote to an environment that was torn down
          shared     \* history: events taken while another handler had them

handlerVars == <<event, lock, pc, job>>
vars == <<featureVars, inbox, handlerVars, calls, unlocked, shared, faults>>

Jobs == [kind : Actions \cup {"create", "restart", "none"},
         ev : Nat,                 \* index in inbox, 0 for an API call
         origin : Picks,           \* originPR
         env : 0..MaxEnvs,
         todo : SUBSET Repos,      \* repositories pickBranch has not visited
         plan : Plans]

NoJob == [kind |-> "none", ev |-> 0, origin |-> None, env |-> 0, todo |-> {}, plan |-> NoPlan]

Pcs == {"idle", "upsert", "feature", "lock", "find", "create", "branch", "resolve",
        "bump", "state", "unplanned", "destroy", "ok", "error", "mark"}

TypeOK ==
  /\ FeatureTypeOK
  /\ FaultsTypeOK
  /\ inbox \in Histories
  /\ event \in [DOMAIN inbox -> [attempts : 0..MaxAttempts, processed : BOOLEAN]]
  /\ lock \in Handlers \cup {Nobody, Orphan}
  /\ pc \in [Handlers -> Pcs]
  /\ job \in [Handlers -> Jobs]
  /\ \A h \in Handlers :
        /\ pc[h] \in {"branch", "resolve", "bump", "state", "unplanned", "destroy"}
              => job[h].env \in DOMAIN envs
        /\ job[h].ev # 0 => job[h].ev \in DOMAIN inbox
  /\ calls \in 0..MaxCalls
  /\ unlocked \in Nat
  /\ shared \subseteq DOMAIN inbox

Init ==
  /\ FeatureInit
  /\ FaultsInit
  /\ inbox \in Histories
  /\ event = [i \in DOMAIN inbox |-> [attempts |-> 0, processed |-> FALSE]]
  /\ lock = Nobody
  /\ pc = [h \in Handlers |-> "idle"]
  /\ job = [h \in Handlers |-> NoJob]
  /\ calls = 0
  /\ unlocked = 0
  /\ shared = {}

-----------------------------------------------------------------------------
Payload(h) == inbox[job[h].ev]

\* The handlers that plan without the feature lock.
Unlocked == {"push", "create", "restart"}

\* Handler h makes the remote call `from` and goes on to `to`.
Go(h, from, to) ==
  /\ pc[h] = from
  /\ pc' = [pc EXCEPT ![h] = to]
  /\ NoFault
  /\ UNCHANGED <<inbox, calls, unlocked, shared>>

Local(h, change) == job' = [job EXCEPT ![h] = change]

\* A handler starts: the event's attempt is counted by NextBatch.
Start(h, new, next) ==
  /\ pc[h] = "idle"
  /\ pc' = [pc EXCEPT ![h] = next]
  /\ job' = [job EXCEPT ![h] = new]
  /\ unlocked' = IF new.kind \in Unlocked THEN unlocked + 1 ELSE unlocked
  /\ NoFault
  /\ UNCHANGED <<featureVars, inbox, lock>>

\* handle: by type. A pull_request brings its own origin, a push looks for one.
handle(h, e) ==
  LET payload == inbox[e]
      push == payload.action = "push"
  IN /\ ~event[e].processed
     /\ event[e].attempts < MaxAttempts
     /\ event' = [event EXCEPT ![e].attempts = @ + 1]
     /\ Start(h, [NoJob EXCEPT !.kind = payload.action, !.ev = e,
                    !.origin = IF push THEN None ELSE <<payload.pr, payload.sha>>],
              IF push THEN "feature" ELSE "upsert")
     /\ shared' = IF \E g \in Handlers : job[g].ev = e THEN shared \cup {e} ELSE shared
     /\ UNCHANGED calls

\* POST /environments and POST /deployments/restart.
call(h, kind) ==
  /\ kind \in Calls
  /\ calls < MaxCalls
  /\ calls' = calls + 1
  /\ Start(h, [NoJob EXCEPT !.kind = kind], IF kind = "create" THEN "feature" ELSE "find")
  /\ UNCHANGED <<event, shared>>

\* handlePR, first half: the row of the pull request is set to the payload's.
UpsertPR(h) ==
  /\ Go(h, "upsert", "feature")
  /\ Upsert(Payload(h).pr, Payload(h).sha, Payload(h).state)
  /\ UNCHANGED <<feature, envs, event, lock, job>>

\* handlePR and createEnv: Features.GetOrCreate. Only a pull request that is
\* not closed takes the feature lock.
GetOrCreate(h) ==
  /\ job[h].kind # "push"
  /\ Go(h, "feature", IF job[h].kind \in {"closed", "create"} THEN "find" ELSE "lock")
  /\ feature' = TRUE
  /\ UNCHANGED <<prs, envs, event, lock, job>>

\* handlePush: Features.BySlug; a push without a feature is informational.
BySlug(h) ==
  /\ job[h].kind = "push"
  /\ Go(h, "feature", IF feature THEN "find" ELSE "ok")
  /\ UNCHANGED <<featureVars, event, lock, job>>

\* Mutant of AcquireWait: the planner goes on without the lock when it is taken.
AcquireWait_IgnoreTimeout(h) ==
  /\ Go(h, "lock", "find")
  /\ lock' = IF lock = Nobody THEN h ELSE lock
  /\ UNCHANGED <<featureVars, event, job>>

\* ensureAndBump: the lock is free within the 5 seconds of the wait.
AcquireWait(h) ==
  /\ Go(h, "lock", "find")
  /\ lock = Nobody
  /\ lock' = h
  /\ UNCHANGED <<featureVars, event, job>>

\* ErrLocked: "feature locked (retry)".
GiveUp(h) ==
  /\ lock # Nobody
  /\ Go(h, "lock", "error")
  /\ UNCHANGED <<featureVars, event, lock, job>>

\* Where each handler goes when Envs.ByFeature finds a row, and when it does not.
AfterFound(kind) ==
  CASE kind = "closed" -> "destroy"
    [] kind = "push"   -> "branch"
    [] kind = "create" -> "ok"
    [] OTHER           -> "resolve"

AfterNotFound(kind) ==
  IF kind \in {"closed", "push", "restart"} THEN "ok" ELSE "create"

Find(h, i) ==
  LET kind == job[h].kind
  IN /\ kind # "restart"
     /\ ByFeature(i)
     /\ Go(h, "find", IF i = 0 THEN AfterNotFound(kind) ELSE AfterFound(kind))
     /\ Local(h, [job[h] EXCEPT !.env = i, !.todo = Repos])
     /\ UNCHANGED <<featureVars, event, lock>>

\* requestRestart names the environment, whatever its state is, and gets the
\* feature's slug from its topology.
FindByID(h, i) ==
  /\ job[h].kind = "restart"
  /\ Go(h, "find", IF envs[i].planned THEN "resolve" ELSE "state")
  /\ Local(h, [job[h] EXCEPT !.env = i, !.todo = Repos])
  /\ UNCHANGED <<featureVars, event, lock>>

NoSuchEnv(h) ==
  /\ job[h].kind = "restart"
  /\ Go(h, "find", "ok")
  /\ UNCHANGED <<featureVars, event, lock, job>>

\* Mutant of CreateEnv: the id of the new row is not scanned.
CreateEnv_NoID(h) ==
  /\ Go(h, "create", "resolve")
  /\ Create(job[h].kind # "create")
  /\ UNCHANGED <<prs, feature, event, lock, job>>

\* ensureAndBump and createEnv: Envs.Create.
CreateEnv(h) ==
  /\ Go(h, "create", "resolve")
  /\ Create(job[h].kind # "create")
  /\ Local(h, [job[h] EXCEPT !.env = Len(envs) + 1])
  /\ UNCHANGED <<prs, feature, event, lock>>

\* handlePush: PRs.FindOpenByBranch.
FindBranch(h) ==
  /\ Go(h, "branch", "resolve")
  /\ Local(h, [job[h] EXCEPT !.origin = FindOpenByBranch(Payload(h).pr)])
  /\ UNCHANGED <<featureVars, event, lock>>

\* Mutant of pickBranch: the origin's branch is preferred to the table.
pickBranch_OriginFirst(r, origin) ==
  IF origin # None /\ RepoOf[origin[1]] = r THEN {origin}
  ELSE IF OpenIn(r) # {} THEN {<<p, prs[p].sha>> : p \in OpenIn(r)}
  ELSE {None}

\* pickBranch: an open pull request of the repository (any, without an order),
\* else the origin's own branch, else the default branch.
pickBranch(r, origin) ==
  IF OpenIn(r) # {} THEN {<<p, prs[p].sha>> : p \in OpenIn(r)}
  ELSE IF origin # None /\ RepoOf[origin[1]] = r THEN {origin}
  ELSE {None}

\* Resolve asks for the pull requests of one repository at a time.
Resolve(h, r) ==
  /\ r \in job[h].todo
  /\ Go(h, "resolve", IF job[h].todo = {r} THEN "bump" ELSE "resolve")
  /\ \E pick \in pickBranch(r, job[h].origin) :
        Local(h, [job[h] EXCEPT !.todo = @ \ {r}, !.plan[r] = pick])
  /\ UNCHANGED <<featureVars, event, lock>>

\* Resolve returns an error: createEnv ignores it, restart goes on to the
\* state, and bumpGeneration writes failed.
ResolveFails(h) ==
  /\ "resolve" \in FaultKinds
  /\ pc[h] = "resolve"
  /\ Fault("resolve")
  /\ pc' = [pc EXCEPT ![h] = CASE job[h].kind = "create"  -> "ok"
                               [] job[h].kind = "restart" -> "state"
                               [] OTHER                   -> "unplanned"]
  /\ UNCHANGED <<featureVars, inbox, event, lock, job, calls, unlocked, shared>>

\* Mutant of MarkFailed: the error of Resolve is not returned.
MarkFailed_Nil(h) ==
  /\ Go(h, "unplanned", "ok")
  /\ UpdateState(job[h].env, "live")
  /\ UNCHANGED <<prs, feature, event, lock, job>>

MarkFailed(h) ==
  /\ Go(h, "unplanned", "error")
  /\ UpdateState(job[h].env, "live")
  /\ UNCHANGED <<prs, feature, event, lock, job>>

Bump(h) ==
  /\ Go(h, "bump", "state")
  /\ BumpGeneration(job[h].env, job[h].plan, lock = h)
  /\ UNCHANGED <<prs, feature, event, lock, job>>

\* UpdateState to resolving (restart: to deploying), whatever the state is now.
MarkResolving(h) ==
  /\ Go(h, "state", "ok")
  /\ UpdateState(job[h].env, "live")
  /\ UNCHANGED <<prs, feature, event, lock, job>>

\* The write comes without the lock, and whatever the state is now: it can
\* revive an environment that was torn down since the look-up.
markDestroying(h) ==
  /\ pc[h] = "destroy"
  /\ pc' = [pc EXCEPT ![h] = "ok"]
  /\ UpdateState(job[h].env, "destroying")
  /\ unlocked' = IF envs[job[h].env].state = "destroyed" THEN unlocked + 1 ELSE unlocked
  /\ NoFault
  /\ UNCHANGED <<prs, feature, inbox, event, lock, job, calls, shared>>

\* The handler returns, with nil or an error; the deferred Release runs first.
Return(h, from, next) ==
  /\ Go(h, from, next)
  /\ lock' = IF lock = h THEN Nobody ELSE lock

ReturnNil(h) ==
  /\ Return(h, "ok", IF job[h].ev = 0 THEN "idle" ELSE "mark")
  /\ Local(h, IF job[h].ev = 0 THEN NoJob ELSE job[h])
  /\ UNCHANGED <<featureVars, event>>

\* The event is tried again later.
ReturnError(h) ==
  /\ Return(h, "error", "idle")
  /\ Local(h, NoJob)
  /\ UNCHANGED <<featureVars, event>>

MarkProcessed(h) ==
  /\ Go(h, "mark", "idle")
  /\ event' = [event EXCEPT ![job[h].ev].processed = TRUE]
  /\ Local(h, NoJob)
  /\ UNCHANGED <<featureVars, lock>>

Work(h) ==
  \/ UpsertPR(h) \/ GetOrCreate(h) \/ BySlug(h)
  \/ AcquireWait(h) \/ GiveUp(h)
  \/ (\E i \in 0..Len(envs) : Find(h, i)) \/ (\E i \in DOMAIN envs : FindByID(h, i)) \/ NoSuchEnv(h)
  \/ CreateEnv(h) \/ FindBranch(h)
  \/ (\E r \in Repos : Resolve(h, r)) \/ ResolveFails(h) \/ MarkFailed(h)
  \/ Bump(h) \/ MarkResolving(h) \/ markDestroying(h)
  \/ ReturnNil(h) \/ ReturnError(h) \/ MarkProcessed(h)

-----------------------------------------------------------------------------
\* The process dies in a handler: its key is left to its TTL.
Crash(h) ==
  /\ pc[h] # "idle"
  /\ Fault("crash")
  /\ pc' = [pc EXCEPT ![h] = "idle"]
  /\ Local(h, NoJob)
  /\ lock' = IF lock = h THEN Orphan ELSE lock
  /\ UNCHANGED <<featureVars, inbox, event, calls, unlocked, shared>>

OrphanExpires ==
  /\ lock = Orphan
  /\ lock' = Nobody
  /\ NoFault
  /\ UNCHANGED <<featureVars, inbox, event, pc, job, calls, unlocked, shared>>

\* Planning outlasts DefaultLockTTL, which nobody extends; the planner does not
\* learn of it, and its Release compares tokens.
LeaseExpires(h) ==
  /\ lock = h
  /\ Fault("expire")
  /\ lock' = Nobody
  /\ unlocked' = unlocked + 1
  /\ UNCHANGED <<featureVars, inbox, event, pc, job, calls, shared>>

\* The reconciler tears a destroying environment down (tearDown).
TearDown(i) ==
  /\ envs[i].state = "destroying"
  /\ MarkDestroyed(i)
  /\ NoFault
  /\ UNCHANGED <<prs, feature, inbox, handlerVars, calls, unlocked, shared>>

Next ==
  \/ \E h \in Handlers :
        \/ \E e \in DOMAIN inbox : handle(h, e)
        \/ \E kind \in Calls : call(h, kind)
        \/ Work(h)
        \/ Crash(h) \/ LeaseExpires(h)
  \/ OrphanExpires
  \/ \E i \in DOMAIN envs : TearDown(i)

Spec == Init /\ [][Next]_vars

-----------------------------------------------------------------------------
Live == {i \in DOMAIN envs : envs[i].state = "live"}

\* Every event is processed, none was ever in the hands of two processors at
\* once, and no handler is at work.
Settled ==
  /\ \A e \in DOMAIN inbox : event[e].processed
  /\ shared = {}
  /\ \A h \in Handlers : pc[h] = "idle"

\* One environment per feature (api/reference.md:96, "If an environment already
\* exists for that feature, it is returned"): the feature lock keeps it through
\* retries, crashes and events that two processors handle at once. Each handler
\* that plans without the lock, or outlasts it, can break it by one environment
\* only, and so can each late write of markDestroying (processor.go:255-262).
LiveEnvsBounded == Cardinality(Live) <= 1 + unlocked

\* The environment that the features' look-ups find first, unless it was torn
\* down and revived since.
Newest == {i \in Live \cap {Len(envs)} : ~envs[i].destroyedAt}

\* The newest environment, if an event has created it, gets a topology, though a
\* crash or a failed resolution can come between the two (processor.go:211-229):
\* the event is tried again and finds the row.
EventEnvsArePlanned ==
  Settled => \A i \in Newest : envs[i].byEvent => envs[i].planned

\* If repository r has an open pull request, the plan runs one of r, at its head
\* as the table has it unless it was closed since.
Fresh(r, plan) ==
  OpenIn(r) # {} =>
    \E p \in PRs, sha \in 1..MaxCommits :
       /\ plan[r] = <<p, sha>>
       /\ RepoOf[p] = r
       /\ prs[p].state = "open" => prs[p].sha = sha

\* The newest environment, if a holder of the feature lock planned it last, runs
\* the open pull requests as the table has them, though each handler writes the
\* table before it waits for the lock and reads it one repository at a time
\* (processor.go:127, :201, resolver.go:57-64).
PlansAreFresh ==
  Settled => \A i \in Newest : envs[i].byLocked => \A r \in Repos : Fresh(r, envs[i].plan)

\* "This worker reads them in order ..., applies the changes, and marks them
\* processed" (processor.go:5-7): when everything is processed, the table has
\* each pull request as GitHub described it last. The code does not keep it.
AppliedInOrder ==
  Settled =>
    \A e \in DOMAIN inbox :
       (inbox[e].action # "push"
          /\ \A f \in DOMAIN inbox : inbox[f].pr = inbox[e].pr /\ inbox[f].action # "push" => f <= e)
         => prs[inbox[e].pr] = [sha |-> inbox[e].sha, state |-> inbox[e].state]
=============================================================================
