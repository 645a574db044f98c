---------------------------- MODULE ControlPlane ----------------------------
(***************************************************************************)
(* The control plane of one environment: the reconcilers of all processes, *)
(* the requests, events and the cleaner, over the rows in PostgreSQL, the  *)
(* deploy lock in Redis, the Docker host and the Buddy service.            *)
(***************************************************************************)
EXTENDS Leftovers, Requests

vars == <<row, dep, dom, rr, ctr, net, runs, passed, broken, faults,
          lock, pc, pass, lapsed, left, call, ops>>

TypeOK ==
  /\ StoreTypeOK
  /\ DockerTypeOK
  /\ BuddyTypeOK
  /\ FaultsTypeOK
  /\ ReconcilerTypeOK
  /\ LeftTypeOK
  /\ RequestsTypeOK

Init ==
  /\ StoreInit
  /\ DockerInit
  /\ BuddyInit
  /\ FaultsInit
  /\ ReconcilerInit
  /\ LeftInit
  /\ RequestsInit

Worker(w) == Pass(w) /\ Remember(w) /\ UNCHANGED callVars

Dying(w) == Crash(w) /\ Remember(w) /\ UNCHANGED callVars

Caller(c) ==
  /\ Request(c) \/ Write(c)
  /\ NoFault
  /\ UNCHANGED <<workerVars, dockerVars, buddyVars, left>>

Redis == (LeaseExpires \/ OrphanExpires) /\ UNCHANGED <<callVars, left>>

World == Surroundings /\ UNCHANGED <<storeVars, workerVars, callVars, left>>

Next ==
  \/ \E w \in Workers : Worker(w) \/ Dying(w)
  \/ \E c \in Callers : Caller(c)
  \/ Redis
  \/ World

\* Redis deletes a key whose TTL has run out.
RedisFairness == WF_vars(OrphanExpires /\ UNCHANGED <<callVars, left>>)

\* Goroutines run; a key nobody can release expires; builds end.
Fairness ==
  /\ \A w \in Workers : WF_vars(Worker(w))
  /\ \A c \in Callers :
        WF_vars(Write(c) /\ NoFault
                  /\ UNCHANGED <<workerVars, dockerVars, buddyVars, left>>)
  /\ RedisFairness
  /\ \A g \in Gens, s \in Services :
        WF_vars(Finish(g, s) /\ NoFault /\ UNCHANGED dockerVars
                  /\ UNCHANGED <<storeVars, workerVars, callVars, left>>)

Spec == Init /\ [][Next]_vars
FairSpec == Spec /\ Fairness

\* Where only the lock is in question, only Redis has to be fair.
LeaseSpec == Spec /\ RedisFairness

-----------------------------------------------------------------------------
\* A worker between its Acquire and its Release.
InPass(w) == pc[w] \notin {"idle", "listed"}

\* A worker that has read the row in this pass.
HasRead(w) == InPass(w) /\ pc[w] # "locked"

\* No operation is under way, and none will come.
Quiet == ops = MaxOps /\ \A c \in Callers : call[c] = "none"

\* While its lease has not run out, a worker in a pass has the deploy lock:
\* two passes overlap only after an expiry, whatever crashes and late
\* releases do to the key (locks.go:85-95, reconciler.go:79-87).
PassHoldsLock == \A w \in Workers : InPass(w) /\ w \notin lapsed => lock = w

\* No deployment, build or container belongs to a generation that the row has
\* not reached: a generation number is never used before its topology is
\* stored with it (reconciler.go:96-98, envs.go:104-113).
NothingAhead ==
  /\ \A s \in Services : ctr[s].gen <= row.gen
  /\ \A g \in Gens, s \in Services :
        g > row.gen => dep[g][s] = NoDeployment /\ runs[g][s] = 0

\* A worker that captured a generation before a newer one was planned never
\* puts its container where work on the newer one has begun: as long as no
\* lease expires during a pass, what serializes them is the lock
\* ("generations protect against stale workers", reconciler.go:13-15).
NewerNeverReplaced ==
  [][\A s \in Services :
        ctr'[s].gen # ctr[s].gen /\ ctr'[s].gen > 0
          => \A g \in Gens : g > ctr'[s].gen => dep[g][s] = NoDeployment]_vars

\* A build is started again only after something failed between Buddy's
\* acceptance of the first one and the row that records its run id
\* (reconciler.go:203-237): never more runs than faults, plus one.
BuildsBounded == \A g \in Gens, s \in Services : runs[g][s] <= 1 + faults

\* A pass touches the running container for a generation only once the very
\* run its deployment names has ended, however many other runs of that build
\* were started and lost: the state that lets a pass skip the poll was
\* recorded for that run (reconciler.go:209-215, :239-256). Holds only while
\* no lease expires, and that the run succeeded is more than the code keeps.
RunsOnlyFinished ==
  \A w \in Workers : pc[w] \in {"remove", "create"} => Status(w) # "INPROGRESS"

\* Once the row says destroyed, nothing of the environment is left on the
\* host, and no domain or runtime row either, but for what a failed call or a
\* crash left: a container without its row or that Docker would not remove,
\* the network that call failed for or a container kept, the rows whose
\* DELETE failed (reconciler.go:284, :327-346). Holds only while no lease
\* expires.
CleanWhenDestroyed ==
  row.state = "destroyed" =>
    /\ \A s \in Services : Exists(s) => s \in left.ctr
    /\ net => left.net \/ \E s \in Services : Exists(s)
    /\ dom # {} => left.dom
    /\ rr # {} => left.rr

-----------------------------------------------------------------------------
\* A destroy request that no pass already under way can overwrite ends with
\* the environment destroyed, through crashes of the workers and Docker
\* errors (api/reference.md:116, "the reconciler performs teardown").
DestroyCompletes ==
  (/\ Quiet
   /\ row.state = "destroying"
   /\ \A w \in Workers : ~HasRead(w)) ~> row.state = "destroyed"

\* Level-triggered convergence: after the last operation, a live environment
\* that is not suspended gets a container of its current generation for every
\* service of its topology whose recorded build does not fail, whatever
\* crashed, failed or was stale in between (reconciler.go:1-2).
Converges ==
  Quiet ~> \/ row.state = "destroyed"
           \/ row.suspended
           \/ \A s \in row.topo :
                 \/ ctr[s].gen = row.gen
                 \/ GetRun(row.gen, s, dep[row.gen][s].run) = "FAILED"

\* A suspended environment is frozen in place in the end: the pass under way
\* may go on for a while, but then nothing on the host or in the routes
\* changes any more (reconciler.go:100-103).
SuspendFreezes ==
  <>[](Quiet /\ row.suspended /\ row.state # "destroying")
    => <>[][FALSE]_<<ctr, net, dom, rr>>

\* The deploy lock, as the workers use it, is a lease that keeps the contract
\* locks.go implements: an owner gives the key up or loses it, and a crashed
\* owner's key is freed.
DeployLock == INSTANCE LeaseContract WITH Clients <- Workers, owner <- lock

ImplementsLease == DeployLock!Spec
=============================================================================
