---------------------------- MODULE FeatureStore ----------------------------
(***************************************************************************)
(* The rows PostgreSQL keeps for one feature: the pull requests whose      *)
(* branch normalizes to its slug, the features row and its environments,   *)
(* and the statements of internal/db that read and write them. Each is one *)
(* autocommit statement.                                                   *)
(***************************************************************************)
EXTENDS Naturals, Sequences

CONSTANTS Repos,      \* the registered repositories
          PRs,        \* the pull requests of the feature, keys (repository, number)
          RepoOf,     \* the repository of each
          MaxCommits, \* bound: head commits of a pull request
          MaxEnvs,    \* bound: environments created
          None

ASSUME RepoOfAssumption == RepoOf \in [PRs -> Repos]
ASSUME BoundsAssumption == MaxCommits \in Nat /\ MaxEnvs \in Nat
ASSUME NoneAssumption == None \notin PRs \X (1..MaxCommits)

VARIABLES prs,      \* pull_requests
          feature,  \* whether the features row exists
          envs      \* environments, in the order of created_at

featureVars == <<prs, feature, envs>>

\* head_sha and state; a state "none" is an absent row.
PullRequest == [sha : 0..MaxCommits, state : {"none", "open", "closed"}]

\* The commit a service is built from, None for the default branch.
Picks == (PRs \X (1..MaxCommits)) \cup {None}

\* desired_topology is the pick of every repository; it is empty ({}) for a
\* row that was never planned.
Plans == [Repos -> Picks]

\* Of state, only what a lookup or a property asks for: "live" stands for
\* pending, resolving, deploying, healthy, degraded and failed. destroyedAt says
\* that destroyed_at is set. byEvent says who created the row, byLocked who
\* planned it last.
Environment == [state : {"live", "destroying", "destroyed"}, destroyedAt : BOOLEAN,
                planned : BOOLEAN, plan : Plans,
                byEvent : BOOLEAN, byLocked : BOOLEAN]

FeatureTypeOK ==
  /\ prs \in [PRs -> PullRequest]
  /\ feature \in BOOLEAN
  /\ envs \in Seq(Environment)
  /\ Len(envs) <= MaxEnvs

FeatureInit ==
  /\ prs = [p \in PRs |-> [sha |-> 0, state |-> "none"]]
  /\ feature = FALSE
  /\ envs = <<>>

NoPlan == [r \in Repos |-> None]

-----------------------------------------------------------------------------
\* PullRequestStore.Upsert: the last writer wins, whatever it read.
Upsert(p, sha, state) == prs' = [prs EXCEPT ![p] = [sha |-> sha, state |-> state]]

\* WHERE repository_id=$1 AND state='open', of findOpenPRByFeature.
OpenIn(r) == {p \in PRs : RepoOf[p] = r /\ prs[p].state = "open"}

\* The open pull request of a branch; its error is dropped by the caller.
FindOpenByBranch(p) == IF prs[p].state = "open" THEN <<p, prs[p].sha>> ELSE None

\* i is the newest environment that is not destroyed, 0 for not found.
ByFeature(i) ==
  /\ i # 0 => envs[i].state # "destroyed"
  /\ \A j \in DOMAIN envs : j > i => envs[j].state = "destroyed"

\* EnvironmentStore.Create: nothing in the schema keeps it from being the
\* second one of the feature.
Create(event) ==
  /\ Len(envs) < MaxEnvs
  /\ envs' = Append(envs, [state |-> "live", destroyedAt |-> FALSE,
                           planned |-> FALSE, plan |-> NoPlan,
                           byEvent |-> event, byLocked |-> FALSE])

BumpGeneration(i, plan, locked) ==
  envs' = [envs EXCEPT ![i] = [@ EXCEPT !.planned = TRUE, !.plan = plan, !.byLocked = locked]]

UpdateState(i, to) == envs' = [envs EXCEPT ![i].state = to]

\* destroyed_at is never cleared, whatever state a later UpdateState writes.
MarkDestroyed(i) ==
  envs' = [envs EXCEPT ![i] = [@ EXCEPT !.state = "destroyed", !.destroyedAt = TRUE]]
=============================================================================
