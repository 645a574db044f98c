-------------------------------- MODULE Buddy --------------------------------
(***************************************************************************)
(* The Buddy CI service, as internal/buddy/client.go uses it: Trigger      *)
(* starts a run for a commit and returns its id, GetRun reads the status   *)
(* of one run. Here the runs of a (generation, service) have the ids 1, 2, *)
(* ... in the order they were accepted; each ends on its own.              *)
(***************************************************************************)
EXTENDS Params

VARIABLES runs,     \* how many runs were started for (generation, service)
          passed,   \* the runs of (generation, service) that succeeded
          broken    \* those that failed

buddyVars == <<runs, passed, broken>>

BuddyTypeOK ==
  /\ runs \in [Gens -> [Services -> Nat]]
  /\ passed \in [Gens -> [Services -> SUBSET Nat]]
  /\ broken \in [Gens -> [Services -> SUBSET Nat]]

BuddyInit ==
  /\ runs = [g \in Gens |-> [s \in Services |-> 0]]
  /\ passed = [g \in Gens |-> [s \in Services |-> {}]]
  /\ broken = [g \in Gens |-> [s \in Services |-> {}]]

\* POST .../executions
Trigger(g, s) ==
  /\ runs' = [runs EXCEPT ![g][s] = @ + 1]
  /\ UNCHANGED <<passed, broken>>

\* GET .../executions/<n>
GetRun(g, s, n) ==
  CASE n \in passed[g][s] -> "SUCCESSFUL"
    [] n \in broken[g][s] -> "FAILED"
    [] OTHER              -> "INPROGRESS"

Ended(g, s, n) == GetRun(g, s, n) # "INPROGRESS"

\* The pipeline of one run finishes.
Finish(g, s) ==
  /\ \E n \in 1..runs[g][s] :
       /\ ~Ended(g, s, n)
       /\ \/ passed' = [passed EXCEPT ![g][s] = @ \cup {n}] /\ UNCHANGED broken
          \/ broken' = [broken EXCEPT ![g][s] = @ \cup {n}] /\ UNCHANGED passed
  /\ UNCHANGED runs
=============================================================================
