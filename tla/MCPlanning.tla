------------------------------ MODULE MCPlanning ------------------------------
(* Model values for Planning: two repositories with a pull request each. *)
EXTENDS Planning, TLC

CONSTANTS p1, p2, r1, r2

Repository == (p1 :> r1) @@ (p2 :> r2)

Hook(action, pr, sha, state) ==
  [action |-> action, pr |-> pr, sha |-> sha, state |-> state]

\* Two repositories join; a pull request goes on, is closed, is pushed to; and
\* one that was closed is labeled.
Sent ==
  {<<Hook("opened", p1, 1, "open"), Hook("opened", p2, 1, "open")>>,
   <<Hook("opened", p1, 1, "open"), Hook("synchronize", p1, 2, "open")>>,
   <<Hook("opened", p1, 1, "open"), Hook("closed", p1, 1, "closed")>>,
   <<Hook("opened", p1, 1, "open"), Hook("push", p1, 2, "open")>>,
   <<Hook("closed", p1, 1, "closed"), Hook("labeled", p1, 1, "closed")>>}

Symmetry == Permutations(Handlers)
=============================================================================
