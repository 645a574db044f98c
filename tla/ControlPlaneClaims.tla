------------------------- MODULE ControlPlaneClaims -------------------------
(***************************************************************************)
(* What a comment of the repository says of an environment, stated         *)
(* literally. The code does not do it: a run finds a behaviour against it. *)
(***************************************************************************)
EXTENDS ControlPlane

\* "Teardown still works (Destroying takes precedence) so operators can always
\* clean up" (reconciler.go:102-103): no step of a worker takes a row out of
\* destroying, other than to destroyed.
DestroyingTakesPrecedence ==
  [][row.state = "destroying" /\ UNCHANGED callVars
       => row'.state \in {"destroying", "destroyed"}]_vars
=============================================================================
