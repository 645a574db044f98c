--------------------------- MODULE MCControlPlane ---------------------------
(* Model values for ControlPlane. *)
EXTENDS ControlPlaneClaims, TLC

CONSTANTS s1, s2

OneService == {{s1}}
TwoServices == {{s1}, {s1, s2}}

Symmetry == Permutations(Workers) \cup Permutations(Callers)
=============================================================================
