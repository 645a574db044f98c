------------------------------- MODULE Params -------------------------------
(***************************************************************************)
(* The parameters that the parts of the control plane share.               *)
(***************************************************************************)
EXTENDS Naturals

CONSTANTS Services,   \* the registered repositories, one service each
          MaxGen      \* bound: generations an environment goes through

ASSUME MaxGenAssumption == MaxGen \in Nat

\* The generations a worker can deploy; 0 is the row before its first plan.
Gens == 1..MaxGen
=============================================================================
