--------------------------- MODULE MCIntegrations ---------------------------
(* Model values for Integrations: one row, and two requests at once. *)
EXTENDS Integrations, TLC

CONSTANTS s1, s2, n1, n2

Symmetry == Permutations(Clients) \cup Permutations(Secrets) \cup Permutations(Nonces)
=============================================================================
