------------------------------- MODULE MCLease -------------------------------
(* Model values for Lease. *)
EXTENDS Lease

\* The key, and one token for every client and the key itself.
ASSUME EnoughTokens == Cardinality(Tokens) > Cardinality(Clients)
=============================================================================
