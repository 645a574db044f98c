----------------------------- MODULE MCEventQueue -----------------------------
(* Model values for EventQueue. *)
EXTENDS EventQueue
=============================================================================
