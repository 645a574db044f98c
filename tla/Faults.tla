------------------------------- MODULE Faults -------------------------------
(***************************************************************************)
(* What may go wrong around the program in a run, and how often. It bounds *)
(* the failures a run explores; nothing in the program knows about it.     *)
(***************************************************************************)
EXTENDS Naturals

CONSTANTS FaultKinds,  \* "crash", "expire", "docker", "buddy", "exit", "resolve", "db"
          MaxFaults    \* bound: faults in one behaviour

ASSUME MaxFaultsAssumption == MaxFaults \in Nat

VARIABLE faults

FaultsTypeOK == faults \in 0..MaxFaults

FaultsInit == faults = 0

Fault(kind) ==
  /\ kind \in FaultKinds
  /\ faults < MaxFaults
  /\ faults' = faults + 1

NoFault == UNCHANGED faults
=============================================================================
