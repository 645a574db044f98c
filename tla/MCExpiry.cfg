SPECIFICATION LeaseSpec
CONSTANTS
  s1 = s1
  s2 = s2
  Services = {s1}
  Workers = {w1, w2, w3}
  Callers = {c1}
  Ops = {"destroy", "suspend", "resume"}
  MaxOps = 2
  FaultKinds = {"crash", "expire"}
  MaxFaults = 3
  MaxGen = 1
  Topologies <- OneService
  Nobody = Nobody
  Orphan = Orphan
  NoService = NoService
INVARIANTS
  PassHoldsLock
PROPERTIES
  ImplementsLease
CHECK_DEADLOCK FALSE
