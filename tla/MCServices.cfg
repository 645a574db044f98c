SPECIFICATION Spec
CONSTANTS
  s1 = s1
  s2 = s2
  Services = {s1, s2}
  Workers = {w1}
  Callers = {c1}
  Ops = {"event", "close"}
  MaxOps = 3
  FaultKinds = {}
  MaxFaults = 0
  MaxGen = 2
  Topologies <- TwoServices
  Nobody = Nobody
  Orphan = Orphan
  NoService = NoService
SYMMETRY Symmetry
INVARIANTS
  CleanWhenDestroyed
CHECK_DEADLOCK FALSE
