SPECIFICATION Spec
CONSTANTS
  s1 = s1
  s2 = s2
  Services = {s1}
  Workers = {w1, w2}
  Callers = {c1, c2}
  Ops = {"event", "close", "destroy", "clean", "suspend", "resume", "restart"}
  MaxOps = 3
  FaultKinds = {}
  MaxFaults = 0
  MaxGen = 2
  Topologies <- OneService
  Nobody = Nobody
  Orphan = Orphan
  NoService = NoService
SYMMETRY Symmetry
INVARIANTS
  TypeOK
  CleanWhenDestroyed
CHECK_DEADLOCK FALSE
