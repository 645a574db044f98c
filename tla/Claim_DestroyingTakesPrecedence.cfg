SPECIFICATION Spec
CONSTANTS
  s1 = s1
  s2 = s2
  Services = {s1}
  Workers = {w1}
  Callers = {c1, c2}
  Ops = {"event", "destroy", "restart"}
  MaxOps = 2
  FaultKinds = {}
  MaxFaults = 0
  MaxGen = 2
  Topologies <- OneService
  Nobody = Nobody
  Orphan = Orphan
  NoService = NoService
SYMMETRY Symmetry
PROPERTIES
  DestroyingTakesPrecedence
CHECK_DEADLOCK FALSE
