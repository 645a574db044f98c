SPECIFICATION FairSpec
CONSTANTS
  s1 = s1
  s2 = s2
  Services = {s1}
  Workers = {w1}
  Callers = {c1}
  Ops = {"event", "destroy", "suspend", "resume", "clean"}
  MaxOps = 3
  FaultKinds = {"crash", "docker"}
  MaxFaults = 1
  MaxGen = 2
  Topologies <- OneService
  Nobody = Nobody
  Orphan = Orphan
  NoService = NoService
PROPERTIES
  DestroyCompletes
  Converges
  SuspendFreezes
CHECK_DEADLOCK FALSE
