SPECIFICATION Spec
CONSTANTS
  s1 = s1
  s2 = s2
  Services = {s1}
  Workers = {w1, w2}
  Callers = {c1}
  Ops = {"event", "close", "restart"}
  MaxOps = 2
  FaultKinds = {"crash", "docker", "buddy", "db", "exit"}
  MaxFaults = 2
  MaxGen = 2
  Topologies <- OneService
  Nobody = Nobody
  Orphan = Orphan
  NoService = NoService
SYMMETRY Symmetry
INVARIANTS
  NothingAhead
  BuildsBounded
  RunsOnlyFinished
  CleanWhenDestroyed
PROPERTIES
  NewerNeverReplaced
CHECK_DEADLOCK FALSE
