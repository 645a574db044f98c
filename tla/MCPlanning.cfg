SPECIFICATION Spec
CONSTANTS
  p1 = p1
  p2 = p2
  r1 = r1
  r2 = r2
  Repos = {r1, r2}
  PRs = {p1, p2}
  RepoOf <- Repository
  MaxCommits = 2
  MaxEnvs = 3
  None = None
  Histories <- Sent
  Handlers = {h1, h2}
  Calls = {"create", "restart"}
  MaxCalls = 1
  MaxAttempts = 2
  Nobody = Nobody
  Orphan = Orphan
  FaultKinds = {"crash", "expire", "resolve"}
  MaxFaults = 1
SYMMETRY Symmetry
INVARIANTS
  TypeOK
  
  EventEnvsArePlanned
  
CHECK_DEADLOCK FALSE
