SPECIFICATION Spec
CONSTANTS
  r1 = r1
  r2 = r2
  r3 = r3
  c1 = c1
  c2 = c2
  Clients = {c1, c2}
  e1 = e1
  e2 = e2
  Repos = {r1, r2, r3}
  Names = {"web", "api", "db", "ui"}
  EntryNames = {"web", "ui"}
  LabelOf <- Label
  None = None
  Envs = {e1, e2}
  Slug <- Slugs
  PrLabels <- Prs
  Starts <- Situations
  Rows <- Asked
  MaxRequests = 2
  MaxPlans = 2
  FaultKinds = {"db"}
  MaxFaults = 1
SYMMETRY Symmetry
INVARIANTS
  TypeOK
  NoSelfDependency
  DependenciesFirst
  RefusedForCycle
  RoutesFollowPlan
PROPERTIES
  CyclesAreRefused
CHECK_DEADLOCK FALSE
