SPECIFICATION Spec
CONSTANTS
  Deliveries = {d1, d2}
  Processors = {p1, p2}
  BatchSize = 1
  MaxAttempts = 3
  NoEvent = NoEvent
  FaultKinds = {"crash"}
  MaxFaults = 1
INVARIANTS
  TypeOK
  ProcessedWasHandled
  AttemptsPaid
PROPERTIES
  NeverReclaimed
  Settles
CHECK_DEADLOCK FALSE
