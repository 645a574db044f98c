SPECIFICATION Spec
CONSTANTS
  Clients = {c1, c2, c3}
  Tokens = {t1, t2, t3, t4}
  NoToken = NoToken
  TTL = 2
  MaxWait = 1
INVARIANTS
  TypeOK
  MutualExclusion
PROPERTIES
  OnlyOwnerDrops
  WaiterReturns
  ImplementsContract
