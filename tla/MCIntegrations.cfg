SPECIFICATION Spec
CONSTANTS
  s1 = s1
  s2 = s2
  n1 = n1
  n2 = n2
  Keys = {primary}
  Clients = {c1, c2}
  Empty = Empty
  Configs = {Empty, f1, f2}
  Secrets = {s1, s2}
  MasterKeys = {m1, m2}
  Nonces = {n1, n2}
  None = None
  Keep = Keep
  Clear = Clear
SYMMETRY Symmetry
INVARIANTS
  TypeOK
  SecretOpens
  RevealsLastSecret
  KeepsLastConfig
  DeletedStaysAway
