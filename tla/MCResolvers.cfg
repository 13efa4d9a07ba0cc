SPECIFICATION Spec
CONSTANTS
  Element <- MCElement
  Client = {c1, c2}
  Server = {s1, s2}
  DNSPriority = 2
  SystemPriorities = {1, 3}
  Ttl = {1}
  MinTtl = 0
  MaxTtl = 0
  KeepTime = 0
  FailureTimeout = 0
  MaxEntities = 3
  MaxChanges = 2
  MaxNow = 1
INVARIANTS ListsSound ProtectedWhileAsked EveryServerAsked LookupsGoOn
SYMMETRY Symmetry
CHECK_DEADLOCK FALSE
