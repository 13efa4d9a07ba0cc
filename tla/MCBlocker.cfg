CONSTANTS
  Caller = {p1, p2, p3, p4}
  Id = {i1, i2}
  MaxConn = 2
  Obj = {o1, o2}
  NoObj = NoObj
SPECIFICATION BlockerFairSpec
INVARIANTS
  LimitPerId
  UsageExact
PROPERTY
  QueueServed
