CONSTANTS
  Waiter = {w1, w2, w3}
  MayExpire = {w1, w2}
  MaxCalls = 3
SPECIFICATION ClientSpec
INVARIANTS
  WaitersCounted
PROPERTIES
  SignalWakesOne
  DestroyWakesAll
