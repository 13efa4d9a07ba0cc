CONSTANTS
  R = R
  W = W
  MaxBufferSize = 2
  MaxBytes = 4
  WriteLen = {0, 1, 3}
  ReadLen = {1, 2}
SPECIFICATION Spec
INVARIANTS
  StreamIntact
  SleepersHaveReason
PROPERTIES
  CallsReleased
