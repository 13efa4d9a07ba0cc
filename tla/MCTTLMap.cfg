SPECIFICATION Spec
CONSTANTS
  k1 = k1
  k2 = k2
  k3 = k3
  g1 = g1
  Key <- MCKey
  Getter <- MCGetter
  MaxNodes = 3
  TTL = {0, 1}
  Sizes = {0, 2}
  MaxNow = 2
  CleanupInterval = 0
INVARIANTS SoundUntilStaleMove
PROPERTY CleanupSparesFresh
SYMMETRY MCSymmetry
CHECK_DEADLOCK FALSE
