SPECIFICATION PSpec
CONSTANTS
  Writer = {w1, w2, w3}
  MaxLimit = 2
  MaxOffset = 2
INVARIANTS AckedKept OnlyStopsDamage NoneSkipped
PROPERTIES DamageLasts ImplementsLedger
CHECK_DEADLOCK FALSE
