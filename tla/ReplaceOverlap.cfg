SPECIFICATION HSpec
CONSTANTS
  Writer = {w1, w2, w3}
  Data = {d1, d2}
  Serial = FALSE
INVARIANT LoserHasWinner
PROPERTIES OnlyRivalsTear SoloReplaceTakes
CHECK_DEADLOCK TRUE
