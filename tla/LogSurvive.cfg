SPECIFICATION LSpec
CONSTANTS
  Writer = {w1, w2, w3}
INVARIANT BothSurvive
CHECK_DEADLOCK FALSE
