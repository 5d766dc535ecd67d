SPECIFICATION Spec
CONSTANTS
  Search = {s1}
  Decider = {d1, d2}
  Window = 1
  Words = {"cleared", "blocked", "later"}
  Bands = {"yellow"}
INVARIANTS TypeOK LaterRulingWins
CHECK_DEADLOCK FALSE
