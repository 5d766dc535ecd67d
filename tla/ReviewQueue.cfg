SPECIFICATION Spec
CONSTANTS
  Search = {s1, s2}
  Decider = {d1}
  Window = 1
  Words = {"cleared", "blocked", "later"}
  Bands = {"red"}
INVARIANTS
  AnsweredAudited
  DecisionsGrounded
  QueueFresh
  QueueComplete
CHECK_DEADLOCK FALSE
