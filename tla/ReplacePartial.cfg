SPECIFICATION RSpec
CONSTANTS
  Writer = {w1, w2}
  Data = {d1, d2}
  Serial = FALSE
INVARIANT NoPartialState
CHECK_DEADLOCK TRUE
