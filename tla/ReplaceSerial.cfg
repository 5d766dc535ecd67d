SPECIFICATION RSpec
CONSTANTS
  Writer = {w1, w2, w3}
  Data = {d1, d2, d3, d4}
  Serial = TRUE
PROPERTY ImplementsRegister
CHECK_DEADLOCK TRUE
