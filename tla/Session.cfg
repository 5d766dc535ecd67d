SPECIFICATION Spec
CONSTANTS
  Request = {r1, r2, r3}
  Purpose = {"admin", "compliance", "wrong", "manage"}
SYMMETRY Interchangeable
INVARIANTS TypeOK SessionsHold MemoryForgets RightPasswordTaken OnlyRivalsLockOut
CHECK_DEADLOCK FALSE
