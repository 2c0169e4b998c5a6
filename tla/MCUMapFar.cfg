SPECIFICATION Spec
CONSTANTS
  Keys <- FarKeys
  LoopKeys = {}
  Data = {a}
  None = None
  HalfInt = 3
  MaxNest = 0
  MaxTwice = 0
CHECK_DEADLOCK FALSE
INVARIANTS
  FindsKeys
