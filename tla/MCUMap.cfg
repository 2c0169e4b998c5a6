SPECIFICATION Spec
CONSTANTS
  Keys <- ManyKeys
  LoopKeys <- FewKeys
  Data = {a, b}
  None = None
  HalfInt = 6
  MaxNest = 2
  MaxTwice = 1
CHECK_DEADLOCK FALSE
INVARIANTS
  VisitsAllOnce
  DeletionsWait
PROPERTIES
  ImplementsMap
