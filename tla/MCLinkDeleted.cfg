SPECIFICATION Spec
CONSTANTS
  Kinds <- UserKinds
  IbufCap = 3
  MaxRead = 2
  Limit = 1
  MaxLines = 4
  MaxOthers = 0
ACTION_CONSTRAINT OnTime
INVARIANTS
  DeletedOnce
