SPECIFICATION Spec
CONSTANTS
  Kinds <- PlainKinds
  IbufCap = 3
  MaxRead = 2
  Limit = 1
  MaxLines = 3
  MaxOthers = 1
INVARIANTS
  NoQuitForKill
