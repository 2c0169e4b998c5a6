SPECIFICATION FairSpec
CONSTANTS
  Kinds <- AllKinds
  IbufCap = 2
  MaxRead = 2
  Limit = 1
  MaxLines = 4
  MaxOthers = 1
INVARIANTS
  IInv
  LinesExact
PROPERTIES
  Goodbye
  ImplementsConn
  NoLineBeforeHostName
  LinesServed
  ClosedIsFreed
