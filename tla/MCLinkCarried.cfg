SPECIFICATION FairSpec
CONSTANTS
  Kinds <- PlainKinds
  IbufCap = 3
  MaxRead = 2
  Limit = 0
  MaxLines = 1
  MaxOthers = 0
PROPERTIES
  DeletedSoon
