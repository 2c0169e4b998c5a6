SPECIFICATION Spec
CONSTANTS
  Kinds <- PlainKinds
  IbufCap = 3
  MaxRead = 2
  Limit = 0
  MaxLines = 2
  MaxOthers = 0
PROPERTIES
  OwnerOutlivesLink
