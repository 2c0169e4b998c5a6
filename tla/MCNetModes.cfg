SPECIFICATION Spec
CHECK_DEADLOCK FALSE
CONSTANTS
  s1 = s1
  s2 = s2
  s3 = s3
  u1 = u1
  u2 = u2
  u3 = u3
  n1 = n1
  n2 = n2
  None = None
  Servers = {s1, s2, s3}
  Users = {u1, u2, u3}
  Nicks = {n1, n2}
  Home <- TheHomes
  FirstNick <- TheNicks
  Lines <- TheLines
  Pairs <- ThePairs
  ByName <- TheNames
  MaxTime = 2
  MaxOps = 3
  MaxBreaks = 0
PROPERTIES
  ModesWiped
