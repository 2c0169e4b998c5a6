SPECIFICATION FairSpec
CHECK_DEADLOCK FALSE
CONSTANTS
  c1 = c1
  c2 = c2
  l1 = l1
  l2 = l2
  s1 = s1
  s2 = s2
  None = None
  Chans <- TheChans
  Users <- TheUsers
  Members <- TheMembers
  Trees <- TheTrees
  UserLinks = {l1, l2}
  ServerLinks = {s1, s2}
  LinkOf <- TheLinks
  MaxCalls = 2
  MaxFull = 2
  MaxTime = 2
INVARIANTS
  ExactlyOnce
  FreshCookie
  Settled
PROPERTIES
  Returns

