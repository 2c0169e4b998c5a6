SPECIFICATION Spec
CHECK_DEADLOCK FALSE
CONSTANTS
  u1 = u1
  u2 = u2
  c1 = c1
  c2 = c2
  m1 = m1
  k1 = k1
  one = one
  zero = zero
  Star = Star
  None = None
  Users = {u1, u2}
  Local = {u1}
  Chans = {c1, c2}
  Masks = {m1}
  Keys = {k1}
  Limits = {one, zero}
  LimitOf <- TheLimits
  Matches <- TheMatches
  FirstIdent <- TheIdents
  Idents = {"a", "z"}
  Commands <- TheCommands
  MaxBanList = 1
  BmaskLists = {"q"}
  MaxHops = 3
  MaxOps = 3
INVARIANTS
  IInv
  BothWays
  NoEmptyChannel
  MutedRight
  Replays
  AbortsByWhoOnly
PROPERTIES
  EntryKept
