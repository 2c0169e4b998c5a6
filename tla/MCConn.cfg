SPECIFICATION FairSpec
CONSTANTS
  c1 = c1
  c2 = c2
  Conns <- TwoConns
  MaxSends = 2
INVARIANTS
  PollInterest
PROPERTIES
  Drained
  ClosesInTheEnd
  OutputMoves
