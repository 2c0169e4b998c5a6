SPECIFICATION Spec
CONSTANTS
  qa = qa
  qb = qb
  Queues <- TwoQueues
  ChunkSize = 3
  BlockSize = 2
  NumIovecs = 2
  BacklogMax = 1
  MaxWritten = 4
INVARIANTS
  IInv
  RoomPromised
  OffersBytes
PROPERTIES
  ImplementsStream
