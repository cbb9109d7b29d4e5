SPECIFICATION FairSpec
CONSTANTS
  Capacity = 1
  Kinds <- SmallKinds
  Measured <- SmallSize
  Written <- SmallSize
  OutOfRange <- NoKinds
  HeaderBits = 3
  PacketBits = 1024
  MaxMessagesPerPacket = 5
  MaxPending = 6
  MaxEnqueued = 6
  MaxInFlight = 2
INVARIANTS ReliableNeverLost
