SPECIFICATION FairSpec
CONSTANTS
  Capacity = 1
  Kinds <- SmallKinds
  Measured <- SmallSize
  Written <- SmallSize
  OutOfRange <- NoKinds
  HeaderBits = 3
  PacketBits = 1024
  MaxMessagesPerPacket = 2
  MaxPending = 2
  MaxEnqueued = 4
  MaxInFlight = 2
INVARIANTS ReliableNeverLost
PROPERTIES ImplementsReliableLanes EveryReliableMessageArrives
