SPECIFICATION EndlessSpec
CONSTANTS
  Capacity = 2
  Kinds <- PaddedKinds
  Measured <- PaddedMeasured
  Written <- PaddedWritten
  OutOfRange <- NoKinds
  HeaderBits = 1
  PacketBits = 10
  MaxMessagesPerPacket = 2
  MaxPending = 2
  MaxEnqueued = 2
  MaxInFlight = 1
INVARIANTS PacketsWithinLimits
PROPERTIES EveryMessageSettles
