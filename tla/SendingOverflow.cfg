SPECIFICATION FairSpec
CONSTANTS
  Capacity = 1
  Kinds <- RangeKinds
  Measured <- RangeSize
  Written <- RangeSize
  OutOfRange <- RangeBad
  HeaderBits = 3
  PacketBits = 1024
  MaxMessagesPerPacket = 2
  MaxPending = 4
  MaxEnqueued = 4
  MaxInFlight = 2
INVARIANTS TypeOK EveryMessageAccounted LossesAreIsolated ReceivedInOrder
PROPERTIES ImplementsLossyLanes
CHECK_DEADLOCK FALSE
