SPECIFICATION Spec
CONSTANTS
  player1 = player1
  bomber1 = bomber1
  players = players
  Keys <- MCKeys
  Hash <- MCHash
  Capacity = 2
  Systems <- MCSystems
  Kinds <- MCKinds
  Tags <- MCTags
  GroupNames <- MCGroups
  Physics = 0
  Lifetime = 1
  Blink = 3
  EventTypes <- MCEventTypes
  MaxComponents = 4
  Bounds <- MCBounds
  SampleMessages <- MCSampleMessages
  FillMessages <- MCFillMessages
  MaxMessages = 3
  BufferSize = 128
  Second = 3
  Delays = {2, 4}
  MaxHooks = 2
  Stall = 4
  EndOfTime = 7
  INTERPOLATION_STATES_COUNT = 3
  INTERPOLATION_TIME_MS = 2
  Steps = {1, 2}
  MaxElapsed = 6
  MaxPosition = 4
INVARIANTS
  ListsAreLinked
  NoDanglingPointers
  EntersAndExitsMatch
  ReadsBackWhatWasPacked
  MeasureCoversWriting
  HooksFireOnTime
PROPERTIES
  ImplementsEntityStore
  ShownMovesForward
CHECK_DEADLOCK FALSE
