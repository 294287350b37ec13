CONSTANTS
  a = a
  b = b
  c = c
  Node <- PairNodes
  Addr <- PairAddrs
  Broadcast = Broadcast
  Unset = Unset
  Payload = {0, 1}
  IdsOf <- OwnIds
  Requests <- EmptyFirst
  Reads <- PairReads
  QueueSize = 1
  SeqMod = 4
  MaxCalls <- OnceEach
  Outcomes = {"intact", "garbled", "missed"}
  RadioFails = TRUE
  PromptReaders = TRUE
  NoFrame = NoFrame
  Garbled = Garbled
  NoJob = NoJob
  Free = Free
  DupTableSize = 2
  AirTime <- UnitAir
  AckAirTime = 0
  ReportsAirtime = TRUE
  ConfiguredAckTimeout = 1
  ConfiguredDupWindow = 0
  DefaultSlot = 1
  MaxBackoffSlots = 2
  SlotMargin = 0
  AckMargin = 0
  AccessDelay = FALSE
SPECIFICATION Spec
INVARIANT AckedReachesReader
