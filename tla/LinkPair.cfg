CONSTANTS
  a = a
  b = b
  c = c
  Node <- PairNodes
  Addr <- PairAddrs
  Broadcast = Broadcast
  Unset = Unset
  Payload = {1}
  IdsOf <- OwnIds
  Requests <- PairRequests
  Reads <- PairReads
  QueueSize = 1
  SeqMod = 2
  MaxCalls <- PairCalls
  Outcomes = {"intact", "garbled", "missed"}
  RadioFails = TRUE
  PromptReaders = TRUE
  NoFrame = NoFrame
  Garbled = Garbled
  NoJob = NoJob
  Free = Free
  DupTableSize = 2
  AirTime <- UnitAir
  AckAirTime = 0
  ReportsAirtime = TRUE
  ConfiguredAckTimeout = 1
  ConfiguredDupWindow = 4
  DefaultSlot = 1
  MaxBackoffSlots = 16
  SlotMargin = 0
  AckMargin = 0
  AccessDelay = FALSE
SPECIFICATION Spec
INVARIANTS
  TypeOK
  AckedReachesReader
  OnlyCopiesSuppressed
PROPERTY
  ImplementsDelivery
