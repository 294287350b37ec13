CONSTANTS
  a = a
  b = b
  c = c
  Node <- TrioNodes
  Addr <- TrioAddrs
  Broadcast = Broadcast
  Unset = Unset
  Payload = {1}
  IdsOf <- OwnIds
  Requests <- TrioRequests
  Reads <- TrioReads
  QueueSize = 1
  SeqMod = 4
  MaxCalls <- TrioCalls
  Outcomes = {"intact", "missed"}
  RadioFails = TRUE
  PromptReaders = TRUE
  NoFrame = NoFrame
  Garbled = Garbled
  NoJob = NoJob
  Free = Free
  DupTableSize = 2
  AirTime <- UnitAir
  AckAirTime = 0
  ReportsAirtime = FALSE
  ConfiguredAckTimeout = 1
  ConfiguredDupWindow = 0
  DefaultSlot = 1
  MaxBackoffSlots = 2
  SlotMargin = 0
  AckMargin = 0
  AccessDelay = FALSE
SPECIFICATION Spec
INVARIANTS
  AckedMeansAccepted
PROPERTY
  ImplementsDelivery
