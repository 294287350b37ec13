CONSTANTS
  a = a
  b = b
  c = c
  Node <- TrioNodes
  Addr <- TrioAddrs
  Broadcast = Broadcast
  Unset = Unset
  Payload = {1, 2}
  IdsOf <- OwnIds
  Requests <- MixedLengths
  Reads <- MostlyBReads
  QueueSize = 1
  SeqMod = 4
  MaxCalls <- OnceEach
  Outcomes = {"intact", "garbled", "missed"}
  RadioFails = TRUE
  PromptReaders = TRUE
  NoFrame = NoFrame
  Garbled = Garbled
  NoJob = NoJob
  Free = Free
  DupTableSize = 2
  AirTime <- SlowLong
  AckAirTime = 0
  ReportsAirtime = TRUE
  ConfiguredAckTimeout = 1
  ConfiguredDupWindow = 0
  DefaultSlot = 1
  MaxBackoffSlots = 2
  SlotMargin = 0
  AckMargin = 0
  AccessDelay = FALSE
SPECIFICATION Spec
INVARIANT OnceInOrder
