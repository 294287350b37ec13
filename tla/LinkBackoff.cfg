CONSTANTS
  a = a
  b = b
  c = c
  Node <- PairNodes
  Addr <- TwoIdsAddrs
  Broadcast = Broadcast
  Unset = Unset
  Payload = {1, 2}
  IdsOf <- TwoIds
  Requests <- ThreeTries
  Reads <- TwoIdsReads
  QueueSize = 1
  SeqMod = 4
  MaxCalls <- OnceEach
  Outcomes = {"intact", "missed"}
  RadioFails = TRUE
  PromptReaders = TRUE
  NoFrame = NoFrame
  Garbled = Garbled
  NoJob = NoJob
  Free = Free
  DupTableSize = 2
  AirTime <- SlowAir
  AckAirTime = 1
  ReportsAirtime = TRUE
  ConfiguredAckTimeout = 1
  ConfiguredDupWindow = 0
  DefaultSlot = 1
  MaxBackoffSlots = 8
  SlotMargin = 0
  AckMargin = 0
  AccessDelay = TRUE
SPECIFICATION FairSpec
INVARIANT
  OnceInOrder
  IdentityInv
PROPERTY CallsReturn
