CONSTANTS
  a = a
  b = b
  c = c
  d = d
  Node = {a, b, c, d}
  Key <- Keys
  NoKey = NoKey
  Address <- Addresses
  Length = {40}
  Rooms = {39, 55, 72}
  RandomBytes = {1}
  HasClock <- Clocks
  ClockMod = 4
  Timeouts <- Patience
  Buffers = {20, 255}
  InboxSize = 1
  MaxSends <- Sends
  MaxBoots <- Restarts
SPECIFICATION Spec
INVARIANTS
  RoomUsed
  FullTimeout
  Genuine
  IvsDistinct
  MacsAreHmac
  CiphersKeepFaith
