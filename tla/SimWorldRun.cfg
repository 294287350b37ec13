CONSTANTS
  a = a
  b = b
  c = c
  Node = {a, b, c}
  NoNode = NoNode
  Spawned <- InOrder
  Delays = {0, 1}
  Continuous = {b}
  BufferSlots = 2
  Topologies <- Hidden
  Setup = 1
  Slack = 1
  Airtimes <- FrameTimes
  MaxAirtime = 4
  MaxLength <- Lengths
  Timeouts <- Patience
  Sleeps <- Naps
  Limit = 10
  MaxCalls <- Calls
SPECIFICATION FairSpec
INVARIANTS
  NobodyOversleeps
  OutcomeFinal
  WindowsDecide
  ReturnsAtOnce
  HandedOverInOrder
PROPERTY
  RunEnds
CHECK_DEADLOCK FALSE
