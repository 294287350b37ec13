CONSTANTS
  a = a
  b = b
  c = c
  Node = {a, b, c}
  Name <- Names
  NodeId = {1, 2, 3}
  Suffixed <- Suffixes
  MaxPeers = 3
  Configured <- TwoOfAName
  Nonce = {1, 2}
  HushTimes = {0}
  ProbeTime = 1
  SettleDelays = {1}
  MoveDelays = {1}
  NoticeDelays = {1}
  FirstPeriod = 2
  PeriodDelays = {2}
  ServeTimes = {0, 1}
  AskedNames <- NobodyAsks
  AskedIds <- NobodyAsks
  QueryTimes = {1}
  QuerySends = 3
  InboxSize = 1
  Everyone = 9
  SendTo <- NobodyAsks
  Payload = {p}
  p = p
  MaxBoots <- Once
SPECIFICATION Spec
SYMMETRY Alike
INVARIANT
  SomeoneKeepsName
