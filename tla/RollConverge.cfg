CONSTANTS
  a = a
  b = b
  c = c
  Node = {a, b}
  Name <- Names
  NodeId = {1, 2, 3}
  Suffixed <- Suffixes
  MaxPeers = 2
  Configured <- SameName
  Nonce = {1, 2}
  HushTimes = {0, 1}
  ProbeTime = 1
  SettleDelays = {1}
  MoveDelays = {1, 2}
  NoticeDelays = {1}
  FirstPeriod = 2
  PeriodDelays = {2}
  ServeTimes = {1}
  AskedNames <- NobodyAsks
  AskedIds <- NobodyAsks
  QueryTimes = {1}
  QuerySends = 3
  InboxSize = 2
  Everyone = 9
  SendTo <- NobodyAsks
  Payload = {p}
  p = p
  MaxBoots <- Once
SPECIFICATION FairSpec
PROPERTY
  Converges
INVARIANT
  SomeoneKeepsName
