CONSTANTS
  a = a
  b = b
  p = p
  q = q
  r = r
  s = s
  Node = {a, b}
  Name <- Names
  NodeId = {1, 2}
  Suffixed <- Suffixes
  MaxPeers = 2
  Configured <- SameName
  Nonce = {1}
  HushTimes = {0}
  ProbeTime = 1
  SettleDelays = {1}
  MoveDelays = {1}
  NoticeDelays = {1}
  FirstPeriod = 1
  PeriodDelays = {1}
  ServeTimes = {1}
  AskedNames <- AAsks
  AskedIds <- NobodyAsks
  QueryTimes = {1, 2}
  QuerySends = 2
  InboxSize = 1
  Everyone = 9
  SendTo <- Addresses
  Direct <- BySight
  Payload = {p, q, r, s}
  QueueMax = 2
  Text <- Texts
  MaxBoots <- Once
SPECIFICATION MFairSpec
INVARIANTS
  MailOK
  NewestKept
PROPERTY
  SendReturns
