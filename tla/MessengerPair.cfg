CONSTANTS
  a = a
  b = b
  p = p
  q = q
  r = r
  s = s
  Node = {a, b}
  Name <- Names
  NodeId = {1, 2, 3}
  Suffixed <- Suffixes
  MaxPeers = 2
  Configured <- SameName
  Nonce = {1}
  HushTimes = {0}
  ProbeTime = 1
  SettleDelays = {1}
  MoveDelays = {1}
  NoticeDelays = {1}
  FirstPeriod = 1
  PeriodDelays = {1}
  ServeTimes = {1}
  AskedNames <- AAsks
  AskedIds <- BAsks
  QueryTimes = {3}
  QuerySends = 3
  InboxSize = 1
  Everyone = 9
  SendTo <- Addresses
  Direct <- BySight
  Payload = {p, q, r}
  QueueMax = 1
  Text <- OneEach
  MaxBoots <- BRestarts
SPECIFICATION MSpec
INVARIANTS
  TypeOK
  TablesAgree
  TableFits
  EntriesWereTrue
  RightReceiver
  RightSender
