CONSTANTS
  MaxFrames = 3
  AirTime = 1
  TxTakes <- OnTimeLateNever
  SendLimit = 2
  TxTimeout = 3
  Timeouts = {0, 2}
SPECIFICATION FairSpec
INVARIANTS
  IrqNeverStuck
  SentMeansAired
  ListensBetweenSends
PROPERTIES
  OnlySendCutsReception
  KeptWhileQuiet
  NoReplay
  EarlyFailureFollowsFailure
  CallsReturn
