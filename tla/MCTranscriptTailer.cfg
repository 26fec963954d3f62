SPECIFICATION FairSpec
CONSTANTS
  s1 = s1
  s2 = s2
  Sessions = {s1, s2}
  Shard <- OneShard
  QueueSize = 1
  MaxAttempts = 2
  Files <- Mixed
  Written <- Resumed
  MaxFaults = 1
  MaxCrashes = 1
  None = None
INVARIANTS NothingSkipped ReplayAgrees CloseKeepsAccepted
CHECK_DEADLOCK FALSE
 
