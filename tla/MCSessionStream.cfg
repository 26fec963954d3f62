SPECIFICATION MCSpec
CONSTANTS
  v1 = v1
  v2 = v2
  Viewers = {v1, v2}
  MaxBytes = 2
  QueueSize = 2
  ReadSizes = {1, 3}
  Output = 4
  None = None
  MaxSeq = 2
  QueueMaxSize = 2
  FetchLimit = 2
  ListLimit = 2
  MaxFaults = 2
  Children = {"c1"}
  MaxRows = 5
  Flows = {"x", "y"}
  MaxTrouble = 1
  MaxCalls = 1
  Calls = {"c1", "c2"}
  SessionCwds <- MCCwds
  MaxChanges = 1
  MaxSpaces = 4
INVARIANTS StreamIsGapless NothingPassedUnseen 
INVARIANTS ListFollows EditorStays RepoRowsMatch
PROPERTIES EventsArrive
CHECK_DEADLOCK FALSE
