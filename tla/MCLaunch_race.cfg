SPECIFICATION Spec
CONSTANTS
  Launches = {"l1", "l2"}
  Ports = {1, 2}
  MaxTrouble = 0
INVARIANTS LoserRetries
CHECK_DEADLOCK FALSE
