SPECIFICATION MCSpec
CONSTANTS
  Launchers = {1, 2}
  Dirs = {1, 2}
  MaxProcs = 2
  MaxLaunches = 3
  MaxOverlapping = 2
  MaxTrouble = 1
  Keys = {"r1", "r2"}
  CAPTURED_RUN_SPAWN_CONCURRENCY = 1
  MaxRuns = 2
  MaxTimers = 2
  MaxGestures = 4
  Launches = {"l1", "l2"}
  Ports = {1, 2}
INVARIANTS DesktopKeepsTrack  NothingIsLeft
PROPERTIES ViewersFollow
CHECK_DEADLOCK FALSE
