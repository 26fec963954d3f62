\* A terminate call overtakes the spawn of the PTY.
SPECIFICATION MCSafe
CONSTANTS
  r1 = r1
  r2 = r2
  v1 = v1
  v2 = v2
  k1 = k1
  k2 = k2
  key = key
  None = None
  Runs = {r1}
  OnAttach = {r1}
  Shared = {}
  Keys = {key}
  KeyOf <- NoKeys
  Slots = 1
  Viewers = {v1}
  RunOf <- OneTarget
  Kills = {k1}
  p = p
  f1 = f1
  f2 = f2
  h1 = h1
  h2 = h2
  Bindings = {}
  Snapshots = {}
  Flows = {}
  Handlers = {h1, h2}
  MaxFaults = 2
INVARIANTS LeaseOutlivesPty
CHECK_DEADLOCK FALSE
