\* Three runs, two of them on the same port; requests are answered in time.
SPECIFICATION FairSpec
CONSTANTS
  r1 = r1  r2 = r2  r3 = r3
  s1 = s1
  h1 = h1
  p = p  q = q
  None = None
  Runs = {r1, r2, r3}
  PortOf <- Ports
  Snapshots = {s1}
  Flows = {}
  DialOf <- Dials
  Handlers = {h1}
  MaxFaults = 2
  Late = {}
INVARIANTS MirrorIsServed
PROPERTIES RunsAreServed
CHECK_DEADLOCK FALSE
