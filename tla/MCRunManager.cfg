\* One run that starts when a viewer attaches, one that starts at once; two
\* viewers race for the first, two terminate calls and close() end both.  Two
\* connections to a port of the shared proxy that changes hands.
SPECIFICATION MCSpec
CONSTANTS
  r1 = r1
  r2 = r2
  v1 = v1
  v2 = v2
  k1 = k1
  k2 = k2
  key = key
  None = None
  Runs = {r1, r2}
  OnAttach = {r1}
  Shared = {r2}
  Keys = {key}
  KeyOf <- SharedKey
  Slots = 1
  Viewers = {v1, v2}
  RunOf <- OneTarget
  Kills = {k1, k2}
  p = p
  f1 = f1
  f2 = f2
  h1 = h1
  h2 = h2
  Bindings = {r1, r2}
  Snapshots = {}
  Flows = {f1, f2}
  Handlers = {h1, h2}
  MaxFaults = 2
INVARIANTS EndedHoldsNothing NothingLeaks KeyNamesOneRun 
PROPERTIES NoSecondPty CloseReturns
CHECK_DEADLOCK FALSE
