SPECIFICATION MCSpec
CONSTANTS
  f1 = f1
  f2 = f2
  Flows = {f1, f2}
  Exchanges <- Ids
  MaxMishaps = 2
  None = None
  Anon = Anon
  NoTurn = NoTurn
  Raised = Raised
  m1 = m1
  c1 = c1
  MaxFrames = 4
  MaxSocketMishaps = 1
INVARIANTS   TurnsAreRecorded DerivationIsReplayable
CHECK_DEADLOCK FALSE
