SPECIFICATION MCSpec
CONSTANTS
  Pids = {1, 2, 3}
  MaxKills = 3
INVARIANTS CurationIsWhole OneAgentPerTrack LiveChildIsReplayed  
INVARIANTS  HomesAreKept
PROPERTIES ForwardedReadsTheSame
CHECK_DEADLOCK FALSE
