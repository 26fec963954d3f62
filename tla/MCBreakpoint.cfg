SPECIFICATION FairSpec
CONSTANTS
  f1 = f1
  f2 = f2
  legacy = legacy
  orig = orig
  edit = edit
  r1 = r1
  None = None
  Flows = {f1, f2}
  HttpFlows = {f1}
  SkipFlows = {}
  Scopes = {legacy}
  ScopeOf <- OneScope
  LegacyScope = legacy
  IRs = {orig, edit}
  Original = orig
  Requests = {r1}
INVARIANTS DropIsBinding AuditDescribesRecord EditIsHonoured
PROPERTIES GateSpec HookReturns
CHECK_DEADLOCK FALSE
