SPECIFICATION Spec

CONSTANTS
  live = live
  other = other
  Sessions = {live, other}
  Mode <- LiveAndReport
  MaxTurns = 2
  MaxDecided = 2

CHECK_DEADLOCK FALSE

INVARIANTS
  ToolsTypeOK
  ReportsDecidable
  OmissionsShowAsErrors
