SPECIFICATION FairSpec

CONSTANTS
  first = first
  second = second
  reviewer = reviewer
  Runs <- TwoRuns
  Reviewers <- OneReviewer
  Limit = 1
  MinReviewed = 1
  MaxTurns = 2
  FailuresAllowed = TRUE

INVARIANTS
  RoutingTypeOK
  RowIsOneCall
  LoggedIffDelegated
  CalibratedOnEvidence

PROPERTIES
  VerdictStands
  EveryRowReviewed
