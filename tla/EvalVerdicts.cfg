SPECIFICATION Spec

CONSTANTS
  Cases <- ThreeCases
  MaxCalls = 2

CHECK_DEADLOCK FALSE

INVARIANTS
  EvalTypeOK
  ExitIffRouted
  ConfidenceIsItsOwn
