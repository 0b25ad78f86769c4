SPECIFICATION Spec

CONSTANTS
  c1 = c1
  c2 = c2
  NoCase = NoCase
  starter = starter
  poller1 = poller1
  poller2 = poller2
  Cases <- OneCase
  Starters <- OneStarter
  Pollers <- OnePoller
  AgentsFor <- AnyAgent
  MaxStarts = 2
  MaxActions = 3
  CrashesAllowed = TRUE
  ExecutionMayFail = TRUE
  Unreadable = {}

INVARIANTS
  GateInv
  CallGatesTheChain
  ReportNotInvented
