SPECIFICATION Spec

CONSTANTS
  c1 = c1
  c2 = c2
  NoCase = NoCase
  starter = starter
  poller1 = poller1
  poller2 = poller2
  Cases <- OneCase
  Starters <- OneStarter
  Pollers <- TwoPollers
  AgentsFor <- OnboardingOnly
  MaxStarts = 1
  MaxActions = 4
  CrashesAllowed = FALSE
  ExecutionMayFail = FALSE
  Unreadable = {}

INVARIANTS
  ResumedWithOwnVerdict
