SPECIFICATION FairSpec

CONSTANTS
  c1 = c1
  c2 = c2
  NoCase = NoCase
  starter = starter
  poller1 = poller1
  poller2 = poller2
  Cases <- TwoCases
  Starters <- OneStarter
  Pollers <- OnePoller
  AgentsFor <- RenewalOnly
  MaxStarts = 1
  MaxActions = 6
  CrashesAllowed = FALSE
  ExecutionMayFail = FALSE
  Unreadable <- FirstCase

PROPERTIES
  EveryCaseFinishes
