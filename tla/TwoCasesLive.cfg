SPECIFICATION FairSpec

CONSTANTS
  c1 = c1
  c2 = c2
  NoCase = NoCase
  starter = starter
  poller1 = poller1
  poller2 = poller2
  Cases <- TwoCases
  Starters <- OneStarter
  Pollers <- OnePoller
  AgentsFor <- OneOfEach
  MaxStarts = 1
  MaxActions = 5
  CrashesAllowed = FALSE
  ExecutionMayFail = FALSE
  Unreadable = {}

INVARIANTS
  NoStepProposedTwice
  NoCaseStranded
  OrderlyInv
  NoStepSkipped

PROPERTIES
  EveryCaseFinishes
