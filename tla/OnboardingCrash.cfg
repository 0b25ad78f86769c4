SPECIFICATION Spec

CONSTANTS
  c1 = c1
  c2 = c2
  NoCase = NoCase
  starter = starter
  poller1 = poller1
  poller2 = poller2
  Cases <- OneCase
  Starters <- OneStarter
  Pollers <- OnePoller
  AgentsFor <- OnboardingOnly
  MaxStarts = 1
  MaxActions = 6
  CrashesAllowed = TRUE
  ExecutionMayFail = TRUE
  Unreadable = {}

INVARIANTS
  TypeOK
  IInv
  EveryProposalEarned
  CompletionEarned
  RejectedIsLastWrite
  ResumedWithOwnVerdict
  PendingHasNoStatus
  OneRunnerPerCase

PROPERTIES
  ImplementsGate
  ReportIsFinal
