SPECIFICATION Spec

CONSTANTS
  acme = acme
  acmeUK = acmeUK
  a1 = a1
  a2 = a2
  o1 = o1
  o2 = o2
  o3 = o3
  NoOpp = NoOpp
  NoDate = NoDate
  Roots <- Names
  Within <- NameWithin
  Accounts <- TwoAccounts
  Opps <- ThreeOpps
  Closes <- CloseDates
  Spellings <- FiveSpellings
  Window = 1
  ExactLimit = 2
  WideLimit = 3
  MaxDay = 1

SYMMETRY LookupSymmetry

CHECK_DEADLOCK FALSE

INVARIANTS
  LookupTypeOK
  OwnAccountOnly
  OneAccount
  MissJustified
  StopJustified
  PickJustified
