SPECIFICATION Spec
CONSTANTS
  Payments = {"p1"}
  Actors = {"a1", "a2"}
  Ops <- TwoSettlers
  Amounts = {1, 2}
  MaxTries = 2
  DbFaults = TRUE
  MaxRequests = 4
INVARIANTS
  TypeOK
  SettlementsNotLost
  TotalAfterSuccess
PROPERTIES
  StatusFinal
  NeverOverSettled
CHECK_DEADLOCK FALSE
