SPECIFICATION GuardedSpec
CONSTANTS
  Payments = {"p1", "p2"}
  Invoices = {"i1", "i2"}
  Actors = {a1, a2}
  PayAmount <- MCPayAmount
  InvAmount <- MCInvAmount
  Requests <- Sequential
  Overlapping <- SameLines
  Guards = "enforce"
  PartialMode = "allow"
  DualWrite = "shadow"
  DbFaults = TRUE
  MaxAttempts = 2
  MaxRequests = 3
  MaxDeletions = 1
  MaxBatch = 3
INVARIANTS
  TypeOK
  PaymentNotOverAllocated
  CacheBacked
  EventsOnce
PROPERTIES
  OnlyManualExceeds
VIEW LiveState
SYMMETRY ActorSymmetry
CHECK_DEADLOCK FALSE
