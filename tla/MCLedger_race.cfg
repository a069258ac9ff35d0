SPECIFICATION GuardedSpec
CONSTANTS
  Payments = {"p1", "p2"}
  Invoices = {"i1", "i2"}
  Actors = {a1, a2}
  PayAmount <- MCPayAmount
  InvAmount <- MCInvAmount
  Requests <- Partial
  Overlapping <- Partial
  Guards = "enforce"
  PartialMode = "enforce"
  DualWrite = "shadow"
  DbFaults = FALSE
  MaxAttempts = 2
  MaxRequests = 2
  MaxDeletions = 0
  MaxBatch = 3
INVARIANTS
  PaymentNotOverAllocated
CHECK_DEADLOCK FALSE
