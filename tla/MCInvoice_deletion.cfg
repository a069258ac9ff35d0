SPECIFICATION Spec
CONSTANTS
  Invoices = {1}
  Payments = {1}
  Actors = {a1}
  Late = {}
  Amounts = {1, 2}
  DbFaults = FALSE
  MaxRequests = 3
INVARIANTS
  DeletionComplete
CHECK_DEADLOCK FALSE
