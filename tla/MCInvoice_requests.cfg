SPECIFICATION Spec
CONSTANTS
  Invoices = {1, 2}
  Payments = {1}
  Actors = {a1}
  Late = {2}
  Amounts = {1, 2}
  DbFaults = TRUE
  MaxRequests = 5
INVARIANTS
  TypeOK
  StatusAfterCheck
  DebtAfterRequest
  AllocatedWithinPayment
CHECK_DEADLOCK FALSE
