CONSTANTS
  Jobs = {a1, a2}
  Reps = {"r1", "r2"}
  ActiveReps = {"r1"}
  Invoices = {"i1", "i2", "i3"}
  RepOf <- MCRepOf
  Amount <- MCAmount
  Dated = {"i1", "i3"}
  Linked = {"i3"}
  InitialInvoices = {"i1", "i2"}
  Batches = {b1, b2}
  Tolerance = 2
  MaxAdjust = 1
  MaxJobs = 2
  MaxAllocated = 1
  Payable <- MCPayable
  Faults = TRUE
SPECIFICATION Spec
INVARIANTS TypeOK DebtAfterRepair ProcessingIsWorkedAt BatchCountsInvoices
SYMMETRY Symm
PROPERTIES AdjustWithinLimit
CHECK_DEADLOCK FALSE
