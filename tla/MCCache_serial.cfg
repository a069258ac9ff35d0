SPECIFICATION Spec
CONSTANTS
  Syncs = {s1, s2}
  Views = {}
  Listings = {r1}
  Refreshers = {r1}
  QueryTTL = 2
  SoftTTL = 2
  RefreshDelay = 1
  FillTime = 1
  MaxChanges = 2
  MaxClock = 6
SYMMETRY Symmetry
INVARIANTS
  TypeOK
  StalenessBounded
  TableCurrent
CHECK_DEADLOCK FALSE
