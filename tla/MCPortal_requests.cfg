SPECIFICATION Spec
CONSTANTS
  Editors = {e1, e2}
  Viewers = {v1}
  Uploaders = {u1, u2}
  Slots = {"qr"}
  MediaFaults = {"refused", "ackLost", "unlink"}
  Drafts = {"d1", "d2"}
  Mirroring = {"d2"}
  MaxRequests = 4
  MaxEdits = 2
  DbFaults = {"refused", "ackLost"}
INVARIANTS
  TypeOK
  StatusTellsDraft
  CacheCurrent
  DiffExact
  NoDanglingPath
SYMMETRY Symmetry
CHECK_DEADLOCK FALSE
