SPECIFICATION FairSpec
CONSTANTS
  MaxFiles = 3
  WorkerCount = 2
  Unreliable = {1}
  MaybeLarge = {2}
  MaxCancels = 1
INVARIANTS
  TypeOK
  NoIdleWorker
  UploadsWhatWasValidated
PROPERTIES
  CompletedIsFinal
  ValidationEnds
CHECK_DEADLOCK FALSE
