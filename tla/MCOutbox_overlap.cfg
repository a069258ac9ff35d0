SPECIFICATION TimersSpec
CONSTANTS
  MaxMessages = 1
  Ticks = {t1, t2}
  BatchSize = 1
  MaxRetry = 2
  Types = {"TELEGRAM_MESSAGE", "EMAIL"}
  SendOutcomes = {"resolved", "rejected"}
  DbFaults = {"refused", "ackLost"}
  MaxCrashes = 1
  MaxFailures = 4
  MaxStarts = 3
INVARIANTS
  SentOnlyAfterSend
  GivenUpOnlyWhenExhausted
  RetryNeverOvercounts
  StoppedIsQuiet
PROPERTIES
  ImplementsOutbox
SYMMETRY TickSymmetry
