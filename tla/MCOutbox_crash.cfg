SPECIFICATION FairSpec
CONSTANTS
  MaxMessages = 2
  Ticks = {t1}
  BatchSize = 1
  MaxRetry = 1
  Types = {"TELEGRAM_MESSAGE", "EMAIL"}
  SendOutcomes = {"resolved", "rejected"}
  DbFaults = {}
  MaxCrashes = 1
  MaxFailures = 3
PROPERTIES
  EverySettles
