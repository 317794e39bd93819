CONSTANTS
  MAX_RETRIES = 1
  NumMgmtDesc = 1
  ApMac = "02:00:00:00:00:01"
  MaxAttempts = 1
  MaxSignals = 1
SPECIFICATION WifiBusySpec
PROPERTY
  AttemptConcludes
CHECK_DEADLOCK FALSE
