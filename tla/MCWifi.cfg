CONSTANTS
  MAX_RETRIES = 1
  NumMgmtDesc = 1
  ApMac = "02:00:00:00:00:01"
  MaxAttempts = 2
  MaxSignals = 1
SPECIFICATION WifiSpec
INVARIANT
  WifiTypeOK
  ScanHasDeadline
PROPERTY
  ProgressOnlyIfHeard
CHECK_DEADLOCK FALSE
