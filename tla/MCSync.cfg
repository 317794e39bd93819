CONSTANTS
  NULL = NULL
  idle = idle
  a = a
  b = b
  c = c
  Tasks = {idle, a, b, c}
  LockClients = {a, b, c}
  WaitClients = {a, b, c}
  IdleTask = idle
  Priority <- MCPriority
  PRIORITY_MAX = 1
  TickMod = 1
  SleepTicks = {}
  Units = 1
  MaxDepth = 2
  IsrInWindow = FALSE
  MaxIsrSignals = 1
SPECIFICATION SyncSpec
INVARIANTS
  SyncTypeOK
  MutualExclusion
  MutexMatchesOwner
  UnitsConserved
  WaitReturnsWithUnit
  NoTaskLost
