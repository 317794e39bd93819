CONSTANTS
  NULL = NULL
  idle = idle
  a = a
  b = b
  c = c
  Tasks = {idle, a, b}
  LockClients = {a, b}
  WaitClients = {a, b}
  IdleTask = idle
  Priority <- MCPriority
  PRIORITY_MAX = 1
  TickMod = 1
  SleepTicks = {}
  Units = 0
  MaxDepth = 1
  IsrInWindow = TRUE
  MaxIsrSignals = 1
SPECIFICATION SyncSpec
INVARIANTS
  NoTaskLost
