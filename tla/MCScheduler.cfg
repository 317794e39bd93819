CONSTANTS
  NULL = NULL
  idle = idle
  a = a
  b = b
  c = c
  Tasks = {idle, a, b, c}
  IdleTask = idle
  Priority <- MCPriority
  PRIORITY_MAX = 2
  TickMod = 3
  SleepTicks = {0, 2}
SPECIFICATION FairSpec
INVARIANTS
  TypeOK
  QueuesWellFormed
  CurrentIsRunning
  NoRunnableHidden
  NoOverdueSleeper
PROPERTIES
  OnlyPreemptedOutranks
  ExitIsFinal
  ImplementsRunQueues
  SleeperWoken
  TopPriorityRuns
