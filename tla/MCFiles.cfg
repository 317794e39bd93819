CONSTANTS
  Slots = 2
  HeapFiles = 2
  MaxFd = 3
  MaxTasks = 3
  PipeSize = 2
  Paths <- MCPaths
  MaxMounts = 16
SPECIFICATION FilesSpec
INVARIANTS
  FilesTypeOK
  DescriptorsLive
  ReferencesAccounted
  PipeWithinBuffer
CHECK_DEADLOCK FALSE
