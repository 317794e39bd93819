CONSTANTS
  Tasks = {t1, t2}
  Socks = {s1, s2}
  NumBufs = 2
  Ports = {2}
  FirstPort = 2
  LastPort = 2
  MaxUnits = 2
  None = None
SPECIFICATION SocketsFairSpec
INVARIANTS
  SocketsTypeOK
  BuffersConserved
  UnitsCoverQueue
  ExplicitPortsDistinct
PROPERTY
  InputResumes
CHECK_DEADLOCK FALSE
