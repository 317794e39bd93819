CONSTANTS
  Tasks = {t1}
  Socks = {s1, s2}
  NumBufs = 2
  Ports = {2}
  FirstPort = 2
  LastPort = 2
  MaxUnits = 2
  None = None
SPECIFICATION SocketsFairSpec
PROPERTY
  ReceiverServed
CHECK_DEADLOCK FALSE
