CONSTANTS
  NumRxDesc = 3
  MaxFrames = 7
SPECIFICATION RxFairSpec
INVARIANTS
  RxTypeOK
  FramesInOrder
  WakeupsAccounted
PROPERTY
  SignalledFramesHandled
CHECK_DEADLOCK FALSE
