SPECIFICATION Spec
CONSTANTS
  MaxFd = 3
  MaxConn = 3
  EVENTS_SIZE = 3
INVARIANT CallbackOnOpen
PROPERTY EveryPeerServed
CHECK_DEADLOCK FALSE
