SPECIFICATION Spec
CONSTANTS
  MaxPause = 2
  MaxFaults = 1
INVARIANTS SilentAfterPause 
PROPERTY SoundReturns
CHECK_DEADLOCK FALSE
