SPECIFICATION LibrarySpec
CONSTANTS
  Writers <- MCWriters
  BufSize = 5
  Room = 8
  MaxFrames = 4
  MaxInterrupts = 1
  Uses <- MCUses
  Chunks <- MCChunks
  vadThreshold = 2
  MaxConfirm = 3
  MaxRun = 5
  Sizes <- MCSizes
  Created = 3
  MaxBytes = 7
INVARIANTS HandledInOrder BytesInOrder Confirmed
PROPERTY ReadIsHandled
CHECK_DEADLOCK FALSE
