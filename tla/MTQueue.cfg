CONSTANTS
  w1 = w1  w2 = w2  r1 = r1  r2 = r2
  Threads <- AllThreads
  Calls <- ReaderCalls
  maxCount = 2
  MaxPush = 3
SPECIFICATION QueueSpec
INVARIANTS EachOnce NoLostWakeup
PROPERTIES ImplementsBoundedFifo SleepingReaderServed TimedCallersReturn
