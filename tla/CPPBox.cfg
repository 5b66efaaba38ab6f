SPECIFICATION BoxSpec
CONSTANTS
  rec = rec
  play = play
  main = main
  writer = writer
  reader = reader
  Threads <- TestThreads
  Calls <- TestCalls
  Chunks = 4
  MaxPush = 4
  PlayerPush = 4
  maxCount = 2
  MaxPause = 2
INVARIANTS OneChunkSurvivesPause CopyIsComplete
PROPERTIES PauseHandlerReturns BothOpenThenDeleted
CHECK_DEADLOCK FALSE
