CONSTANTS
  Chars <- MCChars
  BufSize = 5
  Chunks <- MCChunks
  Junk <- MCJunk
  MaxBytes = 8
  Queries <- MCQueries
  RMax = 1
  WMax = 1
  Pieces = 2
  MaxLines = 1
SPECIFICATION Spec
INVARIANTS NoCommandLost OneReplyEach
PROPERTY QueryAnswered
CHECK_DEADLOCK FALSE
