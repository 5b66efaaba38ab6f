CONSTANTS
  c1 = c1
  c2 = c2
  c3 = c3
  NULL = NULL
  Slow <- OneSlow
  Conns <- ThreeConns
  MaxFrames = 2
  Channels <- MCChannels
  Kinds <- MCKinds
  CHUNK_LEN = 2
  SIZE_LEN = 2
  EXT = 3
  MaxMessages = 3
  MaxWire = 9
SYMMETRY Symmetry
SPECIFICATION ServerSpec
INVARIANTS ClientsAreOpen RoundServesAll StreamComplete ChunksCarry MessagesSurvive
CHECK_DEADLOCK FALSE
