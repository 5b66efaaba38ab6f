SPECIFICATION ToolsSpec
CONSTANTS
  TextFiles <- MCTextFiles
  Block = 7
  Quarter = 2
  Figures = 2
  LineCap = 20
  Pkgs <- MCPkgs
  Depends <- MCDepends
  Lists <- MCLists
  Byte <- Bits
  BinFiles <- MCBinFiles
  nuhVct <- Heads
  bytesPerRead = 6
INVARIANTS FilesComeBack ListedInOrder UnitsPartitionFile
PROPERTY SearchEnds
CHECK_DEADLOCK FALSE
