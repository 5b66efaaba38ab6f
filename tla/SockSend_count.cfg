CONSTANTS
  Size = 9
  Width = 32
  MaxFailures = 2
SPECIFICATION SendSpec
INVARIANT CountedIsSent
CHECK_DEADLOCK FALSE
