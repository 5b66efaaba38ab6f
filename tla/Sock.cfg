SPECIFICATION SockSpec
CONSTANTS
  Fds <- TwoFds
  MaxConn = 4
  Size = 9
  Width = 32
  MaxFailures = 2
INVARIANTS JoinedBeforeDelete DescriptorsOwned SentInOrder
PROPERTIES FinishedReaped LoopsEnd
CHECK_DEADLOCK FALSE
