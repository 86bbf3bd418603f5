CONSTANTS
  Paths <- MCPaths
  Peers <- MCPeers
  Settings <- Unfaulted
  None = None
SPECIFICATION Spec
INVARIANT ReceivedCannotBeProcessed
CHECK_DEADLOCK FALSE
