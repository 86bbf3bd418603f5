CONSTANTS
  Paths <- FewPaths
  Peers <- MCPeers
  Settings <- Fair
  None = None
SPECIFICATION FairSpec
INVARIANT RequestedOfOne
PROPERTIES RequestsEnd Synchronises
CHECK_DEADLOCK FALSE
