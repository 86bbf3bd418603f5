CONSTANTS
  Paths <- MCPaths
  Peers <- MCPeers
  Settings <- Interleaved
  None = None
SPECIFICATION Spec
INVARIANTS ValidBlocksAccepted ListsAreChains SynopsisEndsWithOffer NothingForgotten
PROPERTY InnocentKept
CHECK_DEADLOCK FALSE
