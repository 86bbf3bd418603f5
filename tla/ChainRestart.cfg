CONSTANTS
  Blocks <- ValidTree
  NoBlock = "none"
  Prev <- MCPrev
  Slot <- MCSlot
  WitnessOf <- MCWitnessOf
  TxsOf <- MCTxsOf
  Bad = {}
  Txs = {"t1", "t2"}
  Expires <- MCExpires
  MaxUntilExpiration = 8
  Conflicts <- MCConflicts
  ProposalTxs = {"t2"}
  Witnesses = {"w1", "w2", "w3"}
  BlockCap = 1
  MaxUndoHistory = 10
  InitialMax = 8
  Restarts = TRUE
SPECIFICATION Spec
INVARIANTS
  StateIsReplay
  LogMatchesChain
PROPERTIES
  CallsEnd
CHECK_DEADLOCK FALSE
