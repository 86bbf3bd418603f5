CONSTANTS
  Types = {account}
  Values = {v1, v2}
  None = None
  MaxInstance = 1
  MaxSizes = {2, 3}
  MaxDepth = 3
SYMMETRY ValueSymmetry
SPECIFICATION HSpec
INVARIANTS TypeOK StackDescribesHistory CausalTiming RevertNeverThrows
PROPERTY ImplementsSnapshots
