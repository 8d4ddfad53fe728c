SPECIFICATION Spec
CONSTANTS
  ReorgDepth = 2
  Txs <- MCTxs
  Ins <- MCIns
  Pays <- MCPays
  Own <- MCOwn
  Birthday = 1
  Genesis <- NoGenesis
  MaxHeight = 2
  Window = 2
  Overrides = {1}
  Kinds = {"start", "reorg"}
  MaxEvents = 3
INVARIANT
  ReorgIsHandled
CHECK_DEADLOCK FALSE
