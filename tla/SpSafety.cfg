SPECIFICATION Spec
CONSTANTS
  ReorgDepth = 2
  Txs <- MCTxs
  Ins <- MCIns
  Pays <- MCPays
  Own <- MCOwn
  Birthday = 1
  Genesis <- NoGenesis
  MaxHeight = 3
  Window = 2
  Overrides = {1}
  Kinds = {"start", "stop", "cancel", "clear", "broadcast", "reorg", "fault",
           "crash"}
  MaxEvents = 3
INVARIANTS
  
  CompletedScanAgrees
  SpendsKeepTheirTx
CHECK_DEADLOCK FALSE
