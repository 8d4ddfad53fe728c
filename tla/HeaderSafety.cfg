SPECIFICATION Spec
CONSTANTS
  Header <- Blocks
  Genesis = "g"
  Prev <- Parent
  Work <- Weights
  Chains <- Shrinks
  Files <- Disks
  Checkpoints <- Vouched
  Interval = 2
  WalkChunk = 2
  MaxDeferred = 1
  Wanted = {1}
  MaxRestarts = 1
  Events = {"crash", "drop", "error", "timeout", "stop", "reconnect", "extend"}
  MaxEvents = 2
INVARIANTS StoreIsAChain ReplayErasesNoSync
PROPERTIES WorkNeverDrops
CHECK_DEADLOCK FALSE
