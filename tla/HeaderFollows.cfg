SPECIFICATION FairSpec
CONSTANTS
  Header <- Blocks
  Genesis = "g"
  Prev <- Parent
  Work <- Weights
  Chains <- Grows
  Files <- Disks
  Checkpoints <- NoCheckpoint
  Interval = 2
  WalkChunk = 2
  MaxDeferred = 3
  Wanted = {1}
  MaxRestarts = 1
  Events = {"crash", "drop", "stop", "reconnect", "extend"}
  MaxEvents = 1
PROPERTIES AliveFollows
CHECK_DEADLOCK FALSE
