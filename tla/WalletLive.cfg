SPECIFICATION LiveSpec
CONSTANTS
  t1 = t1
  t2 = t2
  s1 = s1
  s2 = s2
  b1 = b1
  b2 = b2
  c2 = c2
  c3 = c3
  NoBlock = NoBlock
  Txid = {t1, t2}
  Spk = {s1}
  Block <- MCBlock
  MaxHeight = 3
  Touches <- TwoTouch
  Funds <- TwoTouch
  Chains <- Growth
  Contents <- TwoTxs
  Floors = {1, 3}
  MaxPool = 0
  MaxErrors = 0
  MaxDrops = 0
  MaxMerkleDrops = 0
  MaxBroadcasts = 1
  MaxCrashes = 0
PROPERTIES WalletSettles
CHECK_DEADLOCK FALSE
