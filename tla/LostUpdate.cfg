SPECIFICATION LostSpec
CONSTANTS
  t1 = t1
  t2 = t2
  s1 = s1
  s2 = s2
  b1 = b1
  b2 = b2
  c2 = c2
  c3 = c3
  NoBlock = NoBlock
  Txid = {t1}
  Spk = {s1}
  Block <- MCBlock
  MaxHeight = 3
  Touches <- OneTouch
  Funds <- OneTouch
  Chains <- Growth
  Contents <- SameHeight
  Floors = {1}
  MaxPool = 0
  MaxErrors = 0
  MaxDrops = 1
  MaxMerkleDrops = 0
  MaxBroadcasts = 0
  MaxCrashes = 0
PROPERTIES EventuallySettled
CHECK_DEADLOCK FALSE
