SPECIFICATION SafetySpec
CONSTANTS
  t1 = t1
  t2 = t2
  s1 = s1
  s2 = s2
  b1 = b1
  b2 = b2
  c2 = c2
  c3 = c3
  NoBlock = NoBlock
  Txid = {t1}
  Spk = {s1, s2}
  Block <- MCBlock
  MaxHeight = 3
  Touches <- BothTouch
  Funds <- BothTouch
  Chains <- Reorg
  Contents <- NextHeight
  Floors = {1}
  MaxPool = 0
  MaxErrors = 0
  MaxDrops = 0
  MaxMerkleDrops = 0
  MaxBroadcasts = 0
  MaxCrashes = 0
INVARIANTS VerifiedIsMined InFlightHasFetch AtMostOneClaim ViewIsCurrent
PROPERTIES FailedIsTerminal
CHECK_DEADLOCK FALSE
