SPECIFICATION FairSpec
CONSTANTS
  A = a
  B = b
  C = c
  D = d
  W = w
  X = x
  Y = y
  Z = z
  NoNode = none
  Node = {a, b, w, z}
  Port <- Diamond
  Owner <- OwnerDiamond
  Peer <- PeerDiamond
  Dist <- DistDiamond
  First <- FirstDiamond
  Letter <- LetterDiamond
  Trial <- TrialDiamond
  Overruns = TRUE
  MaxAstray = 1
  MaxLosses = 1
INVARIANTS TypeOK HopsBounded NoDuplicates
PROPERTY EveryDestServed
CHECK_DEADLOCK FALSE
