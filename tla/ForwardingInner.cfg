SPECIFICATION FairSpec
CONSTANTS
  A = a
  B = b
  C = c
  D = d
  W = w
  X = x
  Y = y
  Z = z
  NoNode = none
  Node = {a, b, c, d, w, x, y, z}
  Port <- Sample
  Owner <- OwnerSample
  Peer <- PeerSample
  Dist <- DistSample
  First <- FirstSample
  Letter <- LetterSample
  Trial <- TrialInner
  Overruns = FALSE
  MaxAstray = 1
  MaxLosses = 0
PROPERTY ArbitraryDests
CHECK_DEADLOCK FALSE
