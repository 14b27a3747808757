SPECIFICATION FairSpec
CONSTANTS
  A = a
  B = b
  C = c
  D = d
  E = e
  F = f
  Node = {a, b, c}
  Port <- Line3
  Owner <- OwnerLine3
  Peer <- PeerLine3
  Line <- LineLine3
  Served <- Line3
  Toward <- TowardLine3
  Originator = {a, b, c}
  InitialTTL = 1
  MaxLosses = 1
  MaxDeaths = 1
INVARIANTS OutwardOnly CompleteMap
PROPERTIES MapFrozen EveryMapBuilt Disseminates
CHECK_DEADLOCK FALSE
