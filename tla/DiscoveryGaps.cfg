SPECIFICATION FairSpec
CONSTANTS
  A = a
  B = b
  C = c
  Node = {a, b, c}
  Port <- Gaps
  Owner <- OwnerGaps
  Peer <- PeerGaps
  Line <- LineGaps
  Served <- ServedGaps
  MaxLosses = 1
INVARIANTS TypeOK LspFindsSocket DoneNeedsListeners
PROPERTY AllDiscovered
CHECK_DEADLOCK FALSE
