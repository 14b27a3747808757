SPECIFICATION DeliverySpec
CONSTANTS
  A = a
  B = b
  C = c
  D = d
  E = e
  F = f
  Node = {a, b, c, d, e, f}
  Port <- Kite
  Owner <- OwnerKite
  Peer <- PeerKite
  Line <- LineKite
  Served <- Kite
  Originator = {a}
  InitialTTL = 2
  MaxLosses = 2
  MaxDeaths = 0
INVARIANTS TypeOK TTLBoundsReach
PROPERTY FloodDies
