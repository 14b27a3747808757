SPECIFICATION Spec
CONSTANTS
  A = a
  B = b
  C = c
  D = d
  E = e
  F = f
  Node = {a, b, c}
  Port <- Cycle3
  Owner <- OwnerCycle3
  Peer <- PeerCycle3
  Line <- LineCycle3
  Served <- Cycle3
  Originator = {a, b, c}
  InitialTTL = 2
  MaxLosses = 0
  MaxDeaths = 0
INVARIANT CompleteMap
