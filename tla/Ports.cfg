SPECIFICATION Spec
CONSTANTS
  Sender = {s1, s2}
  Listener = {l1, l2}
  Packets <- PacketsAB
  MaxTTL = 1
  Fresh = {0, 7}
  Size = 11
  Room = 2
  MaxSends = 3
INVARIANTS TypeOK ArrivesWhole RecordedAsSent RelayedRight PayloadKept
PROPERTY ReceiveDiesOnlyOfOverlap
SYMMETRY Threads
CHECK_DEADLOCK FALSE
