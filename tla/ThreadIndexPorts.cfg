SPECIFICATION FairSpec
CONSTANTS
  NumNeighbors = 3
  MaxRounds = 1
  Limits = {3}
  Sending = FALSE
INVARIANT EveryPortServed
CHECK_DEADLOCK FALSE
