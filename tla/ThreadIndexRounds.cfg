SPECIFICATION FairSpec
CONSTANTS
  NumNeighbors = 2
  MaxRounds = 2
  Limits = {5, 6}
  Sending = TRUE
INVARIANTS TypeOK AbortOnlyOnOverlap LowPortsNotCrowded LastPortServed
PROPERTIES ThreadsGetThere RoundsGoOn
CHECK_DEADLOCK FALSE
