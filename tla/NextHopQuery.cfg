SPECIFICATION FairSpec
CONSTANTS
  A = a
  B = b
  W = w
  Z = z
  J = j
  NoNode = none
  Node = {a, b, w, z}
  Port <- Diamond
  Owner <- OwnerDiamond
  Peer <- PeerDiamond
  Dist <- DistDiamond
  First <- FirstDiamond
  Letter <- LetterDiamond
  Self = w
  NbrTbl <- NbrTblW
  Junk = j
  Recorded <- RecordedW
  Tails <- TailsW
  MaxGrown = 5
  Listener = {l1, l2}
  Query <- QueryW
  MaxCalls = 2
INVARIANTS TypeOK QueryTypeOK TablesRight CleanSurvives AnswersRight
PROPERTIES Settles RaceOnlyWhileNew
CHECK_DEADLOCK FALSE
