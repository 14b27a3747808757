SPECIFICATION Spec
CONSTANTS
  A = a
  B = b
  C = c
  D = d
  T1 = t1
  T2 = t2
  T3 = t3
  Self = d
  Source = {a, b}
  Listener = {t1, t2, t3}
  Comes <- ComesToThree
  MaxNames = 4
  MaxRaces = 1
INVARIANTS TypeOK NamesPerListener NoMissedBuild OneCompleteMap
CHECK_DEADLOCK FALSE
