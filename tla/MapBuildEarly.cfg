SPECIFICATION Spec
CONSTANTS
  A = a
  B = b
  C = c
  D = d
  T1 = t1
  T2 = t2
  T3 = t3
  Self = d
  Source = {a, b, c}
  Listener = {t1, t2}
  Comes <- ComesToTwo
  MaxNames = 6
  MaxRaces = 1
INVARIANT BuiltFromAll
CHECK_DEADLOCK FALSE
