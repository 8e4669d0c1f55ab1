SPECIFICATION ContainersSpec
CONSTANTS
  Null = Null
  Producer = {p1, p2}
  Consumer = {c1}
  Msg = {m1, m2}
  Node = {1, 2, 3, 4}
  MaxDrift = 3
  Key = {k1, k2, k3, k4}
  Value = {v1, v2}
  Empty = Empty
  MaxBuckets = 8
  u1 = u1
  u2 = u2
  u3 = u3
  q1 = q1
  q2 = q2
  Taker = {u1, u2, u3}
  Container = {q1, q2}
  Use <- MCUse
  Default <- MCDefault
  MaxNew = 1
SYMMETRY Symmetry
INVARIANTS NoUseAfterFree HalfEmpty OneUser QuietListsWhole
PROPERTIES ImplementsFifo ImplementsMap
CHECK_DEADLOCK FALSE
