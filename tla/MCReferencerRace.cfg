SPECIFICATION Spec
CONSTANTS
  Producer = {p1, p2}
  Worker = {w1, w2}
  Msg = {m1, m2, m3}
  None = None
  Results <- AllResults
  StartPriority <- AnyPriority
  MaxDebt = 3
  MaxSize = 3
  MaxKeep = 1
CHECK_DEADLOCK FALSE
SYMMETRY Symmetry
INVARIANTS NothingStranded
