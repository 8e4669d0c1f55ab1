SPECIFICATION QueuesSpec
CONSTANTS
  Null = Null
  NoNode = NoNode
  Thread = {t1, t2, t3}
  Msg = {m1, m2}
  Node = {1, 2, 3}
  Producer = {p1, p2}
  Consumer = {c1, c2}
  MaxMsg = 4
  MaxRaced = 2
INVARIANTS MutualExclusion InOrderOnce
PROPERTIES HangsForGood SomeoneEnters ImplementsFifo Drained
CHECK_DEADLOCK FALSE
