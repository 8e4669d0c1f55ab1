SPECIFICATION Spec
CONSTANTS
  Sub = {s1, s2}
  Setup <- MCSetup
  Single = 1
  MaxBooks = 2
  Room = 2
  None = None
  Junk = Junk
INVARIANTS InOrder OwnBook
PROPERTIES EveryoneServed Delivered
CHECK_DEADLOCK FALSE
