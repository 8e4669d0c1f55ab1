SPECIFICATION Spec
CONSTANTS
  OrderId = {i1, i2}
  Price = {1, 2}
  Quantity = {1, 2}
  Node = {n1, n2}
  NoOrder = NoOrder
  Depth = 1
SYMMETRY Symmetry
INVARIANTS IteratorsValid ShowsLiveOrders
PROPERTIES OrphansStay ThrownCallsLeave ImplementsLiveOrders
