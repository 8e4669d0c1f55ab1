SPECIFICATION Spec
CONSTANTS
  Size = 3
  Price = {1, 2, 3, 4}
  OrderId = {i1, i2}
  Quantity = {1, 2}
  MaxDeficit = 0
  MaxQty = 3
  MaxOpen = 1
  MaxOrders = 3
SYMMETRY Symmetry
VIEW View
CHECK_DEADLOCK FALSE
INVARIANTS LevelsHaveOrders
PROPERTIES ChangesAreStamped OrdersAreCounted CleanCallsAggregate
