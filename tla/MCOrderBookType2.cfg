SPECIFICATION Spec
CONSTANTS
  OrderId = {i1, i2}
  Price = {1, 2}
  Quantity = {1, 2}
  NoOrder = NoOrder
  MaxDeficit = 0
  MaxLevel = 2
SYMMETRY Symmetry
PROPERTIES CleanCallsAggregate
