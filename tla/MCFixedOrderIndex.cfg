SPECIFICATION Spec
CONSTANTS
  MaximumOrders = 3
  Capacity <- MCCapacity
  OrderIds = {a, b, c}
  Nodes = {0, 1}
  Null = Null
INVARIANTS
  FindExact
  OneSlotEach
PROPERTY RepairTerminates
