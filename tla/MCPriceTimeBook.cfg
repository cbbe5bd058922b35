SPECIFICATION Spec
CONSTANTS
  MinimumPrice = 2
  MaximumPrice = 6
  TickSize = 2
  MaximumOrders = 2
  OrderIds = {a, b, c}
  Prices <- MCPrices
  Quantities <- MCQuantities
  SequenceSteps = {0, 1, 2}
  MaxSequence = 5
  NoOrder = NoOrder
  NoCommand = NoCommand
SYMMETRY Symmetry
INVARIANTS
  TypeOK
  CommandOK
  NotCrossed
  ReplacementAdmitted
  FillOrKillFills
  Deterministic
PROPERTY QuantityConserved
CHECK_DEADLOCK FALSE
