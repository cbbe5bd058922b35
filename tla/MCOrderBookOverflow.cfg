SPECIFICATION Spec
CONSTANTS
  MinimumPrice = 2
  MaximumPrice = 4
  TickSize = 2
  MaximumOrders = 2
  OrderIds = {a, b, c}
  Prices <- TwoLevelsAndBetween
  Quantities <- LargeQuantities
  SequenceSteps = {1}
  MaxSequence = 4
  NoOrder = NoOrder
  NoCommand = NoCommand
  WordBits = 1
  QMod = 4
SYMMETRY Symmetry
INVARIANT AggregatesExact
CHECK_DEADLOCK FALSE
