SPECIFICATION Spec
CONSTANTS
  MinimumPrice = 2
  MaximumPrice = 6
  TickSize = 2
  MaximumOrders = 3
  OrderIds = {a, b, c, d}
  Prices <- ThreeLevels
  Quantities <- OneOrTwo
  SequenceSteps = {1}
  MaxSequence = 5
  NoOrder = NoOrder
  NoCommand = NoCommand
  WordBits = 2
  QMod = 7
SYMMETRY Symmetry
INVARIANTS
  ArenaConsistent
  FifosConsistent
  AggregatesExact
  BestIndexExact
  NodeAvailable
  SnapshotFaithful
CHECK_DEADLOCK FALSE
