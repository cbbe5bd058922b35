SPECIFICATION Spec
CONSTANTS
  MaximumQuantity = 8
  MaximumPrice = 8
  MaximumNotional = 8
  WordMod = 16
  Fds = {f}
  Sessions = {s, t}
  Commands <- GoodAndWrapping
  RequestCapacity = 1
  ResponseCapacity = 1
  TransmitCapacity = 2
  MaxConnections = 1
  MaxFrames = 3
  MaxEvents = 2
  Malformed = Malformed
  None = None
INVARIANTS
  AnsweredOnce
  AnswersInOrder
  AdmittedWithinRisk
PROPERTY AnswersDelivered
