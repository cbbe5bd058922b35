SPECIFICATION Spec
CONSTANTS
  MaximumQuantity = 8
  MaximumPrice = 8
  MaximumNotional = 8
  WordMod = 16
  Fds = {f}
  Sessions = {s, t}
  Commands <- GoodOnly
  RequestCapacity = 1
  ResponseCapacity = 1
  TransmitCapacity = 1
  MaxConnections = 2
  MaxFrames = 1
  MaxEvents = 1
  Malformed = Malformed
  None = None
INVARIANT Correlated
