SPECIFICATION Spec
CONSTANTS
  MaximumQuantity = 8
  MaximumPrice = 8
  MaximumNotional = 8
  WordMod = 16
  Fds = {f, g}
  Sessions = {s, t}
  Commands <- GoodOnly
  RequestCapacity = 1
  ResponseCapacity = 1
  TransmitCapacity = 1
  MaxConnections = 2
  MaxFrames = 2
  MaxEvents = 1
  Malformed = Malformed
  None = None
SYMMETRY Symmetry
INVARIANTS
  SessionsBound
  BatchFresh
  NeverToAnotherLiveClient
