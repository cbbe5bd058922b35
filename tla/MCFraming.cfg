SPECIFICATION Spec
CONSTANTS
  ByteBase = 14
  Magic = 9999
  ExecutionEvent = 9
  ReceiveCapacity = 80
  TransmitCapacity = 100
  SessionId = 5
  Commands <- MCCommands
  Damages <- MCDamages
  Paddings <- MCPaddings
  Undamaged = Undamaged
  Pieces = {24, 31, 51}
  MaxFrames = 2
INVARIANTS
  RequestsIntact
  ResponsesIntact
  ClosedOnlyForCause
PROPERTY FramesArrive
CHECK_DEADLOCK FALSE
