SPECIFICATION FairSpec
CONSTANTS
  Size <- MCSize
  Values = {x, y}
  NoValue = NoValue
INVARIANTS
  TypeOK
  NoDataRace
  IndicesOrdered
PROPERTIES
  ImplementsFifo
  KeepsFlowing
