SPECIFICATION FairSpec
CONSTANTS
  Reader = r
  Writer = w
  Bytes = {x, y}
  none = none
  null = null
  BufSizes = {2, 3}
  Lines <- MCLines
  Devices = {{"INT_RX"}, {"INT_TX"}}
  PlainOpens = FALSE
  Overlap = FALSE
  NewlineAnywhere = FALSE
INVARIANTS
  InterruptHasFifo
  ClosedClean
  NoLostIndication
PROPERTIES
  IsByteQueue
  OneReturn
  WriteEnds
