SPECIFICATION Spec
CONSTANTS
  Reader = r
  Writer = w
  Bytes = {x, y}
  none = none
  null = null
  BufSizes = {2, 3}
  Lines <- MCLines
  Devices = {{"INT_RX"}, {"INT_TX"}}
  PlainOpens = TRUE
  Overlap = FALSE
  NewlineAnywhere = FALSE
INVARIANTS
  InterruptHasFifo
