SPECIFICATION Spec
CONSTANTS
  MemSize = 100
  Align = 4
  Header = 12
  MIN_SIZE = 12
  WordSize = 256
  Sizes = {0, 1, 14, 28, 60, 101}
  null = null
INVARIANTS
  Chained
  Coalesced
  LfreeLowest
  UsedExact
PROPERTIES
  IsHeap
VIEW View
