SPECIFICATION Spec
CONSTANTS
  TickMod = 8
  HardTimers = {h}
  SoftTimers = {s}
  thread_timer = tt
  none = none
  Times = {1, 2}
  MaxLag = 1
  SoftAnywhere = FALSE
  ModeWhileFiring = FALSE
INVARIANTS
  HardOnTime
  HardSorted
  StoppedIsSilent
  ActiveLinked
  IdleWithoutTimers
  BlockedWaits
PROPERTIES
  EarlyFirst
VIEW View
