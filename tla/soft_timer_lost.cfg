SPECIFICATION Spec
CONSTANTS
  TickMod = 8
  HardTimers = {h}
  SoftTimers = {s}
  thread_timer = tt
  none = none
  Times = {1, 2}
  MaxLag = 1
  SoftAnywhere = TRUE
  ModeWhileFiring = FALSE
INVARIANTS
  IdleWithoutTimers
VIEW View
