SPECIFICATION Spec
CONSTANTS
  TickMod = 8
  PrioMax = 3
  idle = idle
  main = main
  w = w
  x = x
  Threads <- MCThreads
  StaticThreads = {idle}
  InitPrio <- MCInitPrio
  InitTick <- MCInitTick
  SleepTicks = {1, 2}
  MaxNest = 1
  Calls <- SchedCalls
  MaskedCalls = {}
INVARIANTS
  MostUrgentRuns
PROPERTIES
  SwitchesToMostUrgent
  IsDispatcher
VIEW View
