SPECIFICATION Spec
CONSTANTS
  TickMod = 8
  PrioMax = 3
  idle = idle
  main = main
  w = w
  x = x
  Threads <- ThreeThreads
  StaticThreads = {idle}
  InitPrio <- InitPrio3
  InitTick <- InitTick3
  SleepTicks = {1, 2}
  MaxNest = 1
  Calls <- DeleteCalls
  MaskedCalls = {}
INVARIANTS
  ClosedUnscheduled
VIEW View
