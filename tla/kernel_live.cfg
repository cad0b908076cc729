SPECIFICATION FairSpec
CONSTANTS
  TickMod = 5
  PrioMax = 3
  idle = idle
  main = main
  w = w
  x = x
  Threads <- ThreeThreads
  StaticThreads = {idle}
  InitPrio <- InitPrio3
  InitTick <- InitTick3
  SleepTicks = {1}
  MaxNest = 1
  Calls <- LiveCalls
  MaskedCalls = {}
PROPERTIES
  SleepEnds
  ReadyRuns
