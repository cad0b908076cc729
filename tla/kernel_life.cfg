SPECIFICATION Spec
CONSTANTS
  TickMod = 8
  PrioMax = 3
  idle = idle
  main = main
  w = w
  x = x
  Threads <- ThreeThreads
  StaticThreads = {idle}
  InitPrio <- InitPrio3
  InitTick <- InitTick3
  SleepTicks = {1}
  MaxNest = 1
  Calls <- AllCalls
  MaskedCalls <- Masked
INVARIANTS
  ReadyTableExact
  DefunctExact
  TimeoutFindsSuspended
  NoMissedTimeout
  IInv
PROPERTIES
  LifeCycle
VIEW View
