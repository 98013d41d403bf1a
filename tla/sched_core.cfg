SPECIFICATION Spec
CONSTANTS
  main = main
  idle = idle
  w1 = w1
  w2 = w2
  Main = main
  Idle = idle
  Thread <- MCThread
  MaxPrio = 3
  InitPrio <- MCInitPrio
  InitTick <- MCInitTick
  WaitList = {}
  Static = {w1}
  Ticks = {1}
  MaxNest = 1
  Calls = {"control", "yield", "sleep", "startup", "exit", "critical", "create"}
INVARIANTS TypeOK ReadyTable TimeoutAssert SleepEnds
PROPERTIES FifoWithinPriority LockHolds
