SPECIFICATION SemFairSpec
CONSTANTS
  main = main
  idle = idle
  w1 = w1
  w2 = w2
  Main = main
  Idle = idle
  Thread <- MCThread
  MaxPrio = 3
  InitPrio <- MCInitPrio
  InitTick <- MCInitTick
  WaitList = {"sem"}
  Static = {}
  Ticks = {1}
  MaxNest = 1
  Calls = {"sleep"}
  SemFlags = {"FIFO", "PRIO"}
  InitValue = 0
  MaxValue = 1
  Times <- MCTimes
  Services = {"take", "release", "irq_release", "reset", "delete"}
INVARIANTS WaitLists NoWaiterWhileAvailable PrioOrder NobodyLeft
PROPERTIES NoOvertaking ImplementsSemaphore TimedWaitsEnd RoundRobin
