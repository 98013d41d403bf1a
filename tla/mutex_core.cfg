SPECIFICATION MutexSpec
CONSTANTS
  main = main
  idle = idle
  w1 = w1
  w2 = w2
  NULL = NULL
  Main = main
  Idle = idle
  Thread <- MCThread
  MaxPrio = 4
  InitPrio <- MCInitPrio
  InitTick <- MCInitTick
  WaitList = {"m1"}
  Static = {}
  Ticks = {1, 2}
  MaxNest = 1
  Calls = {"sleep", "yield"}
  MutexFlag = "PRIO"
  MaxHold = 2
  Times <- MCTimes
  Services = {"delete"}
INVARIANTS MutexConsistent Inheritance OwnPriority
PROPERTIES ImplementsLock
