SPECIFICATION Spec
CONSTANTS
  main = main
  idle = idle
  w1 = w1
  w2 = w2
  Main = main
  Idle = idle
  Thread <- MCThread
  MaxPrio = 3
  InitPrio <- MCInitPrio
  InitTick <- MCInitTickMixed
  WaitList = {}
  Static = {w1}
  Ticks = {1, 2}
  MaxNest = 1
  Calls = {"yield", "startup", "create", "suspend", "resume", "critical", "delete"}
INVARIANTS ReadyTable HighestRuns ClosedNotReady DeadUntilFreed
