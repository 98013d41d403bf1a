SPECIFICATION MpSpec
CONSTANTS
  main = main
  idle = idle
  w1 = w1
  w2 = w2
  Main = main
  Idle = idle
  Thread <- MCThread
  MaxPrio = 3
  InitPrio <- MCInitPrio
  InitTick <- MCInitTick
  WaitList = {"mp"}
  Static = {}
  Ticks = {1}
  MaxNest = 1
  Calls = {"sleep"}
  Block = {b1, b2}
  MaxSuspended = 4
  Times <- MCTimed
  Services = {}
INVARIANT FreeFindsThread
