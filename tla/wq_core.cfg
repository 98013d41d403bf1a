SPECIFICATION WqSpec
CONSTANTS
  main = main
  idle = idle
  w1 = w1
  wq = wq
  Main = main
  Idle = idle
  Thread <- MCThread
  MaxPrio = 4
  InitPrio <- MCInitPrio
  InitTick <- MCInitTick
  WaitList = {"wqueue"}
  Static = {}
  Ticks = {1}
  MaxNest = 1
  Calls = {"sleep", "control"}
  Worker = wq
  Work = {a, b}
  NULL = NULL
  WorkCalls = {"submit", "irq_submit", "cancel", "cancel_sync"}
INVARIANTS ReadyTable WorkConsistent SyncWaits
