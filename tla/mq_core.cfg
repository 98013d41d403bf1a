SPECIFICATION MqSpec
CONSTANTS
  main = main
  idle = idle
  w1 = w1
  w2 = w2
  Main = main
  Idle = idle
  Thread <- MCThread
  MaxPrio = 3
  InitPrio <- MCInitPrio
  InitTick <- MCInitTick
  WaitList = {"mq"}
  Static = {}
  Ticks = {1}
  MaxNest = 1
  Calls = {}
  Node = {n1, n2, n3}
  NULL = NULL
  Message = {a}
  UrgentMessage = {u}
  IrqMessage = {b}
  Nothing = Nothing
  MqFlag = "FIFO"
  Times <- MCTimes
  Services = {"send", "recv", "reset", "delete"}
SYMMETRY MCSymmetry
INVARIANTS QueueConsistent NoLostWakeup
PROPERTIES ImplementsQueue
