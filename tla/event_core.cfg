SPECIFICATION EventSpecification
CONSTANTS
  main = main
  idle = idle
  w1 = w1
  w2 = w2
  Main = main
  Idle = idle
  Thread <- MCThread
  MaxPrio = 3
  InitPrio <- MCInitPrio
  InitTick <- MCInitTick
  WaitList = {"event"}
  Static = {}
  Ticks = {1}
  MaxNest = 1
  Calls = {}
  Bit = {0, 1}
  Option <- MCOption
  Request <- MCRequest
  Times <- MCTimes
  EventFlag = "FIFO"
  Services = {"send", "irq_send", "recv", "reset", "delete"}
INVARIANTS NoMissedEvent
PROPERTIES ImplementsEvent
