SPECIFICATION MbSpec
CONSTANTS
  main = main
  idle = idle
  w1 = w1
  w2 = w2
  Main = main
  Idle = idle
  Thread <- MCThread
  MaxPrio = 3
  InitPrio <- MCInitPrio
  InitTick <- MCInitTick
  WaitList = {"mb_recv", "mb_send"}
  Static = {}
  Ticks = {1}
  MaxNest = 1
  Calls = {}
  Mail = {a}
  IrqMail = {b}
  NoMail = NoMail
  Size = 2
  MbFlag = "FIFO"
  Times <- MCTimes
  Services = {"send", "irq_send", "recv", "reset", "delete"}
INVARIANTS RingConsistent NoLostWakeup
PROPERTIES ImplementsMailbox
