SPECIFICATION Spec
CONSTANTS
  Timer = {t1, t2, t3}
  TickRange = 10
  InitTicks = {1, 2}
  MaxLate = 1
  Callbacks = {"none", "stop"}
SYMMETRY Symmetric
INVARIANTS Sorted FlagTellsLinked
PROPERTIES Punctual EarlyFirst
