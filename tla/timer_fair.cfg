SPECIFICATION FairSpec
CONSTANTS
  Timer = {t1, t2}
  TickRange = 12
  InitTicks = {1, 3}
  MaxLate = 1
  Callbacks = {"none", "stop", "start"}
PROPERTIES TimersExpire
