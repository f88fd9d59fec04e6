CONSTANTS
  j1 = j1
  j2 = j2
  Jobs = {j1, j2}
  Alerters = {a1}
  AlertSchemes = {"probe", "alert-sub"}
  QueueLen = 1
  Setups <- MCSetups
CHECK_DEADLOCK FALSE
SPECIFICATION LifeSpec
PROPERTIES
  EveryReportReturns
