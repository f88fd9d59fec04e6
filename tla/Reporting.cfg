CONSTANTS
  j1 = j1
  j2 = j2
  Jobs = {j1, j2}
  Alerters = {a1}
  AlertSchemes = {"probe", "alert"}
  QueueLen = 2
  Setups <- MCSetups
SPECIFICATION LifeSpec
INVARIANTS
  NothingLostAtClose
  NoSendOnClosed
  OrderedPerJob
  AnnouncementsLogged
PROPERTIES
  EveryReportReturns
  Terminates
