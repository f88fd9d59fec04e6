CONSTANTS
  t1 = t1
  s1 = s1
  Targets = {t1}
  Sources = {s1}
  Messages = {"a1"}
  MaskedMessage <- MCMaskedMessage
  ReportedStatus = {"HEALTHY", "FAILURE"}
  ProbeHistoryLen = 2
  IncidentHistoryLen = 2
  MaxDelay = 0
  MaxTime = 4
  MaxIncidents = 3
  FileOf <- MCFilePerDay
  RestoreRecords = 3
  MaxLog = 3
SPECIFICATION RestartSpec
PROPERTIES
  RestoresStatus
