CONSTANTS
  t1 = t1
  s1 = s1
  Targets = {t1}
  Sources = {s1}
  Messages = {"a1", "a2", "b"}
  MaskedMessage <- MCMaskedMessage
  ReportedStatus = {"HEALTHY", "FAILURE", "ABORTED"}
  ProbeHistoryLen = 2
  IncidentHistoryLen = 2
  MaxDelay = 0
  MaxTime = 3
  MaxIncidents = 3
SPECIFICATION Spec
INVARIANTS
  CurrentMirrorsLatest
  HistoryBounded
  IncidentsDisjoint
PROPERTIES
  AlertsAreStatusChanges
