CONSTANTS
  t1 = t1
  t2 = t2
  s1 = s1
  Targets = {t1, t2}
  Sources = {s1}
  Messages = {"a1"}
  MaskedMessage <- MCMaskedMessage
  ReportedStatus = {"HEALTHY", "FAILURE"}
  ProbeHistoryLen = 2
  IncidentHistoryLen = 1
  MaxDelay = 2
  MaxTime = 3
  MaxIncidents = 3
SYMMETRY Symmetry
SPECIFICATION Spec
INVARIANTS
  TypeOK
  HistorySorted
  OpenIffCurrent
PROPERTIES
  ResolvedStaysResolved
