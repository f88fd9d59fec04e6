SPECIFICATION MCSpec
CONSTANTS
  Parts = {"loader", "tracker", "pinger", "probe", "plugin"}
  Sources = {2, 4}
  Plain = {1, 3, 5, 6}
  Unsupported = {5, 6}
  Panicking = {6}
  Normal <- MCNormal
  Root = 2
  MaxLines = 2
  MaxDepth = 4
  Targets = {t1, t2, t3}
  Runs = {r1}
  Users = {u1, u2, u3}
  MaxStarts = 2
  MaxPrinted = 3
INVARIANTS
  Complete SettledOnList RunsWhileUsed HealthyIsTrue StopIsNoIncident AllClosed FailureIsTold
PROPERTIES
  LoadTerminates ListedNeverDeactivated EndsInTime
