SPECIFICATION MCSpec
CONSTANTS
  Parts = {"loader"}
  Sources = {2}
  Plain = {1, 3}
  Unsupported = {}
  Panicking = {}
  Normal <- MCNormal
  Root = 2
  MaxLines = 3
  MaxDepth = 4
  Targets = {t1}
  Runs = {r1}
  Users = {u1}
  MaxStarts = 2
  MaxPrinted = 3
INVARIANTS
  LoadedOnce
