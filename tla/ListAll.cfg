CONSTANTS
  Paths = {"day1", "day2"}
  DiskFails = TRUE
  MaxRecords = 4
  Years <- MCYears
  DaysOf <- MCDaysOf
  HoursOf = 2
  MinutesOf = 2
  RecordTimes <- MCRecordTimes
  MaxFragments = 3
  MaxFiles = 3
  Since = 3
  Clearance = 1
  MaxDelay = 1
  Accuracies = {0, 2}
  FirstBuffer = 2
  Sizes = {0, 2, 5}
  MaxTime = 3
  MaxLines = 4
SPECIFICATION MCSpec
INVARIANT
  ListAllSortedAlways
