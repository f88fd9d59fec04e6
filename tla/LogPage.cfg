SPECIFICATION MCSpec
CONSTANTS
  Quantity <- MCQuantity
  TextOf <- MCTextOf
  Texts <- MCTexts
  Punctuation <- MCPunctuation
  Keywords <- MCKeywords
  Spelled <- MCSpelled
  MaxWords = 5
  Records <- MCRecords
  DefaultPeriod = 2
  Now = 7
  Intervals <- MCIntervals
  FileOf <- MCFileOf
  Since = 2
  Until = 4
  Clearance = 2
  MaxDelay = 2
  OffsetValues = {0, 1}
  LimitValues = {0, 1}
  MaxTime = 7
  MaxLines = 3
INVARIANTS ParsesByGrammar RangeCovers KeywordsMatch
  FindsAll PageIsFull MergedByTime
