\* Tables of up to six pages, up to four ticks an hour, four rows in batches of two
\* to three, and one row that is always ready: fewer than the smallest limit.
CONSTANTS
  MaxPages = 6
  MaxRuns = 4
  minBatchSize = 2
  maxBatchSize = 3
  Rows = 4
  Sticky = 1
  MaxFaults = 1
  MaxResizes = 1
SPECIFICATION FairSpec
INVARIANTS
  EveryPageInTime
PROPERTIES
  RowsAreCleaned
CHECK_DEADLOCK FALSE
