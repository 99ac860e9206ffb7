\* Logs of up to seven bytes, chunks of one to three of them.  Two of them are
\* served to one reader, while another request asks for the instance names.
CONSTANTS
  MaxLen = 7
  ChunkSizes = {1, 2, 3}
  ServedLogs <- SomeLogs
  ServedSizes = {1, 2}
  Callers = {reader, page}
  Readers = {reader}
  Wanted <- SomeRanges
  Names = {ours}
  Ours = ours
SPECIFICATION FairSpec
INVARIANTS
  NormalizedIsTheScreen
  RangesAreRight
  AnswersAreRight
PROPERTIES
  RequestsEnd
CHECK_DEADLOCK FALSE
