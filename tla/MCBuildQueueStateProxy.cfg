\* Five operations, of which the user may see four and kill three of these, fetched in
\* pages of two.
CONSTANTS
  NumOperations = 5
  Readable = {1, 3, 4, 5}
  Killable = {2, 3, 4, 5}
  listOperationsPageSize = 2
  PageSizes = {0, 2}
SPECIFICATION FairProxySpec
INVARIANTS
  PagesAreRight
PROPERTIES
  ListReturns
