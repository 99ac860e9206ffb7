\* Two cleaners, a log of four snippets on two pages, three of them with text, of
\* which two fill a chunk, two faults.  No symmetry: a property is a liveness property.
CONSTANTS
  Cleaners = {c1, c2}
  N = 4
  Blank = {2}
  ChunkSize = 2
  Pages = 2
  MaxFaults = 2
SPECIFICATION FairSpec
INVARIANTS
  TypeOK
  ChunksAreTheWholeLog
  LogIsKept
  EndedAtIsRight
PROPERTIES
  SnippetsAreRemoved
CHECK_DEADLOCK FALSE
