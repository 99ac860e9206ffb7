\* Two cleaners and one snippet.
CONSTANTS
  Cleaners = {c1, c2}
  N = 1
  Blank = {}
  ChunkSize = 1
  Pages = 1
  MaxFaults = 0
SPECIFICATION Spec
PROPERTIES
  AlreadyNormalizedIsNoError
CHECK_DEADLOCK FALSE
