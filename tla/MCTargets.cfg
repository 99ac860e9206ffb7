\* Two invocations, three labels.
CONSTANTS
  i1 = i1
  i2 = i2
  Invocations = {i1, i2}
  NLabels = 3
  MaxId = 9
  Kind <- KindOfBuild
  Tests = {2}
  Batches = {{1, 2}, {3}}
SPECIFICATION FairSpec
INVARIANTS
  TypeOK
  NoCircularWait
  KindIsRight
PROPERTIES
  SavedWithItsTarget
  ConfiguredGetsThrough
  TargetsGoAway
CHECK_DEADLOCK FALSE
