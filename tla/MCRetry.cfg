\* Two recorders whose transactions may deadlock, an event that cannot be saved,
\* one fault.  No symmetry: the property is a liveness property.
CONSTANTS
  Recorders = {r1, r2}
  N = 3
  Kind <- PoisonKind
  Requires <- PoisonRequires
  JoinsOn <- NoReferences
  SaveTargets = TRUE
  MaxConnects = 2
  MaxFaults = 1
SPECIFICATION FairSpec
PROPERTIES
  SaveBatchReturns
CHECK_DEADLOCK FALSE
