\* One recorder, one event and one fault.
CONSTANTS
  Recorders = {r1}
  N = 1
  Kind <- OneKind
  Requires <- NoReferences
  JoinsOn <- NoReferences
  SaveTargets = TRUE
  MaxConnects = 1
  MaxFaults = 1
SPECIFICATION Spec
PROPERTIES
  RetriesUntilTimeout
CHECK_DEADLOCK FALSE
