\* Two recorders, a build of four events, two connects, one fault.
CONSTANTS
  Recorders = {r1, r2}
  N = 4
  Kind <- BuildKind
  Requires <- BuildRequires
  JoinsOn <- BuildJoinsOn
  SaveTargets = TRUE
  MaxConnects = 2
  MaxFaults = 1
SYMMETRY RecorderSymmetry
SPECIFICATION Spec
INVARIANTS
  TypeOK
  ExactlyOnce
  AckedIsRecorded
  JoinsAreComplete
PROPERTIES
  HandledIsNeverForgotten
  NothingAfterCompletion
  ImplementsLog
CHECK_DEADLOCK FALSE
