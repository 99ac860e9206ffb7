\* Test results and an action with the same two files, and another test result.
CONSTANTS
  tests = tests
  action = action
  other = other
  Recorders = {tests, action, other}
  FilesOf <- FilesOfBuild
  Batched = {tests, other}
SPECIFICATION FairSpec
INVARIANTS
  ActionsKeepTheirFiles
PROPERTIES
  SavedWithAllOutputs
  SaveGetsThrough
CHECK_DEADLOCK FALSE
