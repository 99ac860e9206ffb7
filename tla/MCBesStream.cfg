\* Five messages, of which the last is malformed: the fifth, if it is sent, ends
\* the stream with an error.
CONSTANTS
  N = 5
  Malformed = {5}
  NoArray = none
  Arrays = {a1, a2, a3, a4}
SPECIFICATION FairSpec
INVARIANTS
  TypeOK
  NothingIsLost
  OkMeansAll
PROPERTIES
  EventsAreNotStuck
  GoroutinesEnd
CHECK_DEADLOCK FALSE
