\* Three streams that are opened four times in all, two invocations, one user, one
\* build.
CONSTANTS
  s1 = s1
  s2 = s2
  s3 = s3
  a = a
  b = b
  u = u
  n = n
  k = k
  NoUser = NoUser
  NoBuild = NoBuild
  None = None
  MaxConnects = 4
  Streams = {s1, s2, s3}
  Id <- IdOfStream
  Instance <- InstanceOfStream
  User <- UserOfStream
  Build <- BuildOfStream
SPECIFICATION FairSpec
INVARIANTS
  TypeOK
  JoinedIsOwn
  SavedIsLinked
  OnlySharersDeadlock
PROPERTIES
  OnlyTheEmptyStay
CHECK_DEADLOCK FALSE
