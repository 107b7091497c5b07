CONSTANTS
  a1 = a1
  Agents = {a1, a2}
  Lock = Lock
  Shared = Shared
  LockTime = 1
  QuietRejections = TRUE
  MaxCommits = 5
  Free = 3
  MaxTime = 1
SPECIFICATION MCSpec
INVARIANTS
  TypeOK
  LockHistoryHonest
  ConflictsOnlyOnSharedPaths
PROPERTIES
  WritesEnd
  ImplementsSharedLog
CHECK_DEADLOCK FALSE
