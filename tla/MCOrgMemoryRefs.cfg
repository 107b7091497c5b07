CONSTANTS
  a1 = a1
  Agents = {a1, a2}
  Lock = Lock
  Shared = Shared
  LockTime = 1
  QuietRejections = FALSE
  MaxCommits = 2
  Free = 2
  MaxTime = 0
SPECIFICATION ReachableSpec
PROPERTY
  RefsResolve
CHECK_DEADLOCK FALSE
