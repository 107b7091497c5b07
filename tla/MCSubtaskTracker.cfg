CONSTANTS
  Parents = {p1, p2}
  Subtasks = {s1, s2, s3, s4}
  NoParent = NoParent
SPECIFICATION TrackerSpec
INVARIANTS
  MapsAgree
  WaitsForPending
PROPERTY
  ImplementsFanOut
