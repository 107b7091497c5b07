CONSTANTS
  Agents = {a1, a2}
  Lossy = {a1}
  Interval = 3
  Timeout = 1
  MayRestart = TRUE
SPECIFICATION Spec
INVARIANTS
  TypeOK
  ListingFresh
  OneLossTolerated
  ReachableStaysListed
PROPERTIES
  RunningGetsListed
  GoneIsNoticed
