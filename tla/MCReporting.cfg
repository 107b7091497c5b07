CONSTANTS
  Period = 4
  MaxCrashes = 2
SPECIFICATION Spec
INVARIANT
  SentIsRemembered
PROPERTIES
  NoEarlyReport
  ReportsGoOn
