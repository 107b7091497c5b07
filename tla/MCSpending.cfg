CONSTANTS
  DailyMax = 5
  WeeklyMax = 8
  PerTaskMax = 2
  HasObjectives = TRUE
  InitiativeMax = 2
SPECIFICATION Spec
INVARIANTS
  TypeOK
  TaskSpendWithinLimits
  StatusMatchesGuard
  VacationAnnounced
PROPERTIES
  CallsNeedBudget
  VacationLeftByReset
  VacationEnds
