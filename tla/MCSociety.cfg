CONSTANTS
  boss = boss
  dev = dev
  Nobody = Nobody
  Agents = {boss, dev}
  Superior <- DevReportsToBoss
  Ambitious = {dev}
  MaxBacklog = 1
  MaxRequests = 3
  MaxCrashes = 1
SPECIFICATION Spec
INVARIANTS
  TypeOK
  NoLostRequest
  NoAnswerFromOneself
  TrackedIsOver
PROPERTIES
  EveryRequestAnswered
  AgentsComeUp
CHECK_DEADLOCK FALSE
