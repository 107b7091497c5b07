CONSTANTS
  boss = boss
  dev = dev
  Nobody = Nobody
  Agents = {boss, dev}
  Superior <- DevReportsToBoss
  Ambitious = {dev}
  MaxBacklog = 1
  MaxRequests = 3
  MaxCrashes = 0
SPECIFICATION Spec
INVARIANT
  RefusedNotTracked
CHECK_DEADLOCK FALSE
