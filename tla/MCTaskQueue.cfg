CONSTANTS
  TaskIds = {t1, t2}
  Agents = {boss, peer}
  NoAgent = NoAgent
  Superior = boss
  Consumers = {c1, c2, c3}
  MaxBacklog = 3
SPECIFICATION Spec
INVARIANTS
  TypeOK
  NoLostWakeup
PROPERTY
  ImplementsPriorityInbox
