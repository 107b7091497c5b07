CONSTANTS
  c1 = c1
  c2 = c2
  c3 = c3
  t1 = t1
  t2 = t2
  t3 = t3
  boss = boss
  peer = peer
  Calls = {c1, c2, c3}
  Tasks = {t1, t2}
  TaskOf <- MCFollowUp
  MetadataOf <- MCMetadataOf
  Subtasks = {s1}
  Agents = {boss, peer, self}
  Self = self
  Superior = boss
  NoAgent = NoAgent
  NoTask = NoTask
  NoCall = NoCall
  NoSubtask = NoSubtask
  MaxBacklog = 2
  DailyMax = 1
  WeeklyMax = 2
  PerTaskMax = 1
  HasObjectives = TRUE
  InitiativeMax = 1
  MaxTicks = 1
  MayFail = TRUE
  MayCancel = {c1, c2}
SPECIFICATION Spec
INVARIANTS
  NoOrphanedCall
  MessagesHaveFutures
  DelegationsAccounted
PROPERTY
  EveryCallReturns
