CONSTANTS
  c1 = c1
  c2 = c2
  c3 = c3
  t1 = t1
  t2 = t2
  t3 = t3
  boss = boss
  peer = peer
  Calls = {c1, c2}
  Tasks = {t1, t2, t3}
  TaskOf <- MCTaskOf
  MetadataOf <- MCMetadataOf
  Subtasks = {s1}
  Agents = {boss, peer, self}
  Self = self
  Superior = boss
  NoAgent = NoAgent
  NoTask = NoTask
  NoCall = NoCall
  NoSubtask = NoSubtask
  MaxBacklog = 2
  DailyMax = 2
  WeeklyMax = 4
  PerTaskMax = 1
  HasObjectives = FALSE
  InitiativeMax = 0
  MaxTicks = 0
  MayFail = FALSE
  MayCancel = {}
SPECIFICATION Spec
PROPERTY
  SynthesisProduced
