--------------------------- MODULE AgentNodeProofs ---------------------------
(***************************************************************************)
(* Theorems about AgentNode, for any number of messages, tasks, subtasks   *)
(* and agents, any limits and any backlog.                                 *)
(*                                                                         *)
(* BaseInv is about the components: their types, the tracker's invariant   *)
(* (its preservation is taken from SubtaskTrackerProofs), and that only    *)
(* what was sent is tracked.  CallInv ties the four records of a message   *)
(* together: where its execute stands, the future stored for its task, its *)
(* entry in the queue and the worker's job.  It needs that a task has one  *)
(* follow-up at most (OneFollowUp), for a second would replace the future  *)
(* of the first.  What is told to senders (WhatIsTold) follows when        *)
(* nothing is cancelled.  Last, the agent's queue and tracker move as      *)
(* their modules say and so keep their promises, and so does its budget.   *)
(***************************************************************************)
EXTENDS AgentNode, SequenceTheorems, FiniteSetTheorems, TLAPS

TrackerFacts == INSTANCE SubtaskTrackerProofs WITH Parents <- Tasks, NoParent <- NoTask
QueueFacts == INSTANCE TaskQueueProofs WITH TaskIds <- EntryIds, Consumers <- {Worker}
-----------------------------------------------------------------------------
(* What the assumptions say, one fact at a time.                           *)
LEMMA Settings ==
  /\ \A c \in Calls : TaskOf[c] \in Tasks /\ MetadataOf[c] \in Queue!Metadata
  /\ MaxBacklog \in Nat /\ MaxBacklog > 0
  /\ Superior \in Agents \cup {NoAgent} /\ NoAgent \notin Agents
  /\ DailyMax \in Nat /\ WeeklyMax \in Nat /\ PerTaskMax \in Nat
  /\ InitiativeMax \in Nat /\ MaxTicks \in Nat
BY CallsAssumption, SettingsAssumption

(* Where the entry at j of the queue was before the one at i was popped.   *)
Before(i, j) == IF j < i THEN j ELSE j + 1

LEMMA QueueSettings ==
  /\ MaxBacklog \in Nat \ {0}
  /\ QueueFacts!IsFiniteSet({Worker})
  /\ Superior \in Agents \cup {NoAgent} /\ NoAgent \notin Agents
BY SettingsAssumption, FS_Singleton DEF IsFiniteSet, QueueFacts!IsFiniteSet

LEMMA RemoveAtEntries ==
  ASSUME NEW S, NEW s \in Seq(S), NEW i \in 1..Len(s)
  PROVE  /\ Queue!RemoveAt(s, i) \in Seq(S)
         /\ Len(Queue!RemoveAt(s, i)) = Len(s) - 1
         /\ \A j \in 1..(Len(s) - 1) : Queue!RemoveAt(s, i)[j] = s[Before(i, j)]
<1>1. Queue!RemoveAt(s, i) = QueueFacts!RemoveAt(s, i)
  BY DEF Queue!RemoveAt, QueueFacts!RemoveAt
<1>2. /\ QueueFacts!RemoveAt(s, i) \in Seq(S)
      /\ Len(QueueFacts!RemoveAt(s, i)) = Len(s) - 1
      /\ \A j \in 1..(Len(s) - 1) :
           QueueFacts!RemoveAt(s, i)[j] = IF j < i THEN s[j] ELSE s[j + 1]
  BY QueueSettings, QueueFacts!RemoveAtProperties DEF QueueFacts!RemoveAtProperties
<1> QED  BY <1>1, <1>2 DEF Before
-----------------------------------------------------------------------------
(* What enqueue and dequeue do to the entries.                             *)
LEMMA Enqueued ==
  ASSUME Queue!TypeOK, NEW id \in EntryIds, NEW md \in Queue!Metadata, Queue!Enqueue(id, md)
  PROVE  /\ Queue!TypeOK'
         /\ DOMAIN queue' = DOMAIN queue \cup {Len(queue) + 1}
         /\ Len(queue) + 1 \notin DOMAIN queue
         /\ queue'[Len(queue) + 1].task_id = id
         /\ \A j \in DOMAIN queue : queue'[j] = queue[j]
<1> DEFINE e == [task_id |-> id, metadata |-> md, priority |-> Queue!ClassifyPriority(md)]
<1>1. e \in Queue!QueuedTask
  BY DEF Queue!QueuedTask, Queue!ClassifyPriority, Queue!TaskPriority, Queue!ESCALATION,
         Queue!FROM_SUPERIOR, Queue!CONSULTATION, Queue!BROADCAST
<1>2. queue' = Append(queue, e) /\ Len(queue) < MaxBacklog
  BY DEF Queue!Enqueue, Queue!SizeAllowed
<1>3. e.task_id = id  OBVIOUS
<1> HIDE DEF e
<1>4. /\ queue' \in Seq(Queue!QueuedTask) /\ Len(queue') = Len(queue) + 1
      /\ \A j \in 1..Len(queue) : queue'[j] = queue[j]
      /\ queue'[Len(queue) + 1] = e
  BY <1>1, <1>2, AppendProperties DEF Queue!TypeOK
<1>5. DOMAIN queue' = 1..Len(queue') /\ DOMAIN queue = 1..Len(queue) /\ Len(queue) \in Nat
  BY <1>4, LenProperties DEF Queue!TypeOK
<1>6. consumer' \in [{Worker} -> Queue!ConsumerStates]
  BY DEF Queue!Enqueue, Queue!Notify, Queue!TypeOK, Queue!ConsumerStates
<1> QED  BY <1>2, <1>3, <1>4, <1>5, <1>6, Settings DEF Queue!TypeOK

LEMMA Popped ==
  ASSUME Queue!TypeOK, NEW i \in DOMAIN queue, Queue!Pop(Worker, i)
  PROVE  /\ Queue!TypeOK'
         /\ \A j \in DOMAIN queue' :
              Before(i, j) \in DOMAIN queue \ {i} /\ queue'[j] = queue[Before(i, j)]
         /\ \A j, k \in DOMAIN queue' : Before(i, j) = Before(i, k) => j = k
         /\ \A k \in DOMAIN queue \ {i} : \E j \in DOMAIN queue' : Before(i, j) = k
<1>1. queue' = Queue!RemoveAt(queue, i) /\ consumer' \in [{Worker} -> Queue!ConsumerStates]
  BY DEF Queue!Pop, Queue!TypeOK, Queue!ConsumerStates
<1>2. queue \in Seq(Queue!QueuedTask) /\ DOMAIN queue = 1..Len(queue) /\ Len(queue) \in Nat
  BY LenProperties DEF Queue!TypeOK
<1>3. /\ queue' \in Seq(Queue!QueuedTask) /\ Len(queue') = Len(queue) - 1
      /\ \A j \in 1..(Len(queue) - 1) : queue'[j] = queue[Before(i, j)]
  BY <1>1, <1>2, RemoveAtEntries
<1>4. DOMAIN queue' = 1..(Len(queue) - 1)
  BY <1>3, LenProperties
<1>5. Queue!TypeOK'
  BY <1>1, <1>2, <1>3, Settings DEF Queue!TypeOK
<1>6. ASSUME NEW j \in DOMAIN queue' PROVE Before(i, j) \in DOMAIN queue \ {i}
  BY <1>2, <1>4 DEF Before
<1>7. \A j, k \in DOMAIN queue' : Before(i, j) = Before(i, k) => j = k
  BY <1>2, <1>4 DEF Before
<1>8. ASSUME NEW k \in DOMAIN queue \ {i} PROVE \E j \in DOMAIN queue' : Before(i, j) = k
  <2>1. CASE k < i  BY <1>2, <1>4, <2>1 DEF Before
  <2>2. CASE k > i
    <3>1. k - 1 \in DOMAIN queue' /\ Before(i, k - 1) = k  BY <1>2, <1>4, <2>2 DEF Before
    <3> QED  BY <3>1
  <2> QED  BY <1>2, <2>1, <2>2
<1> QED  BY <1>3, <1>4, <1>5, <1>6, <1>7, <1>8
LEMMA EntryIdOf ==
  ASSUME TypeOK, NEW i \in DOMAIN queue
  PROVE  /\ queue[i].task_id \in EntryIds
         /\ PendingCall(queue[i].task_id) \in Calls \cup {NoCall}
         /\ queue[i].task_id[1] = "task" => \E t \in Tasks : queue[i].task_id = TaskEntry(t)
<1>1. queue[i] \in Queue!QueuedTask
  BY ElementOfSeq, LenProperties DEF TypeOK, Queue!TypeOK
<1>2. queue[i].task_id \in EntryIds
  BY <1>1 DEF Queue!QueuedTask
<1> QED  BY <1>2 DEF EntryIds, InitiativeEntry, TaskEntry, PendingCall, TypeOK

LEMMA Spent ==
  ASSUME Budget!BudgetTypeOK
  PROVE  /\ \A cost \in Nat : Budget!RecordCost(cost) => Budget!BudgetTypeOK'
         /\ Budget!ResetDaily \/ Budget!ResetWeekly => Budget!BudgetTypeOK'
         /\ Budget!TaskCap \in Nat
BY Settings DEF Budget!BudgetTypeOK, Budget!RecordCost, Budget!Account, Budget!EvaluateStatus,
     Budget!BudgetStatus, Budget!ResetDaily, Budget!ResetWeekly, Budget!TaskCap,
     Budget!SmallerOf, Budget!Remaining, Budget!Left
-----------------------------------------------------------------------------
(* The tracker inside the agent is the one of SubtaskTrackerProofs.        *)
Recorded == {s \in Subtasks : subtask_to_parent[s] # NoTask} \cup delivered

LEMMA TrackerTypes == TrackerFacts!TrackerInv => Tracker!TrackerTypeOK
BY DEF TrackerFacts!TrackerInv, TrackerFacts!TrackerTypeOK, Tracker!TrackerTypeOK,
       TrackerFacts!SubtaskInfos, Tracker!SubtaskInfos, TrackerFacts!Statuses,
       Tracker!Statuses, TrackerFacts!Outcomes, Tracker!Outcomes

LEMMA TrackerInit == Tracker!TrackerInit => TrackerFacts!TrackerInv
<1>1. Tracker!TrackerInit => TrackerFacts!TrackerInit
  BY DEF Tracker!TrackerInit, TrackerFacts!TrackerInit, Tracker!NoInfos, TrackerFacts!NoInfos
<1> QED  BY <1>1, TrackerFacts!TrackerInvInit, CallsAssumption DEF TrackerFacts!TrackerInvInit

LEMMA Registered ==
  ASSUME TrackerFacts!TrackerInv, NEW t \in Tasks, NEW s \in Subtasks, s \notin Recorded,
         Tracker!RegisterSubtask(t, s)
  PROVE  TrackerFacts!TrackerInv' /\ Recorded' = Recorded \cup {s}
<1>1. TrackerFacts!RegisterSubtask(t, s)
  BY DEF Tracker!RegisterSubtask, TrackerFacts!RegisterSubtask
<1>2. TrackerFacts!Fresh(s)
  BY DEF TrackerFacts!Fresh, Recorded
<1>3. TrackerFacts!TrackerInv'
  BY <1>1, <1>2, TrackerFacts!RegisterPreserves, CallsAssumption DEF TrackerFacts!RegisterPreserves
<1>4. Recorded' = Recorded \cup {s}
  BY CallsAssumption DEF Tracker!RegisterSubtask, Recorded, TrackerFacts!TrackerInv,
                         TrackerFacts!TrackerTypeOK
<1> QED  BY <1>3, <1>4

LEMMA CalledBack ==
  ASSUME TrackerFacts!TrackerInv, NEW s \in Subtasks, NEW outcome \in {"completed", "failed"},
         Tracker!Ignore(s) \/ Tracker!Note(s, outcome) \/ Tracker!Collect(s, outcome)
  PROVE  TrackerFacts!TrackerInv' /\ Recorded' = Recorded
<1> USE DEF Tracker!InfosOf, TrackerFacts!InfosOf, Tracker!Marked, TrackerFacts!Marked,
            Tracker!Ready, TrackerFacts!Ready, Tracker!Outcomes, TrackerFacts!Outcomes
<1>1. CASE Tracker!Ignore(s)
  BY <1>1 DEF Tracker!Ignore, Tracker!trackerVars, TrackerFacts!TrackerInv,
       TrackerFacts!TrackerTypeOK,
       TrackerFacts!MapsAgree, TrackerFacts!WaitsForPending, TrackerFacts!DeliveredGone, Recorded
<1>2. CASE Tracker!Note(s, outcome)
  <2>1. TrackerFacts!Note(s, outcome)  BY <1>2 DEF Tracker!Note, TrackerFacts!Note
  <2>2. TrackerFacts!TrackerInv'
    BY <2>1, TrackerFacts!NotePreserves, CallsAssumption DEF TrackerFacts!NotePreserves
  <2> QED  BY <1>2, <2>2 DEF Tracker!Note, Recorded
<1>3. CASE Tracker!Collect(s, outcome)
  <2>1. TrackerFacts!Collect(s, outcome)
    BY <1>3 DEF Tracker!Collect, TrackerFacts!Collect, Tracker!Cleanup, TrackerFacts!Cleanup,
                Tracker!NoInfos, TrackerFacts!NoInfos
  <2>2. TrackerFacts!TrackerInv'
    BY <2>1, TrackerFacts!CollectPreserves, CallsAssumption DEF TrackerFacts!CollectPreserves
  <2>3. PICK D : D = DOMAIN parent_to_subtasks[subtask_to_parent[s]]  OBVIOUS
  <2>4. /\ delivered' = delivered \cup D
        /\ subtask_to_parent' =
             [r \in Subtasks |-> IF r \in D THEN NoTask ELSE subtask_to_parent[r]]
    BY <1>3, <2>3 DEF Tracker!Collect, Tracker!Cleanup
  <2>5. D \in SUBSET Subtasks /\ \A r \in D : subtask_to_parent[r] # NoTask
    <3>1. subtask_to_parent[s] # NoTask  BY <1>3 DEF Tracker!Collect
    <3>2. /\ subtask_to_parent[s] \in Tasks
          /\ DOMAIN TrackerFacts!InfosOf(s) \in SUBSET Subtasks
          /\ \A r \in Subtasks : r \in DOMAIN TrackerFacts!InfosOf(s)
                                 <=> subtask_to_parent[r] = subtask_to_parent[s]
      BY <3>1, TrackerFacts!InfosOfTracked, CallsAssumption DEF TrackerFacts!InfosOfTracked
    <3> QED  BY <2>3, <3>1, <3>2
  <2>6. Recorded' = Recorded  BY <2>4, <2>5 DEF Recorded
  <2> QED  BY <2>2, <2>6
<1> QED  BY <1>1, <1>2, <1>3
-----------------------------------------------------------------------------
(* The subtask that is being handed over has been sent and is not tracked, *)
(* and only what was sent is.                                              *)
SendInv ==
  /\ \A s \in Recorded : sentFor[s] # NoCall
  /\ wpc = "send" => sentFor[sending] = job /\ sending \notin Recorded

BaseInv == TypeOK /\ TrackerFacts!TrackerInv /\ SendInv

LEMMA BaseInit == Init => BaseInv
<1> SUFFICES ASSUME Init PROVE BaseInv
  OBVIOUS
<1>1. TrackerFacts!TrackerInv  BY TrackerInit DEF Init
<1>2. Queue!TypeOK
  BY Settings, EmptySeq DEF Init, Queue!Init, Queue!TypeOK, Queue!ConsumerStates
<1>3. Budget!BudgetTypeOK
  BY DEF Init, Budget!BudgetInit, Budget!BudgetTypeOK, Budget!BudgetStatus
<1>4. 0 \in 0..MaxTicks  BY Settings
<1>5. TypeOK  BY <1>1, <1>2, <1>3, <1>4, TrackerTypes DEF Init, TypeOK
<1>6. SendInv  BY DEF Init, SendInv, Recorded, Tracker!TrackerInit
<1> QED  BY <1>1, <1>5, <1>6 DEF BaseInv

(* The parts of the invariant that depend on one component only.           *)
CallTypes ==
  /\ call \in [Calls -> {"idle", "awaiting", "returned", "canceled"}]
  /\ done \in SUBSET Calls
  /\ pending \in [Tasks -> Calls \cup {NoCall}]
  /\ reply \in [Calls -> {"none", "completed", "failed", "working", "canceled"}]
WorkerTypes ==
  /\ wpc \in {"dequeue", "claude", "notice", "discover", "send"}
  /\ job \in Calls \cup {NoCall}
  /\ wpc = "dequeue" <=> job = NoCall
  /\ cap \in Nat
  /\ intent \in {"answer", "delegate"}
  /\ sending \in Subtasks \cup {NoSubtask}
  /\ wpc = "send" => sending \in Subtasks
  /\ sentFor \in [Subtasks -> Calls \cup {NoCall}]
  /\ unnamed \in SUBSET Subtasks
LoopTypes ==
  /\ ipc \in {"asleep", "claude", "send", "dead"}
  /\ ticks \in 0..MaxTicks

LEMMA TypeParts ==
  TypeOK <=> /\ Queue!TypeOK /\ Budget!BudgetTypeOK /\ Tracker!TrackerTypeOK
             /\ CallTypes /\ WorkerTypes /\ LoopTypes
BY DEF TypeOK, CallTypes, WorkerTypes, LoopTypes

LEMMA BaseParts ==
  BaseInv <=> /\ Queue!TypeOK /\ Budget!BudgetTypeOK /\ TrackerFacts!TrackerInv
              /\ CallTypes /\ WorkerTypes /\ LoopTypes /\ SendInv
BY TypeParts, TrackerTypes DEF BaseInv

LEMMA Assembled ==
  ASSUME Queue!TypeOK', Budget!BudgetTypeOK', TrackerFacts!TrackerInv',
         CallTypes', WorkerTypes', LoopTypes', SendInv'
  PROVE  BaseInv'
<1>1. Tracker!TrackerTypeOK'
  BY DEF TrackerFacts!TrackerInv, TrackerFacts!TrackerTypeOK, Tracker!TrackerTypeOK,
         TrackerFacts!SubtaskInfos, Tracker!SubtaskInfos, TrackerFacts!Statuses,
         Tracker!Statuses, TrackerFacts!Outcomes, Tracker!Outcomes
<1>2. TypeOK'  BY <1>1 DEF TypeOK, CallTypes, WorkerTypes, LoopTypes
<1> QED  BY <1>2 DEF BaseInv

(* What a step leaves alone keeps its part.                                *)
LEMMA Kept ==
  ASSUME BaseInv
  PROVE  /\ UNCHANGED queueVars => Queue!TypeOK'
         /\ UNCHANGED budgetVars => Budget!BudgetTypeOK'
         /\ UNCHANGED trackerVars => TrackerFacts!TrackerInv' /\ Recorded' = Recorded
         /\ UNCHANGED callVars => CallTypes'
         /\ UNCHANGED <<workerVars, peerVars>> => WorkerTypes'
         /\ UNCHANGED initiativeVars => LoopTypes'
         /\ UNCHANGED <<trackerVars, wpc, job, sending, sentFor>> => SendInv'
<1>1. UNCHANGED queueVars => Queue!TypeOK'
  BY BaseParts DEF queueVars, Queue!TypeOK
<1>2. UNCHANGED budgetVars => Budget!BudgetTypeOK'
  BY BaseParts DEF budgetVars, Budget!BudgetTypeOK
<1>3. UNCHANGED trackerVars => TrackerFacts!TrackerInv' /\ Recorded' = Recorded
  BY BaseParts DEF trackerVars, TrackerFacts!TrackerInv, TrackerFacts!TrackerTypeOK,
       TrackerFacts!MapsAgree, TrackerFacts!WaitsForPending, TrackerFacts!DeliveredGone,
       TrackerFacts!Ready, Recorded
<1>4. UNCHANGED callVars => CallTypes'
  BY BaseParts DEF callVars, CallTypes
<1>5. UNCHANGED <<workerVars, peerVars>> => WorkerTypes'
  BY BaseParts DEF workerVars, peerVars, WorkerTypes
<1>6. UNCHANGED initiativeVars => LoopTypes'
  BY BaseParts DEF initiativeVars, LoopTypes
<1>7. UNCHANGED <<trackerVars, wpc, job, sending, sentFor>> => SendInv'
  BY <1>3, BaseParts DEF SendInv
<1> QED  BY <1>1, <1>2, <1>3, <1>4, <1>5, <1>6, <1>7
(* The end of a job with a call of Calls, whatever it was answered.        *)
LEMMA Finished ==
  ASSUME BaseInv, NEW resolved \in SUBSET Calls, Finish(resolved),
         UNCHANGED <<call, pending, peerVars>>,
         reply' \in [Calls -> {"none", "completed", "failed", "working", "canceled"}]
  PROVE  CallTypes' /\ WorkerTypes' /\ (UNCHANGED trackerVars => SendInv')
<1>1. CallTypes'  BY BaseParts DEF CallTypes, Finish
<1>2. WorkerTypes'  BY BaseParts DEF WorkerTypes, Finish, peerVars
<1>3. UNCHANGED trackerVars => SendInv'  BY BaseParts, Kept DEF SendInv, Finish, peerVars
<1> QED  BY <1>1, <1>2, <1>3

LEMMA FinishedWith ==
  ASSUME BaseInv, NEW c \in Calls, NEW r \in {"completed", "working"},
         FinishWith(c, r), UNCHANGED <<call, pending, peerVars>>
  PROVE  CallTypes' /\ WorkerTypes' /\ (UNCHANGED trackerVars => SendInv')
<1>1. reply' \in [Calls -> {"none", "completed", "failed", "working", "canceled"}]
  BY BaseParts DEF CallTypes, FinishWith
<1>2. Finish({c}) /\ {c} \in SUBSET Calls  BY DEF FinishWith
<1> QED  BY <1>1, <1>2, Finished

(* execute, in its four steps.                                             *)
LEMMA CallBase ==
  ASSUME BaseInv, NEW c \in Calls, Accept(c) \/ Refuse(c) \/ Return(c) \/ Cancel(c)
  PROVE  BaseInv'
<1>1. Queue!TypeOK'
  <2>1. CASE Accept(c)
    <3>1. TaskEntry(TaskOf[c]) \in EntryIds  BY Settings DEF TaskEntry, EntryIds
    <3> QED  BY <2>1, <3>1, Settings, Enqueued, BaseParts DEF Accept
  <2>2. CASE ~Accept(c)  BY <2>2, Kept DEF Refuse, Return, Cancel
  <2> QED  BY <2>1, <2>2
<1>2. CallTypes'
  BY Settings, BaseParts DEF CallTypes, Accept, Refuse, Return, Cancel
<1>3. UNCHANGED <<budgetVars, trackerVars, workerVars, peerVars, initiativeVars>>
  BY DEF Accept, Refuse, Return, Cancel
<1>4. UNCHANGED <<wpc, job, sending, sentFor>>  BY <1>3 DEF workerVars, peerVars
<1> QED  BY <1>1, <1>2, <1>3, <1>4, Kept, Assembled, BaseParts

LEMMA WorkerBase == BaseInv /\ WorkerStep => BaseInv'
<1> SUFFICES ASSUME BaseInv, WorkerStep PROVE BaseInv'
  OBVIOUS

<1>v. TypeOK  BY DEF BaseInv
<1>w. wpc # "dequeue" => job \in Calls  BY BaseParts DEF WorkerTypes
<1>1. CASE WorkerWaits
  <2>1. Queue!TypeOK'
    BY <1>1, BaseParts DEF WorkerWaits, Queue!Wait, Queue!TypeOK, Queue!ConsumerStates
  <2>2. UNCHANGED <<wpc, job, sending, sentFor>>  BY <1>1 DEF WorkerWaits, workerVars, peerVars
  <2> QED  BY <1>1, <2>1, <2>2, Kept, Assembled, BaseParts DEF WorkerWaits
<1>2. ASSUME NEW i \in DOMAIN queue, WorkerSkips(i) \/ WorkerRejects(i) \/ WorkerStarts(i)
      PROVE  BaseInv'
  <2>1. Queue!TypeOK'
    BY <1>2, Popped, BaseParts DEF WorkerSkips, WorkerRejects, WorkerStarts
  <2>2. PendingCall(queue[i].task_id) \in Calls \cup {NoCall}  BY <1>v, EntryIdOf
  <2>3. CASE WorkerSkips(i)
    <3>1. UNCHANGED <<wpc, job, sending, sentFor>>  BY <2>3 DEF WorkerSkips, workerVars, peerVars
    <3> QED  BY <2>1, <2>3, <3>1, Kept, Assembled, BaseParts DEF WorkerSkips
  <2>4. CASE WorkerRejects(i)
    <3>1. PendingCall(queue[i].task_id) \in Calls  BY <2>2, <2>4 DEF WorkerRejects
    <3>2. CallTypes' /\ WorkerTypes' /\ SendInv'
      BY <2>4, <3>1, FinishedWith DEF WorkerRejects
    <3> QED  BY <2>1, <2>4, <3>2, Kept, Assembled, BaseParts DEF WorkerRejects
  <2>5. CASE WorkerStarts(i)
    <3>1. PendingCall(queue[i].task_id) \in Calls  BY <2>2, <2>5 DEF WorkerStarts
    <3>2. Budget!TaskCap \in Nat  BY Spent, BaseParts
    <3>3. WorkerTypes'
      BY <2>5, <3>1, <3>2, CallsAssumption, BaseParts DEF WorkerStarts, WorkerTypes, peerVars
    <3>4. SendInv'  BY <2>5, Kept, BaseParts DEF WorkerStarts, SendInv, peerVars
    <3> QED  BY <2>1, <2>5, <3>3, <3>4, Kept, Assembled, BaseParts DEF WorkerStarts
  <2> QED  BY <1>2, <2>3, <2>4, <2>5
<1>3. ASSUME NEW want \in {"answer", "delegate"}, Continue(want), wpc # "dequeue",
             UNCHANGED <<call, pending, peerVars, trackerVars>>
      PROVE  CallTypes' /\ WorkerTypes' /\ SendInv'
  <2>1. CASE want = "answer"
    BY <1>3, <1>w, <2>1, FinishedWith DEF Continue
  <2>2. CASE want = "delegate"
    <3>1. UNCHANGED <<done, reply, job, cap, intent, sending>> /\ wpc' = "discover"
      BY <1>3, <2>2 DEF Continue
    <3>2. CallTypes'  BY <1>3, <3>1, Kept DEF callVars
    <3>3. WorkerTypes'  BY <1>3, <3>1, BaseParts DEF WorkerTypes, peerVars
    <3>4. SendInv'  BY <1>3, <3>1, Kept, BaseParts DEF SendInv, peerVars
    <3> QED  BY <3>2, <3>3, <3>4
  <2> QED  BY <2>1, <2>2
<1>4. ASSUME NEW cost \in 0..PerTaskMax, NEW want \in {"answer", "delegate"},
             ClaudeReturns(cost, want)
      PROVE  BaseInv'
  <2>1. Budget!BudgetTypeOK'
    <3>1. cost \in Nat  BY Settings
    <3> QED  BY <1>4, <3>1, Spent, BaseParts DEF ClaudeReturns
  <2>2. CallTypes' /\ WorkerTypes' /\ SendInv'
    <3>1. CASE Continue(want)  BY <1>3, <1>4, <3>1 DEF ClaudeReturns
    <3>2. CASE ~Continue(want)
      <4>1. wpc' = "notice" /\ intent' = want /\ UNCHANGED <<done, reply, job, cap, sending>>
        BY <1>4, <3>2 DEF ClaudeReturns
      <4>2. CallTypes'  BY <1>4, <4>1, Kept DEF callVars, ClaudeReturns
      <4>3. WorkerTypes'  BY <1>4, <4>1, BaseParts DEF WorkerTypes, ClaudeReturns, peerVars
      <4>4. SendInv'  BY <1>4, <4>1, Kept, BaseParts DEF SendInv, ClaudeReturns, peerVars
      <4> QED  BY <4>2, <4>3, <4>4
    <3> QED  BY <3>1, <3>2
  <2> QED  BY <1>4, <2>1, <2>2, Kept, Assembled, BaseParts DEF ClaudeReturns
<1>5. CASE NoticeEnds
  <2>1. intent \in {"answer", "delegate"}  BY BaseParts DEF WorkerTypes
  <2>2. CallTypes' /\ WorkerTypes' /\ SendInv'  BY <1>3, <1>5, <2>1 DEF NoticeEnds
  <2> QED  BY <1>5, <2>2, Kept, Assembled, BaseParts DEF NoticeEnds
<1>6. CASE NoPeer
  <2>1. CallTypes' /\ WorkerTypes' /\ SendInv'  BY <1>6, <1>w, FinishedWith DEF NoPeer
  <2> QED  BY <1>6, <2>1, Kept, Assembled, BaseParts DEF NoPeer
<1>7. ASSUME NEW s \in Subtasks, PeerReceives(s) PROVE BaseInv'
  <2>1. WorkerTypes'  BY <1>7, BaseParts DEF WorkerTypes, PeerReceives
  <2>2. SendInv'
    <3>1. /\ sentFor' = [sentFor EXCEPT ![s] = job] /\ sentFor[s] = NoCall
          /\ sending' = s /\ job' = job /\ job # NoCall
      BY <1>7, BaseParts DEF PeerReceives, WorkerTypes
    <3>2. Recorded' = Recorded /\ s \notin Recorded
      BY <1>7, <3>1, Kept, BaseParts DEF SendInv, PeerReceives
    <3> QED  BY <3>1, <3>2, BaseParts DEF SendInv, WorkerTypes
  <2> QED  BY <1>7, <2>1, <2>2, Kept, Assembled, BaseParts DEF PeerReceives
<1>8. CASE PeerAnswers \/ PeerAnswersNoId
  <2>1. sending \in Subtasks /\ sending \notin Recorded /\ TaskOf[job] \in Tasks
    <3>1. wpc = "send" /\ WorkerTypes /\ SendInv
      BY <1>8, BaseParts DEF PeerAnswers, PeerAnswersNoId
    <3>2. sending \in Subtasks /\ sending \notin Recorded  BY <3>1 DEF WorkerTypes, SendInv
    <3>3. job \in Calls  BY <1>w, <3>1
    <3> QED  BY <3>2, <3>3, Settings
  <2>2. TrackerFacts!TrackerInv' /\ Recorded' = Recorded \cup {sending}
    BY <1>8, <2>1, Registered, BaseParts DEF PeerAnswers, PeerAnswersNoId
  <2>3. wpc = "send" /\ job \in Calls  BY <1>8, <1>w DEF PeerAnswers, PeerAnswersNoId
  <2>4. SendInv'
    <3>1. sentFor[sending] # NoCall /\ \A s \in Recorded : sentFor[s] # NoCall
      BY <2>3, CallsAssumption, BaseParts DEF SendInv
    <3>2. UNCHANGED sentFor /\ wpc' = "dequeue"
      BY <1>8 DEF PeerAnswers, PeerAnswersNoId, FinishWith, Finish, peerVars
    <3> QED  BY <2>2, <3>1, <3>2 DEF SendInv
  <2>5. CallTypes' /\ WorkerTypes'
    <3>1. CASE PeerAnswers  BY <2>3, <3>1, FinishedWith DEF PeerAnswers
    <3>2. CASE PeerAnswersNoId
      BY <2>1, <2>3, <3>2, BaseParts
         DEF PeerAnswersNoId, FinishWith, Finish, CallTypes, WorkerTypes
    <3> QED  BY <1>8, <3>1, <3>2
  <2> QED  BY <1>8, <2>2, <2>4, <2>5, Kept, Assembled, BaseParts DEF PeerAnswers, PeerAnswersNoId
<1>9. CASE JobRaises
  <2>1. {job, pending[TaskOf[job]]} \ {NoCall} \in SUBSET Calls
    BY <1>9, <1>w, Settings, BaseParts DEF JobRaises, CallTypes
  <2>2. CallTypes' /\ WorkerTypes' /\ SendInv'
    BY <1>9, <2>1, Finished, BaseParts DEF JobRaises, CallTypes
  <2> QED  BY <1>9, <2>2, Kept, Assembled, BaseParts DEF JobRaises
<1> QED  BY <1>1, <1>2, <1>4, <1>5, <1>6, <1>7, <1>8, <1>9 DEF WorkerStep
(* Callbacks, the initiative loop and midnight.                            *)
LEMMA OwnEntries ==
  /\ \A t \in Tasks : SynthesisEntry(t) \in EntryIds
  /\ InitiativeEntry \in EntryIds
  /\ \A p \in {"escalation", "normal"} : [priority |-> p, from_agent |-> Self] \in Queue!Metadata
BY SettingsAssumption DEF SynthesisEntry, EntryIds, InitiativeEntry, Queue!Metadata

LEMMA OtherBase ==
  ASSUME BaseInv,
         \/ \E s \in Subtasks, outcome \in {"completed", "failed"} : Callback(s, outcome)
         \/ TickStarts
         \/ \E cost \in 0..InitiativeMax : TickReturns(cost)
         \/ TickRaises \/ TickDelegated \/ Midnight
  PROVE  BaseInv'
<1>1. ASSUME NEW s \in Subtasks, NEW outcome \in {"completed", "failed"}, Callback(s, outcome)
      PROVE  BaseInv'
  <2>1. TrackerFacts!TrackerInv' /\ Recorded' = Recorded
    BY <1>1, CalledBack, BaseParts DEF Callback
  <2>2. Queue!TypeOK'
    <3>1. CASE Tracker!Collect(s, outcome) /\ UNCHANGED queueVars  BY <3>1, Kept
    <3>2. CASE Tracker!Collect(s, outcome)
               /\ Queue!Enqueue(SynthesisEntry(subtask_to_parent[s]),
                                [priority |-> "escalation", from_agent |-> Self])
      <4>1. subtask_to_parent[s] \in Tasks
        BY <3>2, BaseParts DEF Tracker!Collect, TrackerFacts!TrackerInv, TrackerFacts!TrackerTypeOK
      <4> QED  BY <3>2, <4>1, OwnEntries, Enqueued, BaseParts
    <3>3. CASE UNCHANGED queueVars  BY <3>3, Kept
    <3> QED  BY <1>1, <3>1, <3>2, <3>3 DEF Callback
  <2>3. UNCHANGED <<wpc, job, sending, sentFor>>  BY <1>1 DEF Callback, workerVars, peerVars
  <2>4. SendInv'  BY <1>1, <2>1, <2>3, BaseParts DEF Callback, SendInv
  <2> QED  BY <1>1, <2>1, <2>2, <2>4, Kept, Assembled, BaseParts DEF Callback
<1>2. CASE TickStarts
  <2>1. LoopTypes'  BY <1>2, Settings, BaseParts DEF LoopTypes, TickStarts
  <2>2. UNCHANGED <<wpc, job, sending, sentFor>>  BY <1>2 DEF TickStarts, workerVars, peerVars
  <2> QED  BY <1>2, <2>1, <2>2, Kept, Assembled, BaseParts DEF TickStarts
<1>3. ASSUME NEW cost \in 0..InitiativeMax, TickReturns(cost) PROVE BaseInv'
  <2>1. Queue!TypeOK'
    <3>1. CASE UNCHANGED queueVars  BY <3>1, Kept
    <3>2. CASE Queue!Enqueue(InitiativeEntry, [priority |-> "normal", from_agent |-> Self])
      BY <3>2, OwnEntries, Enqueued, BaseParts
    <3> QED
      BY <1>3, <3>1, <3>2 DEF TickReturns, DecidesNothing, DecidesSelfTask, DecidesDelegate,
                             DecidesGibberish
  <2>2. LoopTypes'
    BY <1>3, BaseParts DEF LoopTypes, TickReturns, DecidesNothing, DecidesSelfTask,
                          DecidesDelegate, DecidesGibberish
  <2>3. Budget!BudgetTypeOK'
    <3>1. cost \in Nat  BY Settings
    <3> QED  BY <1>3, <3>1, Spent, BaseParts DEF TickReturns
  <2>4. UNCHANGED <<wpc, job, sending, sentFor>>  BY <1>3 DEF TickReturns, workerVars, peerVars
  <2> QED  BY <1>3, <2>1, <2>2, <2>3, <2>4, Kept, Assembled, BaseParts DEF TickReturns
<1>4. CASE TickRaises \/ TickDelegated
  <2>1. LoopTypes'  BY <1>4, BaseParts DEF LoopTypes, TickRaises, TickDelegated
  <2>2. UNCHANGED <<wpc, job, sending, sentFor>>
    BY <1>4 DEF TickRaises, TickDelegated, workerVars, peerVars
  <2> QED  BY <1>4, <2>1, <2>2, Kept, Assembled, BaseParts DEF TickRaises, TickDelegated
<1>5. CASE Midnight
  <2>1. Budget!BudgetTypeOK'  BY <1>5, Spent, BaseParts DEF Midnight
  <2>2. UNCHANGED <<wpc, job, sending, sentFor>>  BY <1>5 DEF Midnight, workerVars, peerVars
  <2> QED  BY <1>5, <2>1, <2>2, Kept, Assembled, BaseParts DEF Midnight
<1> QED  BY <1>1, <1>2, <1>3, <1>4, <1>5

LEMMA BaseNext == BaseInv /\ [Next]_vars => BaseInv'
<1> SUFFICES ASSUME BaseInv, [Next]_vars PROVE BaseInv'
  OBVIOUS
<1>1. CASE UNCHANGED vars
  <2>1. UNCHANGED <<wpc, job, sending, sentFor>>  BY <1>1 DEF vars, workerVars, peerVars
  <2> QED  BY <1>1, <2>1, Kept, Assembled DEF vars
<1> QED  BY <1>1, CallBase, WorkerBase, OtherBase DEF Next

THEOREM BaseInvariant == Spec => []BaseInv
BY BaseInit, BaseNext, PTL DEF Spec

(* Queue, budget, tracker, calls, worker and loop stay well-typed, and the *)
(* worker has a job exactly when it is not in dequeue.                     *)
THEOREM TypeCorrect == Spec => []TypeOK
<1>1. BaseInv => TypeOK  BY DEF BaseInv
<1> QED  BY <1>1, BaseInvariant, PTL
-----------------------------------------------------------------------------
(* A task has at most one follow-up: of three messages two are the same.   *)
OneFollowUp == \A c, d, e \in Calls :
  TaskOf[c] = TaskOf[d] /\ TaskOf[d] = TaskOf[e] => c = d \/ d = e \/ c = e

(* The futures are those of the calls that wait, and of those that were    *)
(* cancelled: only execute itself takes its future out.                    *)
Open == {"awaiting", "canceled"}
FutureInv ==
  /\ \A t \in Tasks : pending[t] # NoCall => TaskOf[pending[t]] = t /\ call[pending[t]] \in Open
  /\ \A c \in Calls : call[c] \in Open => pending[TaskOf[c]] = c

(* Nobody is answered before his future is done, unless by a cancellation. *)
DoneInv == \A c \in Calls :
  /\ call[c] = "idle" => c \notin done /\ reply[c] = "none"
  /\ call[c] = "awaiting" /\ c \notin done => reply[c] = "none"
  /\ call[c] = "canceled" => c \in done

Unresolved(c) == c \in done => call[c] = "canceled"
JobInv == job # NoCall => call[job] \in Open /\ Unresolved(job)

(* A task has one entry in the queue, none while the worker is at it, and  *)
(* none after it.                                                          *)
EntryInv == \A t \in Tasks, i \in DOMAIN queue : queue[i].task_id = TaskEntry(t) =>
  /\ pending[t] # NoCall /\ pending[t] # job /\ Unresolved(pending[t])
  /\ \A j \in DOMAIN queue : queue[j].task_id = TaskEntry(t) => j = i

CallInv == FutureInv /\ DoneInv /\ JobInv /\ EntryInv /\ NoOrphanedCall

LEMMA CallInit == Init => CallInv
<1> SUFFICES ASSUME Init PROVE CallInv
  OBVIOUS
<1>1. DOMAIN queue = {}  BY DEF Init, Queue!Init
<1>2. FutureInv  BY CallsAssumption DEF Init, FutureInv, Open
<1> QED  BY <1>1, <1>2 DEF Init, CallInv, DoneInv, JobInv, EntryInv, NoOrphanedCall

(* Entries are of different tasks if their tasks are.                      *)
LEMMA Entries ==
  /\ \A t, u \in Tasks : TaskEntry(t) = TaskEntry(u) => t = u
  /\ \A t, u \in Tasks : SynthesisEntry(u) # TaskEntry(t) /\ InitiativeEntry # TaskEntry(t)
BY DEF TaskEntry, SynthesisEntry, InitiativeEntry

(* The agent adds an entry of its own, or leaves the queue alone.          *)
LEMMA OwnEntryKeeps ==
  ASSUME BaseInv, CallInv, UNCHANGED <<callVars, job>>,
         \/ UNCHANGED queue
         \/ \E id \in EntryIds, md \in Queue!Metadata :
              Queue!Enqueue(id, md) /\ \A t \in Tasks : id # TaskEntry(t)
  PROVE  CallInv'
<1> USE DEF callVars
<1>1. FutureInv' /\ DoneInv' /\ JobInv'
  BY DEF CallInv, FutureInv, DoneInv, JobInv, Unresolved
<1>2. CASE UNCHANGED queue
  BY <1>1, <1>2 DEF CallInv, EntryInv, Unresolved, NoOrphanedCall, Queued
<1>3. ASSUME NEW id \in EntryIds, NEW md \in Queue!Metadata, Queue!Enqueue(id, md),
             \A t \in Tasks : id # TaskEntry(t)
      PROVE  CallInv'
  <2>1. /\ DOMAIN queue' = DOMAIN queue \cup {Len(queue) + 1}
        /\ queue'[Len(queue) + 1].task_id = id
        /\ \A j \in DOMAIN queue : queue'[j] = queue[j]
    BY <1>3, Enqueued, BaseParts
  <2>2. \A t \in Tasks, j \in DOMAIN queue' :
          queue'[j].task_id = TaskEntry(t) => j \in DOMAIN queue /\ queue[j].task_id = TaskEntry(t)
    BY <1>3, <2>1
  <2>3. EntryInv'  BY <2>2 DEF CallInv, EntryInv, Unresolved
  <2>4. NoOrphanedCall'  BY <2>1 DEF CallInv, NoOrphanedCall, Queued
  <2> QED  BY <1>1, <2>3, <2>4 DEF CallInv
<1> QED  BY <1>2, <1>3

(* The worker is through with its job: it answers it, or does not.         *)
LEMMA JobOverKeeps ==
  ASSUME BaseInv, CallInv, job \in Calls, UNCHANGED <<queue, call, pending>>,
         done' = done \cup {job}, job' = NoCall,
         \A c \in Calls : c # job => reply'[c] = reply[c]
  PROVE  CallInv'
<1>1. FutureInv'  BY DEF CallInv, FutureInv
<1>2. DoneInv'  BY CallsAssumption DEF CallInv, DoneInv, JobInv, Open
<1>3. JobInv'  BY DEF JobInv
<1>4. EntryInv'  BY DEF CallInv, EntryInv, Unresolved
<1>5. NoOrphanedCall'  BY DEF CallInv, NoOrphanedCall, Queued
<1> QED  BY <1>1, <1>2, <1>3, <1>4, <1>5 DEF CallInv
(* When a message is taken, no other call of its task waits.               *)
LEMMA AcceptKeeps ==
  ASSUME OneFollowUp, BaseInv, CallInv, NEW c \in Calls, Accept(c)
  PROVE  CallInv'
<1> DEFINE t == TaskOf[c]
           n == Len(queue) + 1
<1>1. t \in Tasks /\ MetadataOf[c] \in Queue!Metadata /\ TaskEntry(t) \in EntryIds
  BY Settings DEF TaskEntry, EntryIds
<1>2. /\ DOMAIN queue' = DOMAIN queue \cup {n} /\ n \notin DOMAIN queue
      /\ queue'[n].task_id = TaskEntry(t)
      /\ \A j \in DOMAIN queue : queue'[j] = queue[j]
  BY <1>1, Enqueued, BaseParts DEF Accept
<1>3. /\ pending' = [pending EXCEPT ![t] = c] /\ call' = [call EXCEPT ![c] = "awaiting"]
      /\ UNCHANGED <<done, reply, job>> /\ call[c] = "idle"
  BY DEF Accept, Delivered, workerVars
<1>4. CallTypes /\ WorkerTypes /\ FutureInv /\ DoneInv /\ JobInv /\ EntryInv /\ NoOrphanedCall
  BY BaseParts DEF CallInv
<1>5. \A d \in Calls : TaskOf[d] = t /\ d # c => call[d] \notin Open
  <2>1. CASE \A d \in SameTask(c) : call[d] = "idle"  BY <2>1 DEF SameTask, Open
  <2>2. CASE LeftOpen(c)
    <3>1. PICK d \in SameTask(c) : call[d] = "returned"  BY <2>2 DEF LeftOpen
    <3>2. \A e \in Calls : TaskOf[e] = t => e = c \/ e = d  BY <3>1 DEF OneFollowUp, SameTask
    <3> QED  BY <3>1, <3>2 DEF Open
  <2> QED  BY <2>1, <2>2 DEF Accept, Delivered
<1>6. pending[t] = NoCall
  <2>1. pending[t] \in Calls \cup {NoCall}  BY <1>1, <1>4 DEF CallTypes
  <2>2. ASSUME pending[t] # NoCall PROVE FALSE
    <3>1. TaskOf[pending[t]] = t /\ call[pending[t]] \in Open  BY <1>1, <1>4, <2>2 DEF FutureInv
    <3> QED  BY <1>3, <1>5, <2>1, <2>2, <3>1 DEF Open
  <2> QED  BY <2>2
<1>7. \A j \in DOMAIN queue : queue[j].task_id # TaskEntry(t)
  BY <1>1, <1>4, <1>6 DEF EntryInv
<1>8. c # job
  BY <1>3, <1>4, CallsAssumption DEF JobInv, Open
<1> HIDE DEF t, n
<1>9. FutureInv'
  <2>1. \A u \in Tasks : pending'[u] = IF u = t THEN c ELSE pending[u]
    BY <1>3, <1>4 DEF CallTypes
  <2>2. \A d \in Calls : call'[d] = IF d = c THEN "awaiting" ELSE call[d]
    BY <1>3, <1>4 DEF CallTypes
  <2>3. \A u \in Tasks : pending[u] \in Calls \cup {NoCall}  BY <1>4 DEF CallTypes
  <2>4. TaskOf[c] = t /\ \A d \in Calls : TaskOf[d] \in Tasks  BY Settings DEF t
  <2> QED  BY <1>1, <1>3, <1>4, <1>5, <2>1, <2>2, <2>3, <2>4 DEF FutureInv, Open
<1>10. DoneInv'
  BY <1>3, <1>4 DEF DoneInv, CallTypes
<1>11. JobInv'
  BY <1>3, <1>4, <1>8 DEF JobInv, CallTypes, WorkerTypes, Unresolved
<1>12. EntryInv'
  <2> SUFFICES ASSUME NEW u \in Tasks, NEW i \in DOMAIN queue', queue'[i].task_id = TaskEntry(u)
               PROVE  /\ pending'[u] # NoCall /\ pending'[u] # job' /\ Unresolved(pending[u])'
                      /\ \A j \in DOMAIN queue' : queue'[j].task_id = TaskEntry(u) => j = i
    BY DEF EntryInv
  <2>1. CASE u = t
    <3>1. pending'[u] = c /\ c \notin done'  BY <1>1, <1>3, <1>4, <2>1 DEF CallTypes, DoneInv
    <3>2. \A j \in DOMAIN queue' : queue'[j].task_id = TaskEntry(u) => j = n
      BY <1>2, <1>7, <2>1
    <3> QED  BY <1>3, <1>8, <3>1, <3>2, CallsAssumption DEF Unresolved
  <2>2. CASE u # t
    <3>1. i \in DOMAIN queue /\ queue[i].task_id = TaskEntry(u)
      BY <1>1, <1>2, <2>2, Entries
    <3>2. /\ pending[u] # NoCall /\ pending[u] # job /\ Unresolved(pending[u])
          /\ \A j \in DOMAIN queue : queue[j].task_id = TaskEntry(u) => j = i
      BY <1>4, <3>1 DEF EntryInv
    <3>3. pending'[u] = pending[u] /\ pending[u] \in Calls
      BY <1>3, <1>4, <2>2, <3>2 DEF CallTypes
    <3>4. pending[u] # c  BY <1>3, <1>4, <3>2 DEF FutureInv, Open
    <3>5. Unresolved(pending[u])'
      BY <1>3, <1>4, <3>2, <3>3, <3>4 DEF Unresolved, CallTypes
    <3>6. \A j \in DOMAIN queue' : queue'[j].task_id = TaskEntry(u) => j = i
      BY <1>1, <1>2, <2>2, <3>2, Entries
    <3> QED  BY <1>3, <3>2, <3>3, <3>5, <3>6
  <2> QED  BY <2>1, <2>2
<1>13. NoOrphanedCall'
  <2> SUFFICES ASSUME NEW d \in Calls, call'[d] = "awaiting"
               PROVE  d \in done' \/ job' = d \/ (pending'[TaskOf[d]] = d /\ Queued(d)')
    BY DEF NoOrphanedCall
  <2>1. CASE d = c
    <3>1. TaskOf[d] = t /\ pending'[t] = c  BY <1>1, <1>3, <1>4, <2>1 DEF t, CallTypes
    <3> QED  BY <1>2, <2>1, <3>1 DEF Queued
  <2>2. CASE d # c
    <3>1. call[d] = "awaiting"  BY <1>3, <1>4, <2>2 DEF CallTypes
    <3>2. TaskOf[d] # t  BY <1>5, <2>2, <3>1 DEF Open
    <3>3. pending'[TaskOf[d]] = pending[TaskOf[d]]  BY <1>3, <1>4, <3>2, Settings DEF CallTypes
    <3>4. d \in done \/ job = d \/ (pending[TaskOf[d]] = d /\ Queued(d))
      BY <1>4, <3>1 DEF NoOrphanedCall
    <3>5. Queued(d) => Queued(d)'  BY <1>2 DEF Queued
    <3> QED  BY <1>3, <3>3, <3>4, <3>5
  <2> QED  BY <2>1, <2>2
<1> QED  BY <1>9, <1>10, <1>11, <1>12, <1>13 DEF CallInv
(* The other three steps of execute take no entry.                         *)
LEMMA CallKeeps ==
  ASSUME BaseInv, CallInv, NEW c \in Calls, Refuse(c) \/ Return(c) \/ Cancel(c)
  PROVE  CallInv'
<1>1. UNCHANGED <<queue, job>>
  BY DEF Refuse, Return, Cancel, queueVars, workerVars
<1>2. CallTypes /\ WorkerTypes /\ FutureInv /\ DoneInv /\ JobInv /\ EntryInv /\ NoOrphanedCall
  BY BaseParts DEF CallInv
<1>3. \A t \in Tasks : pending[t] \in Calls \cup {NoCall}  BY <1>2 DEF CallTypes
<1>4. TaskOf[c] \in Tasks  BY Settings
<1>5. CASE Refuse(c)
  <2>1. /\ UNCHANGED <<done, pending>> /\ call[c] = "idle"
        /\ call' = [call EXCEPT ![c] = "returned"] /\ reply' = [reply EXCEPT ![c] = "failed"]
    BY <1>5 DEF Refuse, Delivered
  <2>2. \A d \in Calls : d # c => call'[d] = call[d] /\ reply'[d] = reply[d]
    BY <1>2, <2>1 DEF CallTypes
  <2>3. call'[c] = "returned"  BY <1>2, <2>1 DEF CallTypes
  <2>4. \A t \in Tasks : pending[t] # c  BY <1>2, <2>1, CallsAssumption DEF FutureInv, Open
  <2>5. FutureInv'  BY <1>2, <1>3, <2>1, <2>2, <2>3, <2>4 DEF FutureInv, Open
  <2>6. DoneInv'  BY <1>2, <2>1, <2>2, <2>3 DEF DoneInv
  <2>7. JobInv'
    BY <1>1, <1>2, <2>1, <2>2, CallsAssumption DEF JobInv, Open, Unresolved, WorkerTypes
  <2>8. EntryInv'
    BY <1>1, <1>2, <1>3, <2>1, <2>2, <2>4 DEF EntryInv, Unresolved
  <2>9. NoOrphanedCall'
    BY <1>1, <1>2, <2>1, <2>2, <2>3 DEF NoOrphanedCall, Queued
  <2> QED  BY <2>5, <2>6, <2>7, <2>8, <2>9 DEF CallInv
<1>6. CASE Return(c)
  <2>1. /\ UNCHANGED <<done, reply>> /\ call[c] = "awaiting" /\ c \in done
        /\ call' = [call EXCEPT ![c] = "returned"]
        /\ pending' = [pending EXCEPT ![TaskOf[c]] = NoCall]
    BY <1>6 DEF Return
  <2>2. \A d \in Calls : d # c => call'[d] = call[d]
    BY <1>2, <2>1 DEF CallTypes
  <2>3. call'[c] = "returned"  BY <1>2, <2>1 DEF CallTypes
  <2>4. \A t \in Tasks : pending'[t] = IF t = TaskOf[c] THEN NoCall ELSE pending[t]
    BY <1>2, <2>1 DEF CallTypes
  <2>5. pending[TaskOf[c]] = c /\ \A t \in Tasks : pending[t] = c => t = TaskOf[c]
    BY <1>2, <2>1, CallsAssumption DEF FutureInv, Open
  <2>6. FutureInv'
    <3>1. \A d \in Calls : TaskOf[d] \in Tasks  BY Settings
    <3>2. ASSUME NEW t \in Tasks, pending'[t] # NoCall
          PROVE  TaskOf[pending'[t]] = t /\ call'[pending'[t]] \in Open
      <4>1. t # TaskOf[c] /\ pending'[t] = pending[t]  BY <2>4, <3>2
      <4>2. pending[t] \in Calls /\ pending[t] # c  BY <1>3, <2>5, <3>2, <4>1
      <4> QED  BY <1>2, <2>2, <3>2, <4>1, <4>2 DEF FutureInv
    <3>3. ASSUME NEW d \in Calls, call'[d] \in Open PROVE pending'[TaskOf[d]] = d
      <4>1. d # c  BY <2>3, <3>3 DEF Open
      <4>2. pending[TaskOf[d]] = d  BY <1>2, <2>2, <3>3, <4>1 DEF FutureInv
      <4>3. TaskOf[d] # TaskOf[c]  BY <2>5, <4>1, <4>2
      <4> QED  BY <2>4, <3>1, <4>2, <4>3
    <3> QED  BY <3>2, <3>3 DEF FutureInv
  <2>7. DoneInv'  BY <1>2, <2>1, <2>2, <2>3 DEF DoneInv
  <2>8. JobInv'
    BY <1>1, <1>2, <2>1, <2>2, CallsAssumption DEF JobInv, Unresolved, WorkerTypes
  <2>9. \A i \in DOMAIN queue : queue[i].task_id # TaskEntry(TaskOf[c])
    BY <1>2, <1>4, <2>1, <2>5 DEF EntryInv, Unresolved
  <2>10. EntryInv'
    BY <1>1, <1>2, <1>3, <2>1, <2>2, <2>4, <2>5, <2>9 DEF EntryInv, Unresolved
  <2>11. NoOrphanedCall'
    <3> SUFFICES ASSUME NEW d \in Calls, call'[d] = "awaiting"
                 PROVE  d \in done' \/ job' = d \/ (pending'[TaskOf[d]] = d /\ Queued(d)')
      BY DEF NoOrphanedCall
    <3>1. d # c /\ call[d] = "awaiting"  BY <2>2, <2>3
    <3>2. d \in done \/ job = d \/ (pending[TaskOf[d]] = d /\ Queued(d))
      BY <1>2, <3>1 DEF NoOrphanedCall
    <3>3. TaskOf[d] \in Tasks  BY Settings
    <3> QED  BY <1>1, <2>1, <2>4, <2>5, <3>1, <3>2, <3>3 DEF Queued
  <2> QED  BY <2>6, <2>7, <2>8, <2>10, <2>11 DEF CallInv
<1>7. ASSUME Cancel(c), call[c] = "awaiting" PROVE CallInv'
  <2>1. /\ UNCHANGED pending /\ call' = [call EXCEPT ![c] = "canceled"]
        /\ done' = done \cup {c} /\ reply' = [reply EXCEPT ![c] = "canceled"]
    BY <1>7 DEF Cancel
  <2>2. \A d \in Calls : d # c => call'[d] = call[d] /\ reply'[d] = reply[d]
    BY <1>2, <2>1 DEF CallTypes
  <2>3. call'[c] = "canceled"  BY <1>2, <2>1 DEF CallTypes
  <2>4. FutureInv'  BY <1>2, <1>3, <1>7, <2>1, <2>2, <2>3 DEF FutureInv, Open
  <2>5. DoneInv'  BY <1>2, <2>1, <2>2, <2>3 DEF DoneInv
  <2>6. JobInv'
    BY <1>1, <1>2, <2>1, <2>2, <2>3 DEF JobInv, Open, Unresolved, WorkerTypes
  <2>7. EntryInv'
    BY <1>1, <1>2, <1>3, <2>1, <2>2, <2>3 DEF EntryInv, Unresolved
  <2>8. NoOrphanedCall'
    BY <1>1, <1>2, <2>1, <2>2, <2>3 DEF NoOrphanedCall, Queued
  <2> QED  BY <2>4, <2>5, <2>6, <2>7, <2>8 DEF CallInv
<1>8. ASSUME Cancel(c), call[c] # "awaiting" PROVE CallInv'
  <2>1. UNCHANGED <<call, done, pending>> /\ call[c] = "returned"
    BY <1>8 DEF Cancel
  <2>2. reply' = [reply EXCEPT ![c] = "canceled"]  BY <1>8 DEF Cancel
  <2>3. DoneInv'  BY <1>2, <2>1, <2>2 DEF DoneInv, CallTypes
  <2>4. FutureInv' /\ JobInv' /\ EntryInv' /\ NoOrphanedCall'
    BY <1>1, <1>2, <2>1 DEF FutureInv, JobInv, EntryInv, NoOrphanedCall, Unresolved, Queued
  <2> QED  BY <2>3, <2>4 DEF CallInv
<1> QED  BY <1>5, <1>6, <1>7, <1>8
(* Whatever is popped, the other entries stay as they were.                *)
LEMMA OthersStay ==
  ASSUME BaseInv, CallInv, NEW i \in DOMAIN queue, Queue!Pop(Worker, i)
  PROVE  /\ \A t \in Tasks, j \in DOMAIN queue' : queue'[j].task_id = TaskEntry(t) =>
              \E k \in DOMAIN queue \ {i} :
                /\ queue[k].task_id = TaskEntry(t)
                /\ queue[i].task_id # TaskEntry(t)
                /\ \A l \in DOMAIN queue' : queue'[l].task_id = TaskEntry(t) => l = j
         /\ \A t \in Tasks, k \in DOMAIN queue \ {i} : queue[k].task_id = TaskEntry(t) =>
              \E j \in DOMAIN queue' : queue'[j].task_id = TaskEntry(t)
<1>1. /\ \A j \in DOMAIN queue' :
           Before(i, j) \in DOMAIN queue \ {i} /\ queue'[j] = queue[Before(i, j)]
      /\ \A j, k \in DOMAIN queue' : Before(i, j) = Before(i, k) => j = k
      /\ \A k \in DOMAIN queue \ {i} : \E j \in DOMAIN queue' : Before(i, j) = k
  BY Popped, BaseParts
<1>2. \A t \in Tasks, k, l \in DOMAIN queue :
        queue[k].task_id = TaskEntry(t) /\ queue[l].task_id = TaskEntry(t) => k = l
  BY DEF CallInv, EntryInv
<1>3. ASSUME NEW t \in Tasks, NEW j \in DOMAIN queue', queue'[j].task_id = TaskEntry(t)
      PROVE  \E k \in DOMAIN queue \ {i} :
                /\ queue[k].task_id = TaskEntry(t)
                /\ queue[i].task_id # TaskEntry(t)
                /\ \A l \in DOMAIN queue' : queue'[l].task_id = TaskEntry(t) => l = j
  <2>1. PICK k \in DOMAIN queue \ {i} : k = Before(i, j)  BY <1>1
  <2>2. queue[k].task_id = TaskEntry(t)  BY <1>1, <1>3, <2>1
  <2>3. queue[i].task_id # TaskEntry(t)  BY <1>2, <2>2
  <2>4. ASSUME NEW l \in DOMAIN queue', queue'[l].task_id = TaskEntry(t) PROVE l = j
    <3>1. queue[Before(i, l)].task_id = TaskEntry(t) /\ Before(i, l) \in DOMAIN queue
      BY <1>1, <2>4
    <3>2. Before(i, l) = k  BY <1>2, <2>2, <3>1
    <3> QED  BY <1>1, <2>1, <3>2
  <2> QED  BY <2>2, <2>3, <2>4
<1>4. ASSUME NEW t \in Tasks, NEW k \in DOMAIN queue \ {i}, queue[k].task_id = TaskEntry(t)
      PROVE  \E j \in DOMAIN queue' : queue'[j].task_id = TaskEntry(t)
  <2>1. PICK j \in DOMAIN queue' : Before(i, j) = k  BY <1>1
  <2> QED  BY <1>1, <1>4, <2>1
<1> QED  BY <1>3, <1>4

LEMMA PopKeeps ==
  ASSUME BaseInv, CallInv, NEW i \in DOMAIN queue,
         WorkerSkips(i) \/ WorkerRejects(i) \/ WorkerStarts(i)
  PROVE  CallInv'
<1>1. CallTypes /\ WorkerTypes /\ FutureInv /\ DoneInv /\ JobInv /\ EntryInv /\ NoOrphanedCall
  BY BaseParts DEF CallInv
<1>2. Queue!Pop(Worker, i) /\ job = NoCall /\ UNCHANGED <<call, pending>>
  BY <1>1 DEF WorkerSkips, WorkerRejects, WorkerStarts, WorkerTypes, callVars
<1>3. /\ \A t \in Tasks, j \in DOMAIN queue' : queue'[j].task_id = TaskEntry(t) =>
           \E k \in DOMAIN queue \ {i} :
             /\ queue[k].task_id = TaskEntry(t)
             /\ queue[i].task_id # TaskEntry(t)
             /\ \A l \in DOMAIN queue' : queue'[l].task_id = TaskEntry(t) => l = j
      /\ \A t \in Tasks, k \in DOMAIN queue \ {i} : queue[k].task_id = TaskEntry(t) =>
           \E j \in DOMAIN queue' : queue'[j].task_id = TaskEntry(t)
  BY <1>2, OthersStay
<1>4. FutureInv'  BY <1>1, <1>2 DEF FutureInv
<1>5. \A t \in Tasks : pending[t] \in Calls \cup {NoCall}  BY <1>1 DEF CallTypes
<1>6. \A c \in Calls : TaskOf[c] \in Tasks  BY Settings
<1>7. \A t \in Tasks : queue[i].task_id = TaskEntry(t) => PendingCall(queue[i].task_id) = pending[t]
  BY DEF PendingCall, TaskEntry
<1>8. CASE WorkerSkips(i)
  <2>1. UNCHANGED <<done, reply, job>> /\ PendingCall(queue[i].task_id) = NoCall
    BY <1>8 DEF WorkerSkips, callVars, workerVars
  <2>2. \A t \in Tasks : queue[i].task_id # TaskEntry(t)
    BY <1>1, <1>7, <2>1 DEF EntryInv
  <2>3. DoneInv' /\ JobInv'  BY <1>1, <1>2, <2>1 DEF DoneInv, JobInv, Unresolved
  <2>4. EntryInv'
    BY <1>1, <1>2, <1>3, <2>1 DEF EntryInv, Unresolved
  <2>5. \A c \in Calls : Queued(c) => Queued(c)'
    BY <1>3, <1>6, <2>2 DEF Queued
  <2>6. NoOrphanedCall'  BY <1>1, <1>2, <2>1, <2>5 DEF NoOrphanedCall
  <2> QED  BY <1>4, <2>3, <2>4, <2>6 DEF CallInv
<1>9. CASE WorkerRejects(i) \/ WorkerStarts(i)
  <2>1. PendingCall(queue[i].task_id) # NoCall
    BY <1>9 DEF WorkerRejects, WorkerStarts
  <2>2. PICK t \in Tasks : queue[i].task_id = TaskEntry(t)
    <3>1. queue[i].task_id[1] = "task"  BY <2>1 DEF PendingCall
    <3> QED  BY <3>1, EntryIdOf DEF BaseInv
  <2>3. PICK c \in Calls : c = pending[t]
    BY <1>5, <1>7, <2>1, <2>2
  <2>4. TaskOf[c] = t /\ call[c] \in Open /\ Unresolved(c)
    BY <1>1, <2>2, <2>3, CallsAssumption DEF FutureInv, EntryInv
  <2>5. \A u \in Tasks, j \in DOMAIN queue' : queue'[j].task_id = TaskEntry(u) => pending[u] # c
    <3>1. \A u \in Tasks : pending[u] = c => u = t  BY <1>1, <2>4, CallsAssumption DEF FutureInv
    <3> QED  BY <1>3, <2>2, <3>1
  <2>6. ASSUME NEW d \in Calls, d # c, call[d] = "awaiting"
        PROVE  d \in done \/ (pending[TaskOf[d]] = d /\ Queued(d)')
    <3>1. d \in done \/ (pending[TaskOf[d]] = d /\ Queued(d))
      BY <1>1, <1>2, <2>6, CallsAssumption DEF NoOrphanedCall
    <3>2. pending[TaskOf[d]] = d => TaskOf[d] # t  BY <2>3, <2>6
    <3>3. TaskOf[d] # t /\ Queued(d) => Queued(d)'  BY <1>3, <1>6, <2>2, Entries DEF Queued
    <3> QED  BY <3>1, <3>2, <3>3
  <2>7. CASE WorkerStarts(i)
    <3>1. job' = c /\ UNCHANGED <<done, reply>>
      BY <1>7, <2>2, <2>3, <2>7 DEF WorkerStarts, callVars
    <3>2. DoneInv' /\ JobInv'  BY <1>1, <1>2, <2>4, <3>1 DEF DoneInv, JobInv, Unresolved
    <3>3. EntryInv'  BY <1>1, <1>2, <1>3, <2>5, <3>1 DEF EntryInv, Unresolved
    <3>4. NoOrphanedCall'  BY <1>2, <2>6, <3>1 DEF NoOrphanedCall
    <3> QED  BY <1>4, <3>2, <3>3, <3>4 DEF CallInv
  <2>8. CASE WorkerRejects(i)
    <3>1. job' = NoCall /\ done' = done \cup {c} /\ reply' = [reply EXCEPT ![c] = "completed"]
      BY <1>7, <2>2, <2>3, <2>8 DEF WorkerRejects, FinishWith, Finish
    <3>2. DoneInv'  BY <1>1, <1>2, <2>4, <3>1 DEF DoneInv, CallTypes, Open
    <3>3. JobInv'  BY <3>1 DEF JobInv
    <3>4. EntryInv'  BY <1>1, <1>2, <1>3, <2>5, <3>1 DEF EntryInv, Unresolved
    <3>5. NoOrphanedCall'  BY <1>2, <2>6, <3>1 DEF NoOrphanedCall
    <3> QED  BY <1>4, <3>2, <3>3, <3>4, <3>5 DEF CallInv
  <2> QED  BY <1>9, <2>7, <2>8
<1> QED  BY <1>8, <1>9
(* The steps of the worker between dequeue and the end of the job.         *)
LEMMA WorkerKeeps == BaseInv /\ CallInv /\ WorkerStep => CallInv'
<1> SUFFICES ASSUME BaseInv, CallInv, WorkerStep PROVE CallInv'
  OBVIOUS
<1>1. CallTypes /\ WorkerTypes /\ FutureInv /\ JobInv
  BY BaseParts DEF CallInv
<1>2. ASSUME wpc # "dequeue", UNCHANGED <<queue, call, pending>>, NEW r, FinishWith(job, r)
      PROVE  CallInv'
  <2>1. job \in Calls  BY <1>1, <1>2 DEF WorkerTypes
  <2>2. /\ done' = done \cup {job} /\ job' = NoCall
        /\ \A c \in Calls : c # job => reply'[c] = reply[c]
    BY <1>1, <1>2 DEF FinishWith, Finish, CallTypes
  <2> QED  BY <1>2, <2>1, <2>2, JobOverKeeps
<1>3. ASSUME NEW want, Continue(want), wpc # "dequeue", UNCHANGED <<queue, call, pending>>
      PROVE  CallInv'
  <2>1. CASE want = "answer"  BY <1>2, <1>3, <2>1 DEF Continue
  <2>2. CASE want # "answer"
    <3>1. UNCHANGED <<callVars, job, queue>>  BY <1>3, <2>2 DEF Continue, callVars
    <3> QED  BY <3>1, OwnEntryKeeps
  <2> QED  BY <2>1, <2>2
<1>4. CASE WorkerWaits
  <2>1. UNCHANGED <<callVars, job, queue>>  BY <1>4 DEF WorkerWaits, workerVars, Queue!Wait
  <2> QED  BY <2>1, OwnEntryKeeps
<1>5. CASE \E i \in DOMAIN queue : WorkerSkips(i) \/ WorkerRejects(i) \/ WorkerStarts(i)
  BY <1>5, PopKeeps
<1>6. ASSUME NEW cost, NEW want, ClaudeReturns(cost, want) PROVE CallInv'
  <2>1. wpc # "dequeue" /\ UNCHANGED <<queue, call, pending>>
    BY <1>6 DEF ClaudeReturns, queueVars
  <2>2. CASE Continue(want)  BY <1>3, <2>1, <2>2
  <2>3. CASE ~Continue(want)
    <3>1. UNCHANGED <<callVars, job, queue>>  BY <1>6, <2>1, <2>3 DEF ClaudeReturns, callVars
    <3> QED  BY <3>1, OwnEntryKeeps
  <2> QED  BY <2>2, <2>3
<1>7. CASE NoticeEnds
  <2>1. wpc # "dequeue" /\ UNCHANGED <<queue, call, pending>>  BY <1>7 DEF NoticeEnds, queueVars
  <2> QED  BY <1>3, <1>7, <2>1 DEF NoticeEnds
<1>8. CASE NoPeer
  <2>1. wpc # "dequeue" /\ UNCHANGED <<queue, call, pending>>  BY <1>8 DEF NoPeer, queueVars
  <2> QED  BY <1>2, <1>8, <2>1 DEF NoPeer
<1>9. CASE \E s \in Subtasks : PeerReceives(s)
  <2>1. UNCHANGED <<callVars, job, queue>>  BY <1>9 DEF PeerReceives, queueVars
  <2> QED  BY <2>1, OwnEntryKeeps
<1>10. CASE PeerAnswers \/ PeerAnswersNoId
  <2>1. wpc # "dequeue" /\ UNCHANGED <<queue, call, pending>>
    BY <1>10 DEF PeerAnswers, PeerAnswersNoId, queueVars
  <2> QED  BY <1>2, <1>10, <2>1 DEF PeerAnswers, PeerAnswersNoId
<1>11. CASE JobRaises
  <2>1. job \in Calls  BY <1>1, <1>11 DEF WorkerTypes, JobRaises
  <2>2. pending[TaskOf[job]] = job  BY <1>1, <2>1, CallsAssumption DEF FutureInv, JobInv
  <2>3. done' = done \cup {job} /\ job' = NoCall /\ UNCHANGED <<queue, call, pending, reply>>
    BY <1>11, <2>1, <2>2, CallsAssumption DEF JobRaises, Finish, queueVars
  <2> QED  BY <2>1, <2>3, JobOverKeeps
<1> QED  BY <1>4, <1>5, <1>6, <1>7, <1>8, <1>9, <1>10, <1>11 DEF WorkerStep

LEMMA CallNext == ASSUME OneFollowUp PROVE BaseInv /\ CallInv /\ [Next]_vars => CallInv'
<1> SUFFICES ASSUME BaseInv, CallInv, [Next]_vars PROVE CallInv'
  OBVIOUS
<1>1. CASE \E c \in Calls : Accept(c) \/ Refuse(c) \/ Return(c) \/ Cancel(c)
  BY <1>1, AcceptKeeps, CallKeeps
<1>2. CASE WorkerStep  BY <1>2, WorkerKeeps
<1>3. ASSUME NEW s \in Subtasks, NEW outcome, Callback(s, outcome) PROVE CallInv'
  <2>1. UNCHANGED <<callVars, job>>  BY <1>3 DEF Callback, workerVars
  <2>2. CASE UNCHANGED queue  BY <2>1, <2>2, OwnEntryKeeps
  <2>3. CASE ~UNCHANGED queue
    <3>1. /\ Tracker!Collect(s, outcome)
          /\ Queue!Enqueue(SynthesisEntry(subtask_to_parent[s]),
                           [priority |-> "escalation", from_agent |-> Self])
      BY <1>3, <2>3 DEF Callback, queueVars
    <3>2. subtask_to_parent[s] \in Tasks
      BY <3>1, BaseParts DEF Tracker!Collect, TrackerFacts!TrackerInv, TrackerFacts!TrackerTypeOK
    <3> QED  BY <2>1, <3>1, <3>2, OwnEntries, Entries, OwnEntryKeeps
  <2> QED  BY <2>2, <2>3
<1>4. CASE TickStarts \/ TickRaises \/ TickDelegated \/ Midnight
  <2>1. UNCHANGED <<callVars, job, queue>>
    BY <1>4 DEF TickStarts, TickRaises, TickDelegated, Midnight, workerVars, queueVars
  <2> QED  BY <2>1, OwnEntryKeeps
<1>5. ASSUME NEW cost, TickReturns(cost) PROVE CallInv'
  <2>1. UNCHANGED <<callVars, job>>  BY <1>5 DEF TickReturns, workerVars
  <2>2. CASE UNCHANGED queue  BY <2>1, <2>2, OwnEntryKeeps
  <2>3. CASE ~UNCHANGED queue
    <3>1. Queue!Enqueue(InitiativeEntry, [priority |-> "normal", from_agent |-> Self])
      BY <1>5, <2>3 DEF TickReturns, DecidesNothing, DecidesSelfTask, DecidesDelegate,
                        DecidesGibberish, queueVars
    <3> QED  BY <2>1, <3>1, OwnEntries, Entries, OwnEntryKeeps
  <2> QED  BY <2>2, <2>3
<1>6. CASE UNCHANGED vars
  <2>1. UNCHANGED <<callVars, job, queue>>  BY <1>6 DEF vars, workerVars, queueVars
  <2> QED  BY <2>1, OwnEntryKeeps
<1> QED  BY <1>1, <1>2, <1>3, <1>4, <1>5, <1>6 DEF Next

THEOREM CallInvariant == ASSUME OneFollowUp PROVE Spec => []CallInv
BY CallInit, CallNext, BaseInvariant, PTL DEF Spec

(* A waiting call is never forgotten, whatever fails or is cancelled.      *)
THEOREM CallsNotOrphaned == ASSUME OneFollowUp PROVE Spec => []NoOrphanedCall
<1>1. CallInv => NoOrphanedCall  BY DEF CallInv
<1> QED  BY <1>1, CallInvariant, PTL

(* The worker finds a future for every message it takes from the queue.    *)
THEOREM MessagesFindFutures == ASSUME OneFollowUp PROVE Spec => []MessagesHaveFutures
<1>1. ASSUME BaseInv, CallInv PROVE MessagesHaveFutures
  <2> SUFFICES ASSUME NEW i \in DOMAIN queue, queue[i].task_id[1] = "task"
               PROVE  PendingCall(queue[i].task_id) # NoCall
    BY DEF MessagesHaveFutures
  <2>1. PICK t \in Tasks : queue[i].task_id = TaskEntry(t)  BY <1>1, EntryIdOf DEF BaseInv
  <2>2. pending[t] # NoCall  BY <1>1, <2>1 DEF CallInv, EntryInv
  <2> QED  BY <2>1, <2>2 DEF PendingCall, TaskEntry
<1> QED  BY <1>1, BaseInvariant, CallInvariant, PTL
-----------------------------------------------------------------------------
(* Without cancel requests, what a step tells the sender of a message.     *)
Uncanceled == \A c \in Calls : call[c] # "canceled"

LEMMA UncanceledAlways == ASSUME MayCancel = {} PROVE Spec => []Uncanceled
<1>1. Init => Uncanceled  BY DEF Init, Uncanceled
<1>2. BaseInv /\ Uncanceled /\ [Next]_vars => Uncanceled'
  <2> SUFFICES ASSUME BaseInv, Uncanceled, [Next]_vars PROVE Uncanceled'
    OBVIOUS
  <2>1. call \in [Calls -> {"idle", "awaiting", "returned", "canceled"}]
    BY BaseParts DEF CallTypes
  <2>2. CASE \E c \in Calls : Accept(c) \/ Refuse(c) \/ Return(c) \/ Cancel(c)
    BY <2>1, <2>2 DEF Uncanceled, Accept, Refuse, Return, Cancel
  <2>3. CASE UNCHANGED call  BY <2>3 DEF Uncanceled
  <2> QED
    BY <2>2, <2>3 DEF Next, vars, callVars, WorkerStep, WorkerWaits, WorkerSkips, WorkerRejects,
       WorkerStarts, ClaudeReturns, NoticeEnds, NoPeer, PeerReceives, PeerAnswers,
       PeerAnswersNoId, JobRaises, Callback, TickStarts, TickReturns, TickRaises, TickDelegated, Midnight
<1> QED  BY <1>1, <1>2, BaseInvariant, PTL DEF Spec

Silent == UNCHANGED reply /\ \A c \in Calls : call'[c] = "idle" <=> call[c] = "idle"
Tells(c, r) ==
  call[c] = "awaiting" /\ reply[c] = "none" /\ UNCHANGED call /\ reply' = [reply EXCEPT ![c] = r]

LEMMA WhatIsTold ==
  ASSUME MayCancel = {}, BaseInv, CallInv, Uncanceled, [Next]_vars
  PROVE  \/ Silent
         \/ \E c \in Calls :
              Accept(c) \/ Refuse(c) \/ Tells(c, "completed") \/ Tells(c, "working")
<1> DEFINE Told1 == \E c \in Calls : Tells(c, "completed") \/ Tells(c, "working")
<1>1. CallTypes /\ WorkerTypes /\ DoneInv /\ JobInv /\ EntryInv /\ FutureInv
  BY BaseParts DEF CallInv
<1>3. UNCHANGED callVars => Silent  BY DEF Silent, callVars
<1>4. \A c \in Calls : call[c] \in Open /\ Unresolved(c) =>
                          call[c] = "awaiting" /\ reply[c] = "none"
  BY <1>1 DEF Uncanceled, Open, Unresolved, DoneInv
<1>5. wpc # "dequeue" => job \in Calls /\ call[job] = "awaiting" /\ reply[job] = "none"
  BY <1>1, <1>4, CallsAssumption DEF WorkerTypes, JobInv
<1>6. ASSUME wpc # "dequeue", NEW r \in {"completed", "working"}, FinishWith(job, r), UNCHANGED call
      PROVE  Told1
  BY <1>5, <1>6 DEF FinishWith, Tells
<1>7. ASSUME wpc # "dequeue", NEW want, Continue(want), UNCHANGED call
      PROVE  Silent \/ Told1
  <2>1. CASE want = "answer"  BY <1>6, <1>7, <2>1 DEF Continue
  <2>2. CASE want # "answer"  BY <1>7, <2>2 DEF Continue, Silent
  <2> QED  BY <2>1, <2>2
<1>8. ASSUME NEW c \in Calls, Accept(c) \/ Refuse(c) \/ Return(c) \/ Cancel(c)
      PROVE  Silent \/ Accept(c) \/ Refuse(c)
  <2>1. CASE Return(c)  BY <1>1, <2>1 DEF Return, Silent, CallTypes
  <2> QED  BY <1>8, <2>1 DEF Cancel
<1>9. ASSUME WorkerStep PROVE Silent \/ Told1
  <2>1. CASE WorkerWaits \/ \E i \in DOMAIN queue : WorkerSkips(i) \/ WorkerStarts(i)
    BY <1>3, <2>1 DEF WorkerWaits, WorkerSkips, WorkerStarts
  <2>2. ASSUME NEW i \in DOMAIN queue, WorkerRejects(i) PROVE Told1
    <3>1. PICK c \in Calls : c = PendingCall(queue[i].task_id)
      BY <2>2, EntryIdOf DEF WorkerRejects, BaseInv
    <3>2. PICK t \in Tasks : queue[i].task_id = TaskEntry(t)
      <4>1. queue[i].task_id[1] = "task"  BY <2>2 DEF PendingCall, WorkerRejects
      <4> QED  BY <4>1, EntryIdOf DEF BaseInv
    <3>3. c = pending[t]  BY <3>1, <3>2 DEF PendingCall, TaskEntry
    <3>4. call[c] = "awaiting" /\ reply[c] = "none"
      BY <1>1, <1>4, <3>2, <3>3 DEF EntryInv, FutureInv
    <3> QED  BY <2>2, <3>1, <3>4 DEF WorkerRejects, FinishWith, Tells
  <2>3. ASSUME NEW cost, NEW want, ClaudeReturns(cost, want) PROVE Silent \/ Told1
    <3>1. CASE Continue(want)  BY <1>7, <2>3, <3>1 DEF ClaudeReturns
    <3>2. CASE ~Continue(want)  BY <2>3, <3>2 DEF ClaudeReturns, Silent
    <3> QED  BY <3>1, <3>2
  <2>4. CASE NoticeEnds  BY <1>7, <2>4 DEF NoticeEnds
  <2>5. CASE NoPeer \/ PeerAnswers \/ PeerAnswersNoId
    BY <1>6, <2>5 DEF NoPeer, PeerAnswers, PeerAnswersNoId
  <2>6. CASE \E s \in Subtasks : PeerReceives(s)  BY <1>3, <2>6 DEF PeerReceives
  <2>7. CASE JobRaises  BY <2>7 DEF JobRaises, Silent
  <2> HIDE DEF Told1
  <2> QED  BY <1>9, <2>1, <2>2, <2>3, <2>4, <2>5, <2>6, <2>7 DEF WorkerStep
<1>10. CASE \/ TickStarts \/ TickRaises \/ TickDelegated \/ Midnight
            \/ \E cost \in 0..InitiativeMax : TickReturns(cost)
            \/ \E s \in Subtasks, outcome \in {"completed", "failed"} : Callback(s, outcome)
  BY <1>3, <1>10 DEF TickStarts, TickRaises, TickDelegated, Midnight, TickReturns, Callback
<1>11. CASE UNCHANGED vars  BY <1>3, <1>11 DEF vars
<1> QED  BY <1>8, <1>9, <1>10, <1>11 DEF Next
(* The safety of TaskService, whatever fails: a message is refused at once *)
(* or accepted, an accepted one is answered at most once, and no answer is *)
(* taken back.                                                             *)
Told == [c \in Calls |-> IF call[c] = "idle" THEN "nothing"
                         ELSE IF reply[c] = "none" THEN "accepted" ELSE reply[c]]

THEOREM AnsweredOnce ==
  ASSUME OneFollowUp, MayCancel = {}
  PROVE  Spec => Service!Init /\ [][Service!Next]_Told
<1>1. Init => Service!Init  BY DEF Init, Service!Init
<1>2. BaseInv /\ CallInv /\ Uncanceled /\ [Next]_vars => [Service!Next]_Told
  <2> SUFFICES ASSUME BaseInv, CallInv, Uncanceled, [Next]_vars PROVE Service!Next \/ Told' = Told
    OBVIOUS
  <2>1. CallTypes /\ DoneInv  BY BaseParts DEF CallInv
  <2>2. CASE Silent  BY <2>2 DEF Silent, Told
  <2>3. ASSUME NEW c \in Calls, Accept(c) PROVE Service!Accept(c)
    <3>1. /\ call[c] = "idle" /\ call' = [call EXCEPT ![c] = "awaiting"]
          /\ reply[c] = "none" /\ reply' = reply
      BY <2>1, <2>3 DEF Accept, Delivered, DoneInv
    <3> QED  BY <2>1, <3>1 DEF Service!Accept, CallTypes
  <2>4. ASSUME NEW c \in Calls, Refuse(c) PROVE Service!Refuse(c)
    <3>1. /\ call[c] = "idle" /\ call' = [call EXCEPT ![c] = "returned"]
          /\ reply' = [reply EXCEPT ![c] = "failed"]
      BY <2>1, <2>4 DEF Refuse, Delivered
    <3> QED  BY <2>1, <3>1 DEF Service!Refuse, CallTypes
  <2>5. ASSUME NEW c \in Calls, NEW r \in {"completed", "working"}, Tells(c, r)
        PROVE  Service!Answer(c)
    BY <2>1, <2>5 DEF Tells, Service!Answer, Service!Answers, CallTypes
  <2>6. \A c \in Calls : Service!Accept(c) \/ Service!Refuse(c) \/ Service!Answer(c) => Service!Next
    BY DEF Service!Next
  <2> QED  BY <2>2, <2>3, <2>4, <2>5, <2>6, WhatIsTold
<1> QED  BY <1>1, <1>2, BaseInvariant, CallInvariant, UncanceledAlways, PTL DEF Spec
-----------------------------------------------------------------------------
(* The queue inside the agent is the one of TaskQueueProofs.               *)
LEMMA SameQueue ==
  /\ Queue!Init <=> QueueFacts!Init
  /\ Queue!Next <=> QueueFacts!Next
  /\ Queue!TypeOK <=> QueueFacts!TypeOK
  /\ Queue!NoLostWakeup <=> QueueFacts!NoLostWakeup
<1> USE DEF Queue!ESCALATION, QueueFacts!ESCALATION, Queue!FROM_SUPERIOR,
     QueueFacts!FROM_SUPERIOR, Queue!CONSULTATION, QueueFacts!CONSULTATION, Queue!BROADCAST,
     QueueFacts!BROADCAST, Queue!TaskPriority, QueueFacts!TaskPriority, Queue!Metadata,
     QueueFacts!Metadata, Queue!QueuedTask, QueueFacts!QueuedTask, Queue!ConsumerStates,
     QueueFacts!ConsumerStates, Queue!Waiting, QueueFacts!Waiting, Queue!Notified,
     QueueFacts!Notified
<1>1. Queue!Init <=> QueueFacts!Init
  BY DEF Queue!Init, QueueFacts!Init
<1>2. Queue!TypeOK <=> QueueFacts!TypeOK
  BY DEF Queue!TypeOK, QueueFacts!TypeOK
<1>3. Queue!NoLostWakeup <=> QueueFacts!NoLostWakeup
  BY DEF Queue!NoLostWakeup, QueueFacts!NoLostWakeup, Queue!Cardinality, QueueFacts!Cardinality,
       Queue!IsFiniteSet, QueueFacts!IsFiniteSet
<1>4. Queue!Next <=> QueueFacts!Next
  BY DEF Queue!Next, QueueFacts!Next, Queue!Enqueue, QueueFacts!Enqueue, Queue!SizeAllowed,
       QueueFacts!SizeAllowed, Queue!Notify, QueueFacts!Notify, Queue!ClassifyPriority,
       QueueFacts!ClassifyPriority, Queue!Dequeue, QueueFacts!Dequeue, Queue!Wait,
       QueueFacts!Wait, Queue!Pop, QueueFacts!Pop, Queue!HeapTop, QueueFacts!HeapTop,
       Queue!RemoveAt, QueueFacts!RemoveAt
<1> QED BY <1>1, <1>2, <1>3, <1>4

(* Whatever the agent does, its queue takes a step of TaskQueue or none.   *)
LEMMA QueueMoves == BaseInv /\ [Next]_vars => [Queue!Next]_queueVars
<1> SUFFICES ASSUME BaseInv, [Next]_vars, ~UNCHANGED queueVars PROVE Queue!Next
  OBVIOUS
<1>1. ASSUME NEW id \in EntryIds, NEW md \in Queue!Metadata, Queue!Enqueue(id, md)
      PROVE  Queue!Next
  BY <1>1 DEF Queue!Next
<1>2. ASSUME Queue!Dequeue(Worker) PROVE Queue!Next
  BY <1>2 DEF Queue!Next
<1>3. ASSUME NEW c \in Calls, Accept(c) \/ Refuse(c) \/ Return(c) \/ Cancel(c)
      PROVE  Queue!Next
  <2>1. Accept(c)
    BY <1>3 DEF Refuse, Return, Cancel
  <2>2. TaskEntry(TaskOf[c]) \in EntryIds
    BY Settings DEF TaskEntry, EntryIds
  <2> QED  BY <1>1, <2>1, <2>2, Settings DEF Accept
<1>4. CASE WorkerStep
  <2>1. ~\E cost \in 0..PerTaskMax, want \in {"answer", "delegate"} : ClaudeReturns(cost, want)
    BY DEF ClaudeReturns
  <2>2. ~\E s \in Subtasks : PeerReceives(s)
    BY DEF PeerReceives
  <2>3. ~NoticeEnds /\ ~NoPeer /\ ~PeerAnswers /\ ~PeerAnswersNoId /\ ~JobRaises
    BY DEF NoticeEnds, NoPeer, PeerAnswers, PeerAnswersNoId, JobRaises
  <2>4. \/ WorkerWaits
        \/ \E i \in DOMAIN queue : WorkerSkips(i) \/ WorkerRejects(i) \/ WorkerStarts(i)
    BY <1>4, <2>1, <2>2, <2>3 DEF WorkerStep
  <2>5. WorkerWaits => Queue!Wait(Worker)
    BY DEF WorkerWaits
  <2>6. \A i \in DOMAIN queue :
          WorkerSkips(i) \/ WorkerRejects(i) \/ WorkerStarts(i) => Queue!Pop(Worker, i)
    BY DEF WorkerSkips, WorkerRejects, WorkerStarts
  <2> QED  BY <1>2, <2>4, <2>5, <2>6 DEF Queue!Dequeue
<1>5. ASSUME NEW s \in Subtasks, NEW outcome \in {"completed", "failed"}, Callback(s, outcome)
      PROVE  Queue!Next
  <2>1. /\ Tracker!Collect(s, outcome)
        /\ Queue!Enqueue(SynthesisEntry(subtask_to_parent[s]),
                         [priority |-> "escalation", from_agent |-> Self])
    BY <1>5 DEF Callback
  <2>2. subtask_to_parent[s] \in Tasks
    BY <2>1, BaseParts DEF Tracker!Collect, TrackerFacts!TrackerInv, TrackerFacts!TrackerTypeOK
  <2> QED  BY <1>1, <2>1, <2>2, OwnEntries
<1>6. ASSUME NEW cost, TickReturns(cost) PROVE Queue!Next
  <2>1. Queue!Enqueue(InitiativeEntry, [priority |-> "normal", from_agent |-> Self])
    BY <1>6 DEF TickReturns, DecidesNothing, DecidesSelfTask, DecidesDelegate, DecidesGibberish
  <2> QED  BY <1>1, <2>1, OwnEntries
<1>7. ~TickStarts /\ ~TickRaises /\ ~TickDelegated /\ ~Midnight /\ ~UNCHANGED vars
  BY DEF TickStarts, TickRaises, TickDelegated, Midnight, vars
<1> QED  BY <1>3, <1>4, <1>5, <1>6, <1>7 DEF Next

LEMMA QueueSteps ==
  /\ Init => QueueFacts!Init
  /\ BaseInv /\ [Next]_vars => QueueFacts!TypeOK /\ [QueueFacts!Next]_(QueueFacts!vars)
BY QueueMoves, SameQueue, BaseParts DEF Init, queueVars, QueueFacts!vars

(* The worker is never left waiting with a message in the queue: of all    *)
(* that touches the queue -- messages, callbacks, the initiative loop and  *)
(* the worker itself -- nothing loses a wake-up.                           *)
THEOREM WorkerNotStranded == Spec => []Queue!NoLostWakeup
<1>1. Init => QueueFacts!NoLostWakeup
  BY QueueSteps, QueueSettings, QueueFacts!WakeupInit DEF QueueFacts!WakeupInit
<1>2. BaseInv /\ QueueFacts!NoLostWakeup /\ [Next]_vars => QueueFacts!NoLostWakeup'
  BY QueueSteps, QueueSettings, QueueFacts!WakeupNext DEF QueueFacts!WakeupNext
<1>3. QueueFacts!NoLostWakeup => Queue!NoLostWakeup
  BY SameQueue
<1> QED  BY <1>1, <1>2, <1>3, BaseInvariant, PTL DEF Spec

(* The inbox that the agent's queue implements, under both names.          *)
LEMMA SameInbox ==
  /\ QueueFacts!Inbox!Init => Queue!Inbox!Init
  /\ [QueueFacts!Inbox!Next]_(QueueFacts!Inbox!vars) => [Queue!Inbox!Next]_(Queue!Inbox!vars)
<1> DEFINE L == [p \in Queue!TaskPriority |-> Queue!LaneOf(p)]
           M == [p \in QueueFacts!TaskPriority |-> QueueFacts!LaneOf(p)]
<1>1. Queue!TaskPriority = QueueFacts!TaskPriority /\ Queue!Metadata = QueueFacts!Metadata
  BY DEF Queue!TaskPriority, QueueFacts!TaskPriority, Queue!Metadata, QueueFacts!Metadata,
       Queue!ESCALATION, QueueFacts!ESCALATION, Queue!FROM_SUPERIOR, QueueFacts!FROM_SUPERIOR,
       Queue!CONSULTATION, QueueFacts!CONSULTATION, Queue!BROADCAST, QueueFacts!BROADCAST
<1>2. \A p : Queue!LaneOf(p) = QueueFacts!LaneOf(p) /\ Queue!LaneOf(p)' = QueueFacts!LaneOf(p)'
  BY DEF Queue!LaneOf, QueueFacts!LaneOf
<1>3. L = M /\ L' = M'
  BY <1>1, <1>2
<1>4. QueueFacts!Inbox!Init => Queue!Inbox!Init
  BY <1>3 DEF QueueFacts!Inbox!Init, Queue!Inbox!Init, QueueFacts!Inbox!Urgencies,
       Queue!Inbox!Urgencies
<1>5. UNCHANGED QueueFacts!Inbox!vars => UNCHANGED Queue!Inbox!vars
  BY <1>3 DEF QueueFacts!Inbox!vars, Queue!Inbox!vars
<1>6. \A id, md : QueueFacts!Inbox!Post(id, md) => Queue!Inbox!Post(id, md)
  BY <1>1, <1>3 DEF QueueFacts!Inbox!Post, Queue!Inbox!Post, QueueFacts!Inbox!Backlog,
       Queue!Inbox!Backlog, QueueFacts!Inbox!Urgency, Queue!Inbox!Urgency,
       QueueFacts!Inbox!Escalated, Queue!Inbox!Escalated, QueueFacts!Inbox!FromSuperior,
       Queue!Inbox!FromSuperior, QueueFacts!Inbox!Broadcast, Queue!Inbox!Broadcast
<1>7. \A c : /\ QueueFacts!Inbox!Ask(c) => Queue!Inbox!Ask(c)
             /\ QueueFacts!Inbox!Take(c) => Queue!Inbox!Take(c)
  BY <1>3 DEF QueueFacts!Inbox!Ask, Queue!Inbox!Ask, QueueFacts!Inbox!Take, Queue!Inbox!Take,
       QueueFacts!Inbox!Empty, Queue!Inbox!Empty, QueueFacts!Inbox!Urgencies,
       Queue!Inbox!Urgencies
<1>8. QueueFacts!Inbox!Next => Queue!Inbox!Next
  <2>1. ASSUME NEW id \in EntryIds, NEW md \in Queue!Metadata, QueueFacts!Inbox!Post(id, md)
        PROVE  Queue!Inbox!Next
    BY <1>6, <2>1 DEF Queue!Inbox!Next
  <2>2. ASSUME NEW c \in {Worker}, QueueFacts!Inbox!Ask(c) \/ QueueFacts!Inbox!Take(c)
        PROVE  Queue!Inbox!Next
    <3>1. Queue!Inbox!Ask(c) \/ Queue!Inbox!Take(c)
      BY <1>7, <2>2
    <3> QED  BY <3>1 DEF Queue!Inbox!Next
  <2> QED  BY <1>1, <2>1, <2>2 DEF QueueFacts!Inbox!Next
<1> QED  BY <1>4, <1>5, <1>8

(* The agent serves its inbox by urgency and, within one kind of sender,   *)
(* first come first served, whoever puts entries in it; it never holds     *)
(* more than max_backlog of them.                                          *)
THEOREM InboxServed == Spec => Queue!Inbox!Init /\ [][Queue!Inbox!Next]_(Queue!Inbox!vars)
<1>1. QueueFacts!Init => QueueFacts!Inbox!Init
  BY QueueSettings, QueueFacts!InboxInit DEF QueueFacts!InboxInit
<1>2. QueueFacts!TypeOK /\ [QueueFacts!Next]_(QueueFacts!vars)
        => [QueueFacts!Inbox!Next]_(QueueFacts!Inbox!vars)
  BY QueueSettings, QueueFacts!InboxStep DEF QueueFacts!InboxStep
<1>3. Init => Queue!Inbox!Init
  BY <1>1, QueueSteps, SameInbox
<1>4. BaseInv /\ [Next]_vars => [Queue!Inbox!Next]_(Queue!Inbox!vars)
  BY <1>2, QueueSteps, SameInbox
<1> QED  BY <1>3, <1>4, BaseInvariant, PTL DEF Spec
-----------------------------------------------------------------------------
(* Whatever the agent does, its tracker takes a step of SubtaskTracker or  *)
(* none; in particular it registers a subtask only once.                   *)
LEMMA TrackerMoves == BaseInv /\ [Next]_vars => [Tracker!TrackerNext]_(Tracker!trackerVars)
<1> SUFFICES ASSUME BaseInv, [Next]_vars, ~UNCHANGED trackerVars PROVE Tracker!TrackerNext
  BY DEF trackerVars, Tracker!trackerVars
<1>1. CASE PeerAnswers \/ PeerAnswersNoId
  <2>1. wpc = "send" /\ WorkerTypes /\ SendInv /\ Tracker!RegisterSubtask(TaskOf[job], sending)
    BY <1>1, BaseParts DEF PeerAnswers, PeerAnswersNoId
  <2>2. sending \in Subtasks /\ sending \notin Recorded /\ job \in Calls
    BY <2>1 DEF WorkerTypes, SendInv
  <2>3. Tracker!Fresh(sending) /\ TaskOf[job] \in Tasks
    BY <2>2, Settings DEF Tracker!Fresh, Recorded
  <2> QED  BY <2>1, <2>2, <2>3 DEF Tracker!TrackerNext
<1>2. ASSUME NEW s \in Subtasks, NEW outcome \in {"completed", "failed"}, Callback(s, outcome)
      PROVE  Tracker!TrackerNext
  <2>1. Tracker!HandleCallback(s, outcome)
    BY <1>2 DEF Callback, Tracker!HandleCallback
  <2> QED  BY <2>1 DEF Tracker!TrackerNext, Tracker!Outcomes
<1>3. ~\E c \in Calls : Accept(c) \/ Refuse(c) \/ Return(c) \/ Cancel(c)
  BY DEF Accept, Refuse, Return, Cancel
<1>4. WorkerStep => PeerAnswers \/ PeerAnswersNoId
  <2>1. \A i \in DOMAIN queue : ~WorkerSkips(i) /\ ~WorkerRejects(i) /\ ~WorkerStarts(i)
    BY DEF WorkerSkips, WorkerRejects, WorkerStarts
  <2>2. \A cost, want : ~ClaudeReturns(cost, want)
    BY DEF ClaudeReturns
  <2>3. ~WorkerWaits /\ ~NoticeEnds /\ ~NoPeer /\ ~JobRaises /\ \A s : ~PeerReceives(s)
    BY DEF WorkerWaits, NoticeEnds, NoPeer, JobRaises, PeerReceives
  <2> QED  BY <2>1, <2>2, <2>3 DEF WorkerStep
<1>5. ~TickStarts /\ ~TickRaises /\ ~TickDelegated /\ ~Midnight /\ ~UNCHANGED vars
      /\ \A cost : ~TickReturns(cost)
  BY DEF TickStarts, TickReturns, TickRaises, TickDelegated, Midnight, vars
<1> QED  BY <1>1, <1>2, <1>3, <1>4, <1>5 DEF Next

(* The tracker and the fan-out it implements, under both names.            *)
LEMMA SameTracker ==
  /\ Tracker!TrackerSpec => TrackerFacts!TrackerSpec
  /\ TrackerFacts!ImplementsFanOut => Tracker!ImplementsFanOut
<1> USE DEF Tracker!InfosOf, TrackerFacts!InfosOf, Tracker!Marked, TrackerFacts!Marked,
     Tracker!Ready, TrackerFacts!Ready, Tracker!Outcomes, TrackerFacts!Outcomes,
     Tracker!NoInfos, TrackerFacts!NoInfos
<1>1. Tracker!TrackerInit => TrackerFacts!TrackerInit
  BY DEF Tracker!TrackerInit, TrackerFacts!TrackerInit
<1>2. [Tracker!TrackerNext]_(Tracker!trackerVars)
        => [TrackerFacts!TrackerNext]_(TrackerFacts!trackerVars)
  BY DEF Tracker!TrackerNext, TrackerFacts!TrackerNext, Tracker!trackerVars,
       TrackerFacts!trackerVars, Tracker!Fresh, TrackerFacts!Fresh, Tracker!RegisterSubtask,
       TrackerFacts!RegisterSubtask, Tracker!HandleCallback, TrackerFacts!HandleCallback,
       Tracker!Ignore, TrackerFacts!Ignore, Tracker!Note, TrackerFacts!Note, Tracker!Collect,
       TrackerFacts!Collect, Tracker!Cleanup, TrackerFacts!Cleanup
<1> DEFINE T == [s \in Subtasks |-> Tracker!StageOf(s)]
           F == [s \in Subtasks |-> TrackerFacts!StageOf(s)]
<1>3. T = F /\ T' = F'
  BY DEF Tracker!StageOf, TrackerFacts!StageOf
<1>4. TrackerFacts!Delegation!Init => Tracker!Delegation!Init
  BY <1>3 DEF Tracker!Delegation!Init, TrackerFacts!Delegation!Init
<1>5. \A p, s : TrackerFacts!Delegation!HandOut(p, s) => Tracker!Delegation!HandOut(p, s)
  BY <1>3 DEF Tracker!Delegation!HandOut, TrackerFacts!Delegation!HandOut
<1>6. \A s, outcome :
        TrackerFacts!Delegation!Report(s, outcome) => Tracker!Delegation!Report(s, outcome)
  <2>1. \A s : TrackerFacts!Delegation!Siblings(s) = Tracker!Delegation!Siblings(s)
    BY DEF Tracker!Delegation!Siblings, TrackerFacts!Delegation!Siblings
  <2> HIDE DEF T, F
  <2>2. ASSUME NEW s, NEW outcome, TrackerFacts!Delegation!Report(s, outcome)
        PROVE  Tracker!Delegation!Report(s, outcome)
    <3>1. CASE \E r \in Tracker!Delegation!Siblings(s) : T[r] = "pending"
      BY <1>3, <2>1, <2>2, <3>1
         DEF Tracker!Delegation!Report, TrackerFacts!Delegation!Report, T, F
    <3>2. CASE ~\E r \in Tracker!Delegation!Siblings(s) : T[r] = "pending"
      BY <1>3, <2>1, <2>2, <3>2
         DEF Tracker!Delegation!Report, TrackerFacts!Delegation!Report, T, F
    <3> QED  BY <3>1, <3>2
  <2> QED  BY <2>2
<1>7. UNCHANGED TrackerFacts!Delegation!vars => UNCHANGED Tracker!Delegation!vars
  BY <1>3 DEF Tracker!Delegation!vars, TrackerFacts!Delegation!vars
<1>8. [TrackerFacts!Delegation!Next]_(TrackerFacts!Delegation!vars)
        => [Tracker!Delegation!Next]_(Tracker!Delegation!vars)
  BY <1>5, <1>6, <1>7 DEF Tracker!Delegation!Next, TrackerFacts!Delegation!Next,
       Tracker!Delegation!Outcomes, TrackerFacts!Delegation!Outcomes
<1> QED  BY <1>1, <1>2, <1>4, <1>8, PTL DEF Tracker!TrackerSpec, TrackerFacts!TrackerSpec,
     Tracker!ImplementsFanOut, TrackerFacts!ImplementsFanOut, Tracker!Delegation!Spec,
     TrackerFacts!Delegation!Spec

(* In the running agent too the results of a parent's subtasks are         *)
(* delivered together and once, whatever callbacks come late or twice.     *)
THEOREM FanOutKept == Spec => Tracker!ImplementsFanOut
<1>1. Init => Tracker!TrackerInit  BY DEF Init
<1>2. Spec => Tracker!TrackerSpec
  BY <1>1, TrackerMoves, BaseInvariant, PTL DEF Spec, Tracker!TrackerSpec
<1>3. TrackerFacts!TrackerSpec => TrackerFacts!ImplementsFanOut
  BY CallsAssumption, TrackerFacts!TrackerRefines DEF TrackerFacts!TrackerRefines
<1> QED  BY <1>2, <1>3, SameTracker, PTL
-----------------------------------------------------------------------------
(* The subtasks in the peers' hands.  A message that has been delegated is *)
(* neither in the queue any more nor in the worker's hands, but for the    *)
(* moment between the peer's receipt and its answer; and a message that    *)
(* was cancelled before its answer has been told so and nothing else.      *)
Ahead(c) == Queued(c) /\ pending[TaskOf[c]] = c
HandedInv == \A s \in Subtasks : sentFor[s] # NoCall =>
  /\ call[sentFor[s]] # "idle" /\ ~Ahead(sentFor[s])
  /\ job = sentFor[s] => wpc = "send" /\ sending = s
CanceledInv == \A c \in Calls :
  call[c] = "canceled" /\ (job = c \/ Ahead(c)) => reply[c] = "canceled"
DelegationInv == HandedInv /\ CanceledInv /\ DelegationsAccounted

(* A step that hands nothing to a peer: what becomes of the worker's job,  *)
Registers == \E s \in Subtasks : s = sending /\ Traced(s)'
JobMoves ==
  \/ UNCHANGED <<wpc, job, sending>>
  \/ wpc # "send" /\ (job' \in {job, NoCall} \/ \E d \in Calls : job' = d /\ Ahead(d))
  \/ wpc = "send" /\ job' = NoCall /\ (Registers \/ (job \in done' /\ UNCHANGED reply))
(* and of a call, and of what its sender was told.                         *)
CallMoves(d) ==
  /\ call[d] # "idle" => call'[d] # "idle"
  /\ call'[d] = "canceled" => call[d] = "canceled" \/ reply'[d] = "canceled"
  /\ Ahead(d)' => Ahead(d) \/ call[d] = "idle"
  /\ d \in done => d \in done'
AnswerMoves(d) ==
  \/ reply'[d] = reply[d]
  \/ reply'[d] = "canceled"
  \/ call[d] = "idle" /\ reply'[d] = "failed"
  \/ /\ job' # d /\ ~Ahead(d)'
     /\ \/ reply'[d] = "completed" /\ (Ahead(d) \/ (job = d /\ wpc # "send"))
        \/ job = d /\ wpc = "send" /\ Registers
HandsOverNothing ==
  UNCHANGED sentFor /\ JobMoves /\ \A d \in Calls : CallMoves(d) /\ AnswerMoves(d)

(* The worker's job has no entry.                                          *)
LEMMA JobNotAhead == BaseInv /\ CallInv /\ job # NoCall => ~Ahead(job)
<1> SUFFICES ASSUME BaseInv, CallInv, job # NoCall, Ahead(job) PROVE FALSE
  OBVIOUS
<1>1. job \in Calls /\ TaskOf[job] \in Tasks  BY BaseParts, Settings DEF WorkerTypes
<1>2. PICK i \in DOMAIN queue : queue[i].task_id = TaskEntry(TaskOf[job])  BY DEF Ahead, Queued
<1> QED  BY <1>1, <1>2 DEF Ahead, CallInv, EntryInv

(* A step that adds an entry of the agent's own at most, and leaves calls  *)
(* and worker alone.                                                       *)
LEMMA QuietMoves ==
  ASSUME UNCHANGED <<sentFor, callVars, wpc, job, sending>>,
         \A d \in Calls : Queued(d)' => Queued(d)
  PROVE  HandsOverNothing
BY DEF HandsOverNothing, JobMoves, CallMoves, AnswerMoves, Ahead, callVars

LEMMA OwnEntriesOnly ==
  ASSUME BaseInv,
         \/ UNCHANGED queue
         \/ \E id \in EntryIds, md \in Queue!Metadata :
              Queue!Enqueue(id, md) /\ \A t \in Tasks : id # TaskEntry(t)
  PROVE  \A d \in Calls : Queued(d)' => Queued(d)
<1>1. CASE UNCHANGED queue  BY <1>1 DEF Queued
<1>2. ASSUME NEW id \in EntryIds, NEW md \in Queue!Metadata, Queue!Enqueue(id, md),
             \A t \in Tasks : id # TaskEntry(t)
      PROVE  \A d \in Calls : Queued(d)' => Queued(d)
  <2>1. /\ DOMAIN queue' = DOMAIN queue \cup {Len(queue) + 1}
        /\ queue'[Len(queue) + 1].task_id = id
        /\ \A j \in DOMAIN queue : queue'[j] = queue[j]
    BY <1>2, Enqueued, BaseParts
  <2> QED  BY <1>2, <2>1, Settings DEF Queued
<1> QED  BY <1>1, <1>2

LEMMA CallStepMoves ==
  ASSUME BaseInv, CallInv, NEW c \in Calls, Accept(c) \/ Refuse(c) \/ Return(c) \/ Cancel(c)
  PROVE  HandsOverNothing
<1>1. UNCHANGED <<wpc, job, sending, sentFor>>
  BY DEF Accept, Refuse, Return, Cancel, workerVars, peerVars
<1>2. CallTypes /\ \A d \in Calls : TaskOf[d] \in Tasks  BY BaseParts, Settings
<1>3. CASE Accept(c)
  <2>1. /\ pending' = [pending EXCEPT ![TaskOf[c]] = c] /\ call[c] = "idle"
        /\ call' = [call EXCEPT ![c] = "awaiting"] /\ UNCHANGED <<done, reply>>
    BY <1>3 DEF Accept, Delivered
  <2>2. ASSUME NEW d \in Calls, d # c, Ahead(d)' PROVE Ahead(d)
    <3>1. TaskOf[d] # TaskOf[c] /\ pending[TaskOf[d]] = d
      BY <1>2, <2>1, <2>2 DEF Ahead, CallTypes
    <3>2. TaskEntry(TaskOf[c]) \in EntryIds  BY <1>2 DEF TaskEntry, EntryIds
    <3>3. /\ DOMAIN queue' = DOMAIN queue \cup {Len(queue) + 1}
          /\ queue'[Len(queue) + 1].task_id = TaskEntry(TaskOf[c])
          /\ \A j \in DOMAIN queue : queue'[j] = queue[j]
      BY <1>3, <3>2, Enqueued, Settings, BaseParts DEF Accept
    <3>4. Queued(d)  BY <1>2, <2>2, <3>1, <3>3, Entries DEF Ahead, Queued
    <3> QED  BY <3>1, <3>4 DEF Ahead
  <2>3. \A d \in Calls : CallMoves(d)
    BY <1>2, <2>1, <2>2 DEF CallMoves, CallTypes
  <2> QED  BY <1>1, <2>1, <2>3 DEF HandsOverNothing, JobMoves, AnswerMoves
<1>4. CASE Refuse(c) \/ Return(c) \/ Cancel(c)
  <2>1. \A d \in Calls : Ahead(d)' => Ahead(d)
    <3>1. UNCHANGED queue /\ \A t \in Tasks : pending'[t] \in {pending[t], NoCall}
      BY <1>2, <1>4 DEF Refuse, Return, Cancel, queueVars, CallTypes
    <3> QED  BY <1>2, <3>1, CallsAssumption DEF Ahead, Queued
  <2>2. \A d \in Calls :
          /\ call[d] # "idle" => call'[d] # "idle"
          /\ call'[d] = "canceled" => call[d] = "canceled" \/ reply'[d] = "canceled"
          /\ d \in done => d \in done'
    BY <1>2, <1>4 DEF Refuse, Return, Cancel, CallTypes
  <2>3. \A d \in Calls : AnswerMoves(d)
    BY <1>2, <1>4 DEF Refuse, Return, Cancel, Delivered, CallTypes, AnswerMoves
  <2> QED  BY <1>1, <2>1, <2>2, <2>3 DEF HandsOverNothing, JobMoves, CallMoves
<1> QED  BY <1>3, <1>4

LEMMA PopMoves ==
  ASSUME BaseInv, CallInv, NEW i \in DOMAIN queue,
         WorkerSkips(i) \/ WorkerRejects(i) \/ WorkerStarts(i)
  PROVE  HandsOverNothing
<1>1. CallTypes /\ WorkerTypes /\ FutureInv /\ \A d \in Calls : TaskOf[d] \in Tasks
  BY BaseParts, Settings DEF CallInv
<1>2. /\ Queue!Pop(Worker, i) /\ wpc = "dequeue" /\ job = NoCall
      /\ UNCHANGED <<call, pending, sentFor>>
  BY <1>1 DEF WorkerSkips, WorkerRejects, WorkerStarts, WorkerTypes, callVars, peerVars
<1>3. \A t \in Tasks, j \in DOMAIN queue' : queue'[j].task_id = TaskEntry(t) =>
        /\ queue[i].task_id # TaskEntry(t)
        /\ \E k \in DOMAIN queue : queue[k].task_id = TaskEntry(t)
  BY <1>2, OthersStay
<1>4. \A d \in Calls : Queued(d)' => Queued(d)  BY <1>1, <1>3 DEF Queued
<1>5. CASE WorkerSkips(i)
  BY <1>2, <1>4, <1>5, QuietMoves DEF WorkerSkips, workerVars
<1>6. CASE WorkerRejects(i) \/ WorkerStarts(i)
  <2>1. PendingCall(queue[i].task_id) # NoCall  BY <1>6 DEF WorkerRejects, WorkerStarts
  <2>2. PICK t \in Tasks : queue[i].task_id = TaskEntry(t)
    <3>1. queue[i].task_id[1] = "task"  BY <2>1 DEF PendingCall
    <3> QED  BY <3>1, EntryIdOf DEF BaseInv
  <2>3. PICK c \in Calls : c = pending[t] /\ c = PendingCall(queue[i].task_id)
    BY <1>1, <2>1, <2>2 DEF PendingCall, TaskEntry, CallTypes
  <2>4. TaskOf[c] = t
    <3>1. pending[t] = c  BY <2>3
    <3>2. \A u \in Tasks : pending[u] # NoCall => TaskOf[pending[u]] = u  BY <1>1 DEF FutureInv
    <3>3. c # NoCall  BY CallsAssumption
    <3> QED  BY <3>1, <3>2, <3>3
  <2>5. Ahead(c)  BY <2>2, <2>3, <2>4 DEF Ahead, Queued
  <2>6. ~Ahead(c)'  BY <1>3, <2>2, <2>4 DEF Ahead, Queued
  <2>7. \A d \in Calls : Ahead(d)' => Ahead(d)  BY <1>2, <1>4 DEF Ahead
  <2>8. CASE WorkerStarts(i)
    <3>1. job' = c /\ UNCHANGED <<done, reply>>  BY <2>3, <2>8 DEF WorkerStarts, callVars
    <3> QED  BY <1>2, <2>5, <2>7, <3>1 DEF HandsOverNothing, JobMoves, CallMoves, AnswerMoves
  <2>9. CASE WorkerRejects(i)
    <3>1. /\ job' = NoCall /\ done' = done \cup {c}
          /\ reply' = [reply EXCEPT ![c] = "completed"]
      BY <2>3, <2>9 DEF WorkerRejects, FinishWith, Finish
    <3>2. \A d \in Calls : AnswerMoves(d)
      BY <1>1, <2>5, <2>6, <3>1, CallsAssumption DEF AnswerMoves, CallTypes
    <3> QED  BY <1>2, <2>7, <3>1, <3>2 DEF HandsOverNothing, JobMoves, CallMoves
  <2> QED  BY <1>6, <2>8, <2>9
<1> QED  BY <1>5, <1>6

LEMMA JobStepMoves ==
  ASSUME BaseInv, CallInv, WorkerStep, wpc # "dequeue"
  PROVE  HandsOverNothing \/ \E s \in Subtasks : PeerReceives(s)
<1>1. CallTypes /\ job \in Calls /\ ~Ahead(job)
  BY BaseParts, JobNotAhead, CallsAssumption DEF WorkerTypes
<1>2. ASSUME UNCHANGED <<queue, call, pending, sentFor>>, job' = NoCall, done' = done \cup {job},
             NEW r, reply' = [reply EXCEPT ![job] = r],
             (wpc # "send" /\ r = "completed") \/ (wpc = "send" /\ Registers)
      PROVE  HandsOverNothing
  <2>1. JobMoves  BY <1>2 DEF JobMoves
  <2>2. \A d \in Calls : Ahead(d)' <=> Ahead(d)  BY <1>2 DEF Ahead, Queued
  <2>3. \A d \in Calls : CallMoves(d)  BY <1>2, <2>2 DEF CallMoves
  <2>4. \A d \in Calls : AnswerMoves(d)
    BY <1>1, <1>2, <2>2, CallsAssumption DEF AnswerMoves, CallTypes
  <2> QED  BY <1>2, <2>1, <2>3, <2>4 DEF HandsOverNothing
<1>3. ASSUME UNCHANGED <<queue, callVars, sentFor, job>>, wpc # "send"
      PROVE  HandsOverNothing
  BY <1>3 DEF HandsOverNothing, JobMoves, CallMoves, AnswerMoves, Ahead, Queued, callVars
<1>4. ASSUME NEW want, Continue(want), wpc # "send", UNCHANGED <<queue, call, pending, sentFor>>
      PROVE  HandsOverNothing
  <2>1. CASE want = "answer"
    <3>1. /\ job' = NoCall /\ done' = done \cup {job}
          /\ reply' = [reply EXCEPT ![job] = "completed"]
      BY <1>4, <2>1 DEF Continue, FinishWith, Finish
    <3> QED  BY <1>2, <1>4, <3>1
  <2>2. CASE want # "answer"
    <3>1. UNCHANGED <<callVars, job>>  BY <1>4, <2>2 DEF Continue, callVars
    <3> QED  BY <1>3, <1>4, <3>1
  <2> QED  BY <2>1, <2>2
<1>5. ASSUME NEW cost, NEW want, ClaudeReturns(cost, want) PROVE HandsOverNothing
  <2>1. wpc # "send" /\ UNCHANGED <<queue, call, pending, sentFor>>
    BY <1>5 DEF ClaudeReturns, queueVars, peerVars
  <2>2. CASE Continue(want)  BY <1>4, <2>1, <2>2
  <2>3. CASE ~Continue(want)
    <3>1. UNCHANGED <<callVars, job>>  BY <1>5, <2>1, <2>3 DEF ClaudeReturns, callVars
    <3> QED  BY <1>3, <2>1, <3>1
  <2> QED  BY <2>2, <2>3
<1>6. CASE NoticeEnds
  <2>1. wpc # "send" /\ UNCHANGED <<queue, call, pending, sentFor>>
    BY <1>6 DEF NoticeEnds, queueVars, peerVars
  <2> QED  BY <1>4, <1>6, <2>1 DEF NoticeEnds
<1>7. CASE NoPeer
  <2>1. /\ wpc # "send" /\ UNCHANGED <<queue, call, pending, sentFor>>
        /\ job' = NoCall /\ done' = done \cup {job}
        /\ reply' = [reply EXCEPT ![job] = "completed"]
    BY <1>7 DEF NoPeer, FinishWith, Finish, queueVars, peerVars
  <2> QED  BY <1>2, <2>1
<1>8. CASE PeerAnswers \/ PeerAnswersNoId
  <2>1. /\ wpc = "send" /\ UNCHANGED <<queue, call, pending, sentFor>>
        /\ job' = NoCall /\ done' = done \cup {job}
        /\ \E r : reply' = [reply EXCEPT ![job] = r]
        /\ Tracker!RegisterSubtask(TaskOf[job], sending)
    BY <1>8 DEF PeerAnswers, PeerAnswersNoId, FinishWith, Finish, queueVars, peerVars
  <2>2. Registers
    <3>1. sending \in Subtasks /\ sentFor[sending] = job
      BY <2>1, BaseParts DEF WorkerTypes, SendInv
    <3>2. subtask_to_parent \in [Subtasks -> Tasks \cup {NoTask}]
      BY BaseParts DEF TrackerFacts!TrackerInv, TrackerFacts!TrackerTypeOK
    <3>3. subtask_to_parent'[sending] = TaskOf[job]
      BY <2>1, <3>1, <3>2 DEF Tracker!RegisterSubtask
    <3> QED  BY <2>1, <3>1, <3>3 DEF Registers, Traced
  <2> QED  BY <1>2, <2>1, <2>2
<1>9. CASE JobRaises
  <2>1. /\ UNCHANGED <<queue, call, pending, sentFor, reply>> /\ job' = NoCall
        /\ job \in done' /\ done \subseteq done'
    BY <1>1, <1>9, CallsAssumption DEF JobRaises, Finish, queueVars, peerVars
  <2> QED
    BY <2>1 DEF HandsOverNothing, JobMoves, CallMoves, AnswerMoves, Ahead, Queued
<1>10. ~WorkerWaits /\ \A i : ~WorkerSkips(i) /\ ~WorkerRejects(i) /\ ~WorkerStarts(i)
  BY DEF WorkerWaits, WorkerSkips, WorkerRejects, WorkerStarts
<1> QED  BY <1>5, <1>6, <1>7, <1>8, <1>9, <1>10 DEF WorkerStep

LEMMA DelegationMoves ==
  ASSUME BaseInv, CallInv, [Next]_vars
  PROVE  HandsOverNothing \/ \E s \in Subtasks : PeerReceives(s)
<1>1. CASE \E c \in Calls : Accept(c) \/ Refuse(c) \/ Return(c) \/ Cancel(c)
  BY <1>1, CallStepMoves
<1>2. CASE WorkerStep
  <2>1. CASE WorkerWaits
    <3>1. UNCHANGED <<sentFor, callVars, wpc, job, sending, queue>>
      BY <2>1 DEF WorkerWaits, workerVars, peerVars, Queue!Wait
    <3> QED  BY <3>1, QuietMoves, OwnEntriesOnly
  <2>2. CASE \E i \in DOMAIN queue : WorkerSkips(i) \/ WorkerRejects(i) \/ WorkerStarts(i)
    BY <2>2, PopMoves
  <2>3. CASE wpc # "dequeue"  BY <1>2, <2>3, JobStepMoves
  <2>4. \/ wpc # "dequeue" \/ WorkerWaits
        \/ \E i \in DOMAIN queue : WorkerSkips(i) \/ WorkerRejects(i) \/ WorkerStarts(i)
    BY <1>2 DEF WorkerStep, ClaudeReturns, NoticeEnds, NoPeer, PeerReceives, PeerAnswers,
         PeerAnswersNoId, JobRaises
  <2> QED  BY <2>1, <2>2, <2>3, <2>4
<1>3. ASSUME NEW s \in Subtasks, NEW outcome, Callback(s, outcome) PROVE HandsOverNothing
  <2>1. UNCHANGED <<sentFor, callVars, wpc, job, sending>>
    BY <1>3 DEF Callback, workerVars, peerVars
  <2>2. CASE UNCHANGED queue  BY <2>1, <2>2, QuietMoves, OwnEntriesOnly
  <2>3. CASE ~UNCHANGED queue
    <3>1. /\ Tracker!Collect(s, outcome)
          /\ Queue!Enqueue(SynthesisEntry(subtask_to_parent[s]),
                           [priority |-> "escalation", from_agent |-> Self])
      BY <1>3, <2>3 DEF Callback, queueVars
    <3>2. subtask_to_parent[s] \in Tasks
      BY <3>1, BaseParts DEF Tracker!Collect, TrackerFacts!TrackerInv, TrackerFacts!TrackerTypeOK
    <3> QED  BY <2>1, <3>1, <3>2, OwnEntries, Entries, QuietMoves, OwnEntriesOnly
  <2> QED  BY <2>2, <2>3
<1>4. CASE TickStarts \/ TickRaises \/ TickDelegated \/ Midnight \/ UNCHANGED vars
  <2>1. UNCHANGED <<sentFor, callVars, wpc, job, sending, queue>>
    BY <1>4 DEF TickStarts, TickRaises, TickDelegated, Midnight, vars, workerVars, queueVars,
         peerVars
  <2> QED  BY <2>1, QuietMoves, OwnEntriesOnly
<1>5. ASSUME NEW cost, TickReturns(cost) PROVE HandsOverNothing
  <2>1. UNCHANGED <<sentFor, callVars, wpc, job, sending>>
    BY <1>5 DEF TickReturns, workerVars, peerVars
  <2>2. CASE UNCHANGED queue  BY <2>1, <2>2, QuietMoves, OwnEntriesOnly
  <2>3. CASE ~UNCHANGED queue
    <3>1. Queue!Enqueue(InitiativeEntry, [priority |-> "normal", from_agent |-> Self])
      BY <1>5, <2>3 DEF TickReturns, DecidesNothing, DecidesSelfTask, DecidesDelegate,
                        DecidesGibberish, queueVars
    <3> QED  BY <2>1, <3>1, OwnEntries, Entries, QuietMoves, OwnEntriesOnly
  <2> QED  BY <2>2, <2>3
<1> QED  BY <1>1, <1>2, <1>3, <1>4, <1>5 DEF Next

(* What has been traced stays so: a subtask leaves the tracker only when   *)
(* its outcome is collected, and what is registered was not known before.  *)
LEMMA TracedStays ==
  ASSUME BaseInv, [Next]_vars, NEW s \in Subtasks, sentFor[s] \in Calls,
         sentFor'[s] = sentFor[s], Traced(s)
  PROVE  Traced(s)'
<1>1. subtask_to_parent \in [Subtasks -> Tasks \cup {NoTask}] /\ TaskOf[sentFor[s]] \in Tasks
  BY BaseParts, Settings DEF TrackerFacts!TrackerInv, TrackerFacts!TrackerTypeOK
<1>2. \/ subtask_to_parent'[s] = subtask_to_parent[s] /\ delivered \subseteq delivered'
      \/ s \in delivered'
  <2>1. CASE UNCHANGED trackerVars  BY <2>1 DEF trackerVars
  <2>2. ASSUME NEW p \in Tasks, NEW r \in Subtasks, Tracker!Fresh(r), Tracker!RegisterSubtask(p, r)
        PROVE  subtask_to_parent'[s] = subtask_to_parent[s] /\ delivered' = delivered
    <3>1. r # s  BY <1>1, <2>2, CallsAssumption DEF Tracker!Fresh, Traced
    <3> QED  BY <1>1, <2>2, <3>1 DEF Tracker!RegisterSubtask
  <2>3. ASSUME NEW r \in Subtasks, NEW outcome, Tracker!HandleCallback(r, outcome)
        PROVE  \/ subtask_to_parent'[s] = subtask_to_parent[s] /\ delivered \subseteq delivered'
               \/ s \in delivered'
    <3>1. CASE Tracker!Ignore(r) \/ Tracker!Note(r, outcome)
      BY <3>1 DEF Tracker!Ignore, Tracker!Note, Tracker!trackerVars
    <3>2. CASE Tracker!Collect(r, outcome)
      BY <3>2 DEF Tracker!Collect, Tracker!Cleanup, Tracker!InfosOf
    <3> QED  BY <2>3, <3>1, <3>2 DEF Tracker!HandleCallback
  <2> QED  BY <2>1, <2>2, <2>3, TrackerMoves DEF Tracker!TrackerNext, Tracker!trackerVars, trackerVars
<1> QED  BY <1>1, <1>2 DEF Traced

LEMMA NothingHandedKeeps ==
  ASSUME BaseInv, CallInv, DelegationInv, [Next]_vars, HandsOverNothing
  PROVE  DelegationInv'
<1>1. /\ UNCHANGED sentFor /\ JobMoves /\ \A d \in Calls : CallMoves(d) /\ AnswerMoves(d)
      /\ HandedInv /\ CanceledInv /\ DelegationsAccounted
  BY DEF HandsOverNothing, DelegationInv
<1>2. sentFor \in [Subtasks -> Calls \cup {NoCall}] /\ job \in Calls \cup {NoCall}
  BY BaseParts DEF WorkerTypes
<1>3. HandedInv'
  <2> SUFFICES ASSUME NEW s \in Subtasks, NEW c \in Calls, sentFor[s] = c
               PROVE  /\ call'[c] # "idle" /\ ~Ahead(c)'
                      /\ job' = c => wpc' = "send" /\ sending' = s
    BY <1>1, <1>2 DEF HandedInv, Ahead, Queued
  <2>1. call[c] # "idle" /\ ~Ahead(c) /\ (job = c => wpc = "send" /\ sending = s)
    BY <1>1, CallsAssumption DEF HandedInv
  <2>2. call'[c] # "idle" /\ ~Ahead(c)'  BY <1>1, <2>1 DEF CallMoves
  <2>3. job' = c => wpc' = "send" /\ sending' = s
    BY <1>1, <2>1, CallsAssumption DEF JobMoves
  <2> QED  BY <2>2, <2>3
<1>4. CanceledInv'
  <2> SUFFICES ASSUME NEW c \in Calls, call'[c] = "canceled", job' = c \/ Ahead(c)'
               PROVE  reply'[c] = "canceled"
    BY DEF CanceledInv
  <2>1. CASE reply'[c] # "canceled"
    <3>1. call[c] = "canceled"  BY <1>1, <2>1 DEF CallMoves
    <3>2. job = c \/ Ahead(c)  BY <1>1, <3>1, CallsAssumption DEF JobMoves, CallMoves
    <3>3. reply'[c] = reply[c]  BY <1>1, <2>1, <3>1 DEF AnswerMoves
    <3> QED  BY <1>1, <3>1, <3>2, <3>3 DEF CanceledInv
  <2> QED  BY <2>1
<1>5. \A s \in Subtasks : sentFor[s] # NoCall /\ Traced(s) => Traced(s)'
  BY <1>1, <1>2, TracedStays
<1>6. DelegationsAccounted'
  <2>1. ASSUME NEW s \in Subtasks, NEW c \in Calls, sentFor[s] = c
        PROVE  UnderWay(s)' \/ Traced(s)' \/ LostWith(c)'
    <3>1. call[c] # "idle" /\ ~Ahead(c) /\ (job = c => wpc = "send" /\ sending = s)
      BY <1>1, <2>1, CallsAssumption DEF HandedInv
    <3>2. UnderWay(s) \/ Traced(s) \/ LostWith(c)
      BY <1>1, <2>1, CallsAssumption DEF DelegationsAccounted
    <3>3. CASE Traced(s)  BY <1>5, <2>1, <3>3, CallsAssumption
    <3>4. CASE LostWith(c)
      <4>1. c \in done'  BY <1>1, <3>4 DEF LostWith, CallMoves
      <4>2. reply'[c] \in {"none", "canceled"} \/ (job = c /\ Registers)
        BY <1>1, <3>1, <3>4 DEF LostWith, AnswerMoves
      <4> QED  BY <3>1, <4>1, <4>2 DEF LostWith, Registers
    <3>5. CASE UnderWay(s)
      <4>1. wpc = "send" /\ sending = s /\ job = c  BY <2>1, <3>5 DEF UnderWay
      <4>2. CASE UNCHANGED <<wpc, job, sending>>  BY <1>1, <2>1, <4>1, <4>2 DEF UnderWay
      <4>3. CASE Registers  BY <4>1, <4>3 DEF Registers
      <4>4. CASE job \in done' /\ UNCHANGED reply
        <5>1. call[c] \in Open /\ Unresolved(c)  BY <4>1, CallsAssumption DEF CallInv, JobInv
        <5>2. reply[c] \in {"none", "canceled"}
          BY <1>1, <4>1, <5>1 DEF CanceledInv, CallInv, DoneInv, Open, Unresolved
        <5> QED  BY <4>1, <4>4, <5>2 DEF LostWith
      <4> QED  BY <1>1, <4>1, <4>2, <4>3, <4>4 DEF JobMoves
    <3> QED  BY <3>2, <3>3, <3>4, <3>5
  <2>2. \A r, s \in Subtasks : sentFor'[r] = sentFor'[s] /\ sentFor'[s] # NoCall => r = s
    BY <1>1 DEF DelegationsAccounted
  <2>3. ASSUME NEW c \in Calls, reply'[c] = "working"
        PROVE  \E s \in Subtasks : sentFor'[s] = c /\ Traced(s)'
    <3>1. reply[c] = "working" \/ (job = c /\ wpc = "send" /\ Registers)
      BY <1>1, <2>3 DEF AnswerMoves
    <3>2. CASE reply[c] = "working"
      BY <1>1, <1>5, <3>2, CallsAssumption DEF DelegationsAccounted
    <3>3. CASE job = c /\ wpc = "send" /\ Registers
      BY <1>1, <3>3, BaseParts DEF Registers, SendInv
    <3> QED  BY <3>1, <3>2, <3>3
  <2> QED  BY <1>1, <1>2, <2>1, <2>2, <2>3 DEF DelegationsAccounted, LostWith
<1> QED  BY <1>3, <1>4, <1>6 DEF DelegationInv

(* The peer receives the request: nothing had been handed over for the job *)
(* before, as the worker has only now come to it.                          *)
LEMMA HandedKeeps ==
  ASSUME BaseInv, CallInv, DelegationInv, [Next]_vars, NEW s \in Subtasks, PeerReceives(s)
  PROVE  DelegationInv'
<1>1. /\ wpc = "discover" /\ sentFor[s] = NoCall /\ sending' = s /\ wpc' = "send"
      /\ sentFor' = [sentFor EXCEPT ![s] = job] /\ UNCHANGED <<queue, callVars, job>>
  BY DEF PeerReceives, queueVars
<1>2. /\ sentFor \in [Subtasks -> Calls \cup {NoCall}] /\ job \in Calls
      /\ HandedInv /\ CanceledInv /\ DelegationsAccounted /\ ~Ahead(job) /\ call[job] # "idle"
  BY <1>1, BaseParts, JobNotAhead, CallsAssumption
     DEF WorkerTypes, DelegationInv, CallInv, JobInv, Open
<1>3. \A d \in Calls : (Ahead(d)' <=> Ahead(d)) /\ (LostWith(d)' <=> LostWith(d))
  BY <1>1 DEF Ahead, Queued, LostWith, callVars
<1>4. \A r \in Subtasks : sentFor[r] # job /\ sentFor'[r] = IF r = s THEN job ELSE sentFor[r]
  BY <1>1, <1>2, CallsAssumption DEF HandedInv
<1>5. \A r \in Subtasks : sentFor[r] # NoCall /\ Traced(r) => r # s /\ Traced(r)'
  BY <1>1, <1>2, <1>4, TracedStays
<1>6. HandedInv'
  <2> SUFFICES ASSUME NEW r \in Subtasks, NEW c \in Calls, sentFor'[r] = c
               PROVE  /\ call'[c] # "idle" /\ ~Ahead(c)'
                      /\ job' = c => wpc' = "send" /\ sending' = r
    BY <1>1, <1>2, <1>4 DEF HandedInv, Ahead, Queued
  <2>1. CASE r = s  BY <1>1, <1>2, <1>3, <1>4, <2>1 DEF callVars
  <2>2. CASE r # s
    BY <1>1, <1>2, <1>3, <1>4, <2>2, CallsAssumption DEF HandedInv, callVars
  <2> QED  BY <2>1, <2>2
<1>7. CanceledInv'  BY <1>1, <1>2, <1>3 DEF CanceledInv, callVars
<1>8. DelegationsAccounted'
  <2>1. ASSUME NEW r \in Subtasks, NEW c \in Calls, sentFor'[r] = c
        PROVE  UnderWay(r)' \/ Traced(r)' \/ LostWith(c)'
    <3>1. CASE r = s  BY <1>1, <1>4, <2>1, <3>1 DEF UnderWay
    <3>2. CASE r # s
      <4>1. sentFor[r] = c /\ ~UnderWay(r)  BY <1>1, <1>4, <2>1, <3>2 DEF UnderWay
      <4>2. Traced(r) \/ LostWith(c)  BY <1>2, <4>1, CallsAssumption DEF DelegationsAccounted
      <4> QED  BY <1>3, <1>5, <4>1, <4>2, CallsAssumption
    <3> QED  BY <3>1, <3>2
  <2>2. \A q, r \in Subtasks : sentFor'[q] = sentFor'[r] /\ sentFor'[r] # NoCall => q = r
    BY <1>2, <1>4 DEF DelegationsAccounted
  <2>3. ASSUME NEW c \in Calls, reply'[c] = "working"
        PROVE  \E r \in Subtasks : sentFor'[r] = c /\ Traced(r)'
    <3>1. PICK r \in Subtasks : sentFor[r] = c /\ Traced(r)
      BY <1>1, <1>2, <2>3 DEF DelegationsAccounted, callVars
    <3> QED  BY <1>4, <1>5, <3>1, CallsAssumption
  <2>4. \A r \in Subtasks : sentFor'[r] \in Calls \cup {NoCall}  BY <1>2, <1>4
  <2> QED  BY <2>1, <2>2, <2>3, <2>4 DEF DelegationsAccounted, LostWith
<1> QED  BY <1>6, <1>7, <1>8 DEF DelegationInv

(* Every subtask that a peer has created is accounted for, whatever fails  *)
(* or is cancelled: its request is under way, or the tracker waits for it  *)
(* under the task it is for, or its outcome has been collected, or it was  *)
(* lost with its request and nobody was told "working" for it.  A message  *)
(* is handed to one peer at most, and whoever is told "working" has a      *)
(* subtask that is not lost.                                               *)
THEOREM EachDelegationAccounted == ASSUME OneFollowUp PROVE Spec => []DelegationsAccounted
<1>1. Init => DelegationInv
  BY DEF Init, DelegationInv, HandedInv, CanceledInv, DelegationsAccounted
<1>2. BaseInv /\ CallInv /\ DelegationInv /\ [Next]_vars => DelegationInv'
  BY DelegationMoves, NothingHandedKeeps, HandedKeeps
<1>3. DelegationInv => DelegationsAccounted  BY DEF DelegationInv
<1> QED  BY <1>1, <1>2, <1>3, BaseInvariant, CallInvariant, PTL DEF Spec
-----------------------------------------------------------------------------
(* The budget inside the agent.  InFlight is what the running call of      *)
(* Claude may still cost.                                                  *)
InFlight == IF wpc = "claude" THEN cap ELSE 0
AgentSpendWithinLimits ==
  /\ spent_today + InFlight <= DailyMax
  /\ spent_week + InFlight <= WeeklyMax

(* Over midnight the call keeps its cap, which is within both limits.      *)
CapInv == wpc = "claude" => cap <= DailyMax /\ cap <= WeeklyMax

(* What check_before_execution returns is within what is left.             *)
LEMMA CapBounds ==
  ASSUME Budget!BudgetTypeOK, Budget!Allowed
  PROVE  /\ Budget!TaskCap \in Nat
         /\ spent_today + Budget!TaskCap <= DailyMax
         /\ spent_week + Budget!TaskCap <= WeeklyMax
BY Settings DEF Budget!BudgetTypeOK, Budget!Allowed, Budget!TaskCap, Budget!Remaining,
     Budget!SmallerOf, Budget!Left

(* What a step does to the money, when no evaluation is under way.         *)
MoneyKept == UNCHANGED <<spent_today, spent_week>>
CallBegins ==
  wpc' = "claude" /\ cap' = Budget!TaskCap /\ Budget!Allowed /\ MoneyKept
CallGoesOn == UNCHANGED <<wpc, cap>> /\ MoneyKept
CallEnds ==
  /\ wpc' # "claude"
  /\ \/ MoneyKept
     \/ /\ wpc = "claude"
        /\ \E cost \in 0..cap :
             spent_today' = spent_today + cost /\ spent_week' = spent_week + cost
DayEnds ==
  UNCHANGED <<wpc, cap>> /\ spent_today' = 0 /\ (spent_week' = 0 \/ spent_week' = spent_week)

LEMMA MoneyMoves ==
  ASSUME BaseInv, ipc # "claude", [Next]_vars
  PROVE  CallBegins \/ CallGoesOn \/ CallEnds \/ DayEnds
<1>1. CASE \E c \in Calls : Accept(c) \/ Refuse(c) \/ Return(c) \/ Cancel(c)
  BY <1>1 DEF Accept, Refuse, Return, Cancel, CallGoesOn, MoneyKept, budgetVars, workerVars
<1>2. CASE WorkerStep
  <2>1. CASE WorkerWaits
    BY <2>1 DEF WorkerWaits, CallGoesOn, MoneyKept, budgetVars, workerVars
  <2>2. ASSUME NEW i, WorkerSkips(i) PROVE CallGoesOn
    BY <2>2 DEF WorkerSkips, CallGoesOn, MoneyKept, budgetVars, workerVars
  <2>3. ASSUME NEW i, WorkerRejects(i) PROVE CallEnds
    BY <2>3 DEF WorkerRejects, CallEnds, MoneyKept, budgetVars, FinishWith, Finish
  <2>4. ASSUME NEW i, WorkerStarts(i) PROVE CallBegins
    BY <2>4 DEF WorkerStarts, CallBegins, MoneyKept, budgetVars
  <2>5. ASSUME NEW cost, NEW want, ClaudeReturns(cost, want) PROVE CallEnds
    <3>1. wpc' # "claude"
      BY <2>5 DEF ClaudeReturns, Continue, FinishWith, Finish
    <3>2. /\ wpc = "claude" /\ cost \in 0..cap
          /\ spent_today' = spent_today + cost /\ spent_week' = spent_week + cost
      BY <2>5 DEF ClaudeReturns, Budget!RecordCost, Budget!Account
    <3> QED  BY <3>1, <3>2 DEF CallEnds
  <2>6. CASE NoticeEnds \/ NoPeer \/ PeerAnswers \/ PeerAnswersNoId \/ JobRaises
    BY <2>6 DEF NoticeEnds, NoPeer, PeerAnswers, PeerAnswersNoId, JobRaises, Continue,
         FinishWith, Finish, CallEnds, MoneyKept, budgetVars
  <2>7. ASSUME NEW s, PeerReceives(s) PROVE CallEnds
    BY <2>7 DEF PeerReceives, CallEnds, MoneyKept, budgetVars
  <2> QED  BY <1>2, <2>1, <2>2, <2>3, <2>4, <2>5, <2>6, <2>7 DEF WorkerStep
<1>3. ASSUME NEW s, NEW outcome, Callback(s, outcome) PROVE CallGoesOn
  BY <1>3 DEF Callback, CallGoesOn, MoneyKept, budgetVars, workerVars
<1>4. CASE TickStarts \/ TickRaises \/ TickDelegated \/ UNCHANGED vars
  BY <1>4 DEF TickStarts, TickRaises, TickDelegated, vars, CallGoesOn, MoneyKept, budgetVars,
       workerVars
<1>5. \A cost : ~TickReturns(cost)
  BY DEF TickReturns
<1>6. CASE Midnight
  BY <1>6 DEF Midnight, Budget!ResetDaily, Budget!ResetWeekly, Budget!Account, DayEnds,
       workerVars
<1> QED  BY <1>1, <1>2, <1>3, <1>4, <1>5, <1>6 DEF Next

(* An agent without objectives stays within its daily and its weekly       *)
(* limit, even if the call under way costs all it may, and midnight may    *)
(* strike at any moment of it.                                             *)
THEOREM AgentSpendBounded ==
  ASSUME HasObjectives = FALSE
  PROVE  Spec => []AgentSpendWithinLimits
<1> DEFINE SpendInv == ipc # "claude" /\ CapInv /\ AgentSpendWithinLimits
<1>1. Init => SpendInv
  BY Settings DEF Init, Budget!BudgetInit, CapInv, AgentSpendWithinLimits, InFlight
<1>2. BaseInv /\ SpendInv /\ [Next]_vars => SpendInv'
  <2> SUFFICES ASSUME BaseInv, SpendInv, [Next]_vars PROVE SpendInv'
    OBVIOUS
  <2>1. ipc' # "claude"
    BY DEF Next, vars, initiativeVars, Accept, Refuse, Return, Cancel, WorkerStep, WorkerWaits,
         WorkerSkips, WorkerRejects, WorkerStarts, ClaudeReturns, NoticeEnds, NoPeer,
         PeerReceives, PeerAnswers, PeerAnswersNoId, JobRaises, Callback, TickStarts,
         TickReturns, TickRaises, TickDelegated, Midnight
  <2>2. /\ spent_today \in Nat /\ spent_week \in Nat /\ cap \in Nat
        /\ DailyMax \in Nat /\ WeeklyMax \in Nat
    BY Settings, BaseParts DEF Budget!BudgetTypeOK, WorkerTypes
  <2>3. CASE CallBegins
    BY <2>1, <2>2, <2>3, CapBounds, BaseParts DEF CallBegins, MoneyKept, CapInv,
         AgentSpendWithinLimits, InFlight
  <2>4. CASE CallGoesOn
    BY <2>1, <2>4 DEF CallGoesOn, MoneyKept, CapInv, AgentSpendWithinLimits, InFlight
  <2>5. CASE CallEnds
    BY <2>1, <2>2, <2>5 DEF CallEnds, MoneyKept, CapInv, AgentSpendWithinLimits, InFlight
  <2>6. CASE DayEnds
    BY <2>1, <2>2, <2>6 DEF DayEnds, CapInv, AgentSpendWithinLimits, InFlight
  <2> QED  BY <2>1, <2>3, <2>4, <2>5, <2>6, MoneyMoves
<1> QED  BY <1>1, <1>2, BaseInvariant, PTL DEF Spec
-----------------------------------------------------------------------------
(* The cached status is the current one.                                   *)
StatusInSync == status = Budget!EvaluateStatus(spent_today, spent_week)

(* Whatever changes an amount evaluates the status anew.                   *)
LEMMA StatusMoves ==
  [Next]_vars =>
    UNCHANGED budgetVars \/ status' = Budget!EvaluateStatus(spent_today', spent_week')
<1> SUFFICES ASSUME [Next]_vars, ~UNCHANGED budgetVars
             PROVE  status' = Budget!EvaluateStatus(spent_today', spent_week')
  OBVIOUS
<1>1. ~\E c \in Calls : Accept(c) \/ Refuse(c) \/ Return(c) \/ Cancel(c)
  BY DEF Accept, Refuse, Return, Cancel
<1>2. WorkerStep => \E cost \in 0..PerTaskMax : Budget!RecordCost(cost)
  BY DEF WorkerStep, WorkerWaits, WorkerSkips, WorkerRejects, WorkerStarts, ClaudeReturns,
       NoticeEnds, NoPeer, PeerReceives, PeerAnswers, PeerAnswersNoId, JobRaises
<1>3. (\A s, outcome : ~Callback(s, outcome)) /\ ~TickStarts /\ ~TickRaises /\ ~TickDelegated
      /\ ~UNCHANGED vars
  BY DEF Callback, TickStarts, TickRaises, TickDelegated, vars
<1>4. (\E cost : Budget!RecordCost(cost)) \/ Midnight
  BY <1>1, <1>2, <1>3 DEF Next, TickReturns
<1> QED  BY <1>4 DEF Midnight, Budget!RecordCost, Budget!ResetDaily, Budget!ResetWeekly,
     Budget!Account

(* Then the circuit breaker and the guard of tasks say the same.           *)
LEMMA BreakerIsGuard ==
  ASSUME DailyMax > 0, WeeklyMax > 0, Budget!BudgetTypeOK, StatusInSync
  PROVE  status = "vacation" <=> ~Budget!Allowed
BY Settings DEF Budget!BudgetTypeOK, StatusInSync, Budget!EvaluateStatus, Budget!Reached,
     Budget!Allowed, Budget!Remaining, Budget!SmallerOf, Budget!Left

(* With positive limits neither the worker, which asks the guard, nor the  *)
(* initiative loop, which looks at the status, starts a call of Claude     *)
(* when nothing is left.                                                   *)
THEOREM CallsHaveBudget ==
  ASSUME DailyMax > 0, WeeklyMax > 0
  PROVE  Spec => [][(wpc # "claude" /\ wpc' = "claude") \/ (ipc # "claude" /\ ipc' = "claude")
                      => Budget!Allowed]_vars
<1>1. Init => StatusInSync
  BY Settings DEF Init, Budget!BudgetInit, StatusInSync, Budget!EvaluateStatus, Budget!Reached
<1>2. StatusInSync /\ [Next]_vars => StatusInSync'
  BY StatusMoves DEF StatusInSync, budgetVars
<1>3. BaseInv /\ StatusInSync /\ [Next]_vars =>
        [(wpc # "claude" /\ wpc' = "claude") \/ (ipc # "claude" /\ ipc' = "claude")
            => Budget!Allowed]_vars
  <2> SUFFICES ASSUME BaseInv, StatusInSync, [Next]_vars, ~Budget!Allowed
               PROVE  ~(wpc # "claude" /\ wpc' = "claude") /\ ~(ipc # "claude" /\ ipc' = "claude")
    OBVIOUS
  <2>1. status = "vacation"
    BY BreakerIsGuard, BaseParts
  <2>2. ~TickStarts /\ \A i : ~WorkerStarts(i)
    BY <2>1 DEF TickStarts, WorkerStarts
  <2>3. wpc # "claude" => wpc' # "claude"
    BY <2>2 DEF Next, vars, workerVars, Accept, Refuse, Return, Cancel, WorkerStep, WorkerWaits,
         WorkerSkips, WorkerRejects, ClaudeReturns, NoticeEnds, NoPeer, PeerReceives,
         PeerAnswers, PeerAnswersNoId, JobRaises, Callback, TickReturns, TickRaises,
         TickDelegated, Midnight,
         FinishWith, Finish, Continue
  <2>4. ipc # "claude" => ipc' # "claude"
    BY <2>2 DEF Next, vars, initiativeVars, Accept, Refuse, Return, Cancel, WorkerStep,
         WorkerWaits, WorkerSkips, WorkerRejects, ClaudeReturns, NoticeEnds, NoPeer,
         PeerReceives, PeerAnswers, PeerAnswersNoId, JobRaises, Callback, TickReturns,
         TickRaises, TickDelegated,
         Midnight
  <2> QED  BY <2>3, <2>4
<1> QED  BY <1>1, <1>2, <1>3, BaseInvariant, PTL DEF Spec
=============================================================================
