------------------------------ MODULE TaskQueue ------------------------------
(***************************************************************************)
(* TaskQueue of src/hive/queue.py: the bounded inbox of an agent, a heap   *)
(* ordered by (priority, timestamp) behind one asyncio.Condition.          *)
(*                                                                         *)
(* Data abstraction.  The heap is the sequence of its entries in the order *)
(* they were pushed, which is the order of their timestamps because        *)
(* time.monotonic() advances between two pushes; the message text and the  *)
(* context id travel with the task id, and of the metadata the model keeps *)
(* what the priority is computed from.                                     *)
(*                                                                         *)
(* Concurrency.  The Condition's lock is held only inside enqueue, and     *)
(* inside dequeue when it is not in wait(); nothing is awaited under it    *)
(* but wait() itself, so a whole enqueue, and the part of a dequeue        *)
(* between two waits, is one step of the event loop.  notify() marks a     *)
(* waiter that runs again later: another reader may pop in between.        *)
(***************************************************************************)
EXTENDS Naturals, SequencesExt

CONSTANTS
  TaskIds,      \* ids of the tasks that may be enqueued
  Agents,       \* names that may stand in metadata["from_agent"]
  NoAgent,      \* None: no from_agent key, or an agent without superior
  Superior,     \* agent_superior
  Consumers,    \* the coroutines that call dequeue
  MaxBacklog    \* max_backlog

ASSUME MaxBacklogAssumption == MaxBacklog \in Nat \ {0}
ASSUME ConsumersAssumption == IsFiniteSet(Consumers)
ASSUME SuperiorAssumption == Superior \in Agents \cup {NoAgent} /\ NoAgent \notin Agents

VARIABLES
  queue,        \* _queue: the entries, oldest push first
  consumer      \* consumer[c]: where c stands with respect to _cond.wait()

vars == <<queue, consumer>>

(* TaskPriority: the smaller, the more urgent.                             *)
ESCALATION == 1
FROM_SUPERIOR == 2
CONSULTATION == 3
BROADCAST == 4
TaskPriority == {ESCALATION, FROM_SUPERIOR, CONSULTATION, BROADCAST}

Metadata == [priority : {"escalation", "broadcast", "normal"},
             from_agent : Agents \cup {NoAgent}]
QueuedTask == [task_id : TaskIds, metadata : Metadata, priority : TaskPriority]

(* "busy": not inside dequeue; "waiting": in wait(), not yet notified;     *)
(* "notified": notify() has chosen it, it has not run yet.                 *)
ConsumerStates == {"busy", "waiting", "notified"}

TypeOK ==
  /\ queue \in Seq(QueuedTask)
  /\ Len(queue) <= MaxBacklog
  /\ consumer \in [Consumers -> ConsumerStates]

Waiting == {c \in Consumers : consumer[c] = "waiting"}
Notified == {c \in Consumers : consumer[c] = "notified"}

Init ==
  /\ queue = <<>>
  /\ consumer = [c \in Consumers |-> "busy"]
-----------------------------------------------------------------------------
\* Mutants: plausible slips in the code below, used to test the properties.
ClassifyPriority_LabelFirst(metadata) ==
  CASE metadata.priority = "escalation" -> ESCALATION
    [] metadata.priority = "broadcast" -> BROADCAST
    [] metadata.priority = "normal" /\ metadata.from_agent = Superior -> FROM_SUPERIOR
    [] OTHER -> CONSULTATION
Notify_Forgotten == UNCHANGED consumer
SizeAllowed_OffByOne == Len(queue) <= MaxBacklog
-----------------------------------------------------------------------------
ClassifyPriority(metadata) ==
  IF metadata.priority = "escalation" THEN ESCALATION
  ELSE IF Superior # NoAgent /\ metadata.from_agent = Superior THEN FROM_SUPERIOR
  ELSE IF metadata.priority = "broadcast" THEN BROADCAST
  ELSE CONSULTATION

SizeAllowed == Len(queue) < MaxBacklog

(* _cond.notify(): one waiter not yet notified, if there is one.           *)
Notify ==
  \/ \E c \in Waiting : consumer' = [consumer EXCEPT ![c] = "notified"]
  \/ Waiting = {} /\ UNCHANGED consumer

(* enqueue that succeeds.  On a full queue it raises TaskQueueFullError    *)
(* and changes nothing.                                                    *)
Enqueue(task_id, metadata) ==
  /\ SizeAllowed
  /\ queue' = Append(queue, [task_id |-> task_id, metadata |-> metadata,
                            priority |-> ClassifyPriority(metadata)])
  /\ Notify

(* Where heappop finds the smallest (priority, timestamp).                 *)
HeapTop == {i \in DOMAIN queue : \A j \in DOMAIN queue :
              \/ queue[i].priority < queue[j].priority
              \/ queue[i].priority = queue[j].priority /\ i <= j}

(* dequeue, entered by a busy consumer or resumed by a notified one:       *)
(* it pops if the queue holds an entry and waits (again) if not.           *)
Pop(c, i) ==
  /\ consumer[c] \in {"busy", "notified"}
  /\ i \in HeapTop
  /\ queue' = RemoveAt(queue, i)
  /\ consumer' = [consumer EXCEPT ![c] = "busy"]

Wait(c) ==
  /\ consumer[c] \in {"busy", "notified"}
  /\ queue = <<>>
  /\ consumer' = [consumer EXCEPT ![c] = "waiting"]
  /\ UNCHANGED queue

Dequeue(c) == Wait(c) \/ \E i \in DOMAIN queue : Pop(c, i)

Next ==
  \/ \E id \in TaskIds, md \in Metadata : Enqueue(id, md)
  \/ \E c \in Consumers : Dequeue(c)

(* The event loop runs every coroutine that can run.                       *)
Fairness == \A c \in Consumers : WF_vars(consumer[c] = "notified" /\ Dequeue(c))

Spec == Init /\ [][Next]_vars /\ Fairness
-----------------------------------------------------------------------------
(* A consumer is left waiting only if every entry of the queue is already  *)
(* promised to a consumer that was notified and has yet to run: no entry   *)
(* is stranded by a wake-up that was lost, stolen by a consumer that       *)
(* popped without waiting, or spent on a consumer that found nothing.      *)
NoLostWakeup == Waiting # {} => Len(queue) <= Cardinality(Notified)

(* The heap with its condition variable is an inbox of four FIFO lanes,    *)
(* one per kind of sender, that serves whoever waits: PriorityInbox, with  *)
(* its fairness.                                                           *)
LaneOf(p) ==
  LET entries[i \in 0..Len(queue)] ==
        IF i = 0 THEN <<>>
        ELSE IF queue[i].priority = p
             THEN Append(entries[i - 1], [task_id |-> queue[i].task_id, metadata |-> queue[i].metadata])
             ELSE entries[i - 1]
  IN  entries[Len(queue)]
Inbox == INSTANCE PriorityInbox WITH
           Readers <- Consumers,
           lane <- [p \in TaskPriority |-> LaneOf(p)],
           asking <- {c \in Consumers : consumer[c] # "busy"}
ImplementsPriorityInbox == Inbox!Spec
=============================================================================
