------------------------------ MODULE AgentNode ------------------------------
(***************************************************************************)
(* One running agent (create_app in src/hive/server.py): the calls of      *)
(* ClaudeExecutor.execute that wait for their futures, the TaskWorker that *)
(* drains the queue, the initiative loop, the callback endpoint and the    *)
(* reset loop, over one TaskQueue, one BudgetManager, one SubtaskTracker   *)
(* and the executor's _pending_futures.                                    *)
(*                                                                         *)
(* All of them are coroutines of one event loop.  An action is the code    *)
(* from one await that may suspend to the next; the worker suspends in     *)
(* dequeue, in the call of Claude ("claude"), in the vacation notice       *)
(* ("notice"), while it asks the registry for peers ("discover") and while *)
(* it waits for the peer's answer ("send").                                *)
(*                                                                         *)
(* External: Claude, which ends every call, below its cap if it has one;   *)
(* the registry and the peers, which answer, fail or time out; the A2A     *)
(* server library, which runs execute once per message, lets a message     *)
(* follow up on a task that is still open, and on a cancel request cancels *)
(* the coroutine that runs execute.                                        *)
(***************************************************************************)
EXTENDS Naturals, SequencesExt

CONSTANTS
  Calls,          \* runs of execute, one per incoming message
  Tasks,          \* ids of the tasks the messages belong to
  TaskOf,         \* TaskOf[c]: context.task_id of call c
  MetadataOf,     \* MetadataOf[c]: the metadata of its message
  Subtasks,       \* ids that peers give to the tasks this agent sends them
  Agents,         \* names of agents
  Self,           \* config.name
  Superior,       \* config.reports_to
  NoAgent, NoTask, NoCall, NoSubtask,   \* None
  MaxBacklog, DailyMax, WeeklyMax, PerTaskMax,
  HasObjectives,  \* the initiative loop runs
  InitiativeMax,  \* bound: the most an uncapped evaluation costs
  MaxTicks,       \* bound: evaluations of the initiative loop
  MayFail,        \* Claude and peers may fail
  MayCancel       \* the calls a client may cancel

ASSUME CallsAssumption ==
  /\ TaskOf \in [Calls -> Tasks]
  /\ NoCall \notin Calls
  /\ NoTask \notin Tasks
  /\ NoSubtask \notin Subtasks
  /\ MayFail \in BOOLEAN

VARIABLES
  queue, consumer,                                      \* TaskQueue
  spent_today, spent_week, status,                      \* BudgetManager
  parent_to_subtasks, subtask_to_parent, delivered,     \* SubtaskTracker
  call,       \* call[c]: where execute stands
  done,       \* the calls whose future is done
  pending,    \* _pending_futures: the call a task id stands for
  reply,      \* reply[c]: the last event the agent published for call c
  wpc,        \* where the worker stands
  job,        \* the call whose context the worker is executing
  cap,        \* max_budget of its Claude call
  intent,     \* what Claude's response asks for
  sending,    \* the subtask the worker is handing to a peer
  sentFor,    \* sentFor[s]: the call for which a peer has created s
  unnamed,    \* the subtasks whose ids the peers did not tell
  ipc,        \* where the initiative loop stands
  ticks       \* how many evaluations it has started

queueVars == <<queue, consumer>>
budgetVars == <<spent_today, spent_week, status>>
trackerVars == <<parent_to_subtasks, subtask_to_parent, delivered>>
callVars == <<call, done, pending, reply>>
workerVars == <<wpc, job, cap, intent, sending>>
peerVars == <<sentFor, unnamed>>
initiativeVars == <<ipc, ticks>>
vars == <<queueVars, budgetVars, trackerVars, callVars, workerVars, peerVars, initiativeVars>>

(* The ids in the queue: of tasks, f"synthesis-{parent}", f"initiative-.." *)
TaskEntry(t) == <<"task", t>>
SynthesisEntry(t) == <<"synthesis", t>>
InitiativeEntry == <<"initiative", NoTask>>
EntryIds == ({"task", "synthesis"} \X Tasks) \cup {InitiativeEntry}
Worker == "worker"

Queue == INSTANCE TaskQueue WITH TaskIds <- EntryIds, Consumers <- {Worker}
Budget == INSTANCE BudgetManager
Tracker == INSTANCE SubtaskTracker WITH Parents <- Tasks, NoParent <- NoTask

ASSUME SettingsAssumption ==
  /\ MetadataOf \in [Calls -> Queue!Metadata]
  /\ Self \in Agents /\ Superior \in Agents \cup {NoAgent} /\ NoAgent \notin Agents
  /\ MaxBacklog \in Nat \ {0}
  /\ {DailyMax, WeeklyMax, PerTaskMax, InitiativeMax, MaxTicks} \subseteq Nat

TypeOK ==
  /\ Queue!TypeOK
  /\ Budget!BudgetTypeOK
  /\ Tracker!TrackerTypeOK
  /\ call \in [Calls -> {"idle", "awaiting", "returned", "canceled"}]
  /\ done \in SUBSET Calls
  /\ pending \in [Tasks -> Calls \cup {NoCall}]
  /\ reply \in [Calls -> {"none", "completed", "failed", "working", "canceled"}]
  /\ wpc \in {"dequeue", "claude", "notice", "discover", "send"}
  /\ job \in Calls \cup {NoCall}
  /\ wpc = "dequeue" <=> job = NoCall
  /\ cap \in Nat
  /\ intent \in {"answer", "delegate"}
  /\ sending \in Subtasks \cup {NoSubtask}
  /\ wpc = "send" => sending \in Subtasks
  /\ sentFor \in [Subtasks -> Calls \cup {NoCall}]
  /\ unnamed \in SUBSET Subtasks
  /\ ipc \in {"asleep", "claude", "send", "dead"}
  /\ ticks \in 0..MaxTicks

Init ==
  /\ Queue!Init
  /\ Budget!BudgetInit
  /\ Tracker!TrackerInit
  /\ call = [c \in Calls |-> "idle"]
  /\ done = {}
  /\ pending = [t \in Tasks |-> NoCall]
  /\ reply = [c \in Calls |-> "none"]
  /\ wpc = "dequeue"
  /\ job = NoCall
  /\ cap = 0
  /\ intent = "answer"
  /\ sending = NoSubtask
  /\ sentFor = [s \in Subtasks |-> NoCall]
  /\ unnamed = {}
  /\ ipc = "asleep"
  /\ ticks = 0
-----------------------------------------------------------------------------
(* The library takes a message for a task that is new, or that was left    *)
(* "working" by an execute that has returned, and not been ended since.    *)
SameTask(c) == {d \in Calls \ {c} : TaskOf[d] = TaskOf[c]}
LeftOpen(c) ==
  /\ \E d \in SameTask(c) : call[d] = "returned" /\ reply[d] = "working"
  /\ \A d \in SameTask(c) : reply[d] \in {"none", "working"}
Delivered(c) ==
  /\ call[c] = "idle"
  /\ (\A d \in SameTask(c) : call[d] = "idle") \/ LeftOpen(c)

-----------------------------------------------------------------------------
\* Mutants: plausible slips in the code below, used to test the properties.
Return_ClearsAll(c) ==
  /\ call[c] = "awaiting"
  /\ c \in done
  /\ pending' = [t \in Tasks |-> NoCall]
  /\ call' = [call EXCEPT ![c] = "returned"]
  /\ UNCHANGED <<queueVars, budgetVars, trackerVars, done, reply, workerVars, peerVars,
                 initiativeVars>>
Cancel_PopsFuture(c) ==
  /\ c \in MayCancel
  /\ call[c] = "awaiting"
  /\ LeftOpen(c)
  /\ call' = [call EXCEPT ![c] = "canceled"]
  /\ done' = done \cup {c}
  /\ reply' = [reply EXCEPT ![c] = "canceled"]
  /\ pending' = [pending EXCEPT ![TaskOf[c]] = NoCall]
  /\ UNCHANGED <<queueVars, budgetVars, trackerVars, workerVars, peerVars, initiativeVars>>
-----------------------------------------------------------------------------
(* ClaudeExecutor.execute up to "await future" ...                         *)
Accept(c) ==
  /\ Delivered(c)
  /\ Queue!Enqueue(TaskEntry(TaskOf[c]), MetadataOf[c])
  /\ pending' = [pending EXCEPT ![TaskOf[c]] = c]
  /\ call' = [call EXCEPT ![c] = "awaiting"]
  /\ UNCHANGED <<budgetVars, trackerVars, done, reply, workerVars, peerVars, initiativeVars>>

(* ... or, on TaskQueueFullError, to its end;                              *)
Refuse(c) ==
  /\ Delivered(c)
  /\ ~Queue!SizeAllowed
  /\ reply' = [reply EXCEPT ![c] = "failed"]
  /\ call' = [call EXCEPT ![c] = "returned"]
  /\ UNCHANGED <<queueVars, budgetVars, trackerVars, done, pending, workerVars, peerVars,
                 initiativeVars>>

(* and what follows the await, once the worker has resolved the future.    *)
Return(c) ==
  /\ call[c] = "awaiting"
  /\ c \in done
  /\ pending' = [pending EXCEPT ![TaskOf[c]] = NoCall]
  /\ call' = [call EXCEPT ![c] = "returned"]
  /\ UNCHANGED <<queueVars, budgetVars, trackerVars, done, reply, workerVars, peerVars,
                 initiativeVars>>

(* A cancel request for a task the library knows, one left "working":      *)
(* executor.cancel publishes.  If a follow-up waits, the library cancels   *)
(* the coroutine of its execute, which cancels the future that execute     *)
(* awaits, and skips the pop; else the task is over, and nobody who works  *)
(* for it, here or at a peer, hears of it.                                 *)
Cancel(c) ==
  /\ c \in MayCancel
  /\ \/ /\ call[c] = "awaiting"
        /\ LeftOpen(c)
        /\ call' = [call EXCEPT ![c] = "canceled"]
        /\ done' = done \cup {c}
     \/ /\ call[c] = "returned"
        /\ reply[c] = "working"
        /\ \A d \in SameTask(c) : call[d] # "awaiting" /\ reply[d] \in {"none", "working"}
        /\ UNCHANGED <<call, done>>
  /\ reply' = [reply EXCEPT ![c] = "canceled"]
  /\ UNCHANGED <<queueVars, budgetVars, trackerVars, pending, workerVars, peerVars,
                 initiativeVars>>
-----------------------------------------------------------------------------
(* _pending_futures.get(task_id): only execute stores futures, and only    *)
(* under the ids of tasks.                                                 *)
PendingCall(id) == IF id[1] = "task" THEN pending[id[2]] ELSE NoCall

(* The end of TaskWorker._process: "finally" resolves the future.          *)
Finish(resolved) ==
  /\ done' = done \cup resolved
  /\ wpc' = "dequeue"
  /\ job' = NoCall
  /\ cap' = 0
  /\ intent' = "answer"
  /\ sending' = NoSubtask

FinishWith(c, r) == Finish({c}) /\ reply' = [reply EXCEPT ![c] = r]

-----------------------------------------------------------------------------
\* Mutants.
WorkerRejects_Unanswered(i) ==
  /\ wpc = "dequeue"
  /\ Queue!Pop(Worker, i)
  /\ PendingCall(queue[i].task_id) # NoCall
  /\ ~Budget!Allowed
  /\ Finish({PendingCall(queue[i].task_id)})
  /\ UNCHANGED <<budgetVars, trackerVars, call, pending, reply, peerVars, initiativeVars>>
PeerAnswers_Unregistered ==
  /\ wpc = "send"
  /\ FinishWith(job, "working")
  /\ UNCHANGED <<queueVars, budgetVars, trackerVars, call, pending, peerVars, initiativeVars>>
JobRaises_Unresolved ==
  /\ MayFail
  /\ wpc \in {"claude", "discover", "send"}
  /\ Finish({})
  /\ UNCHANGED <<queueVars, budgetVars, trackerVars, call, pending, reply, peerVars,
                 initiativeVars>>
-----------------------------------------------------------------------------
(* The worker in dequeue: it waits, or pops an entry and processes it:     *)
WorkerWaits ==
  /\ wpc = "dequeue"
  /\ Queue!Wait(Worker)
  /\ UNCHANGED <<budgetVars, trackerVars, callVars, workerVars, peerVars, initiativeVars>>

(* an entry without a future is skipped,                                   *)
WorkerSkips(i) ==
  /\ wpc = "dequeue"
  /\ Queue!Pop(Worker, i)
  /\ PendingCall(queue[i].task_id) = NoCall
  /\ UNCHANGED <<budgetVars, trackerVars, callVars, workerVars, peerVars, initiativeVars>>

(* one that the budget does not allow is answered, as "completed",         *)
WorkerRejects(i) ==
  /\ wpc = "dequeue"
  /\ Queue!Pop(Worker, i)
  /\ PendingCall(queue[i].task_id) # NoCall
  /\ ~Budget!Allowed
  /\ FinishWith(PendingCall(queue[i].task_id), "completed")
  /\ UNCHANGED <<budgetVars, trackerVars, call, pending, peerVars, initiativeVars>>

(* and for any other one Claude is called.                                 *)
WorkerStarts(i) ==
  /\ wpc = "dequeue"
  /\ Queue!Pop(Worker, i)
  /\ PendingCall(queue[i].task_id) # NoCall
  /\ Budget!Allowed
  /\ job' = PendingCall(queue[i].task_id)
  /\ cap' = Budget!TaskCap
  /\ wpc' = "claude"
  /\ UNCHANGED <<budgetVars, trackerVars, callVars, intent, sending, peerVars, initiativeVars>>

(* After the accounting: delegate if the response asks for it, else        *)
(* complete the task.                                                      *)
Continue(want) ==
  \/ /\ want = "answer"
     /\ FinishWith(job, "completed")
  \/ /\ want = "delegate"
     /\ wpc' = "discover"
     /\ UNCHANGED <<done, reply, job, cap, intent, sending>>

ClaudeReturns(cost, want) ==
  /\ wpc = "claude"
  /\ cost \in 0..cap
  /\ Budget!RecordCost(cost)
  /\ IF status # "vacation" /\ status' = "vacation" /\ Superior # NoAgent
       THEN /\ wpc' = "notice"
            /\ intent' = want
            /\ UNCHANGED <<done, reply, job, cap, sending>>
       ELSE Continue(want)
  /\ UNCHANGED <<queueVars, trackerVars, call, pending, peerVars, initiativeVars>>

(* The notice is over, delivered or not: errors are swallowed.             *)
NoticeEnds ==
  /\ wpc = "notice"
  /\ Continue(intent)
  /\ UNCHANGED <<queueVars, budgetVars, trackerVars, call, pending, peerVars, initiativeVars>>

(* delegate_to_peer: without a peer the task completes normally,           *)
NoPeer ==
  /\ wpc = "discover"
  /\ FinishWith(job, "completed")
  /\ UNCHANGED <<queueVars, budgetVars, trackerVars, call, pending, peerVars, initiativeVars>>

(* else the request goes out, and the peer creates the subtask             *)
PeerReceives(s) ==
  /\ wpc = "discover"
  /\ sentFor[s] = NoCall
  /\ sending' = s
  /\ sentFor' = [sentFor EXCEPT ![s] = job]
  /\ wpc' = "send"
  /\ UNCHANGED <<queueVars, budgetVars, trackerVars, callVars, job, cap, intent, unnamed,
                 initiativeVars>>

(* before its answer arrives and the subtask is registered.                *)
PeerAnswers ==
  /\ wpc = "send"
  /\ Tracker!RegisterSubtask(TaskOf[job], sending)
  /\ FinishWith(job, "working")
  /\ UNCHANGED <<queueVars, budgetVars, call, pending, peerVars, initiativeVars>>

(* An answer without an id: None is registered, under which no callback    *)
(* can come, and as it is no id the task is completed as if no peer had    *)
(* been found.  The subtask stands for the None that is registered for it  *)
(* (a second None takes the first's place as a key that nobody looks up).  *)
PeerAnswersNoId ==
  /\ MayFail
  /\ wpc = "send"
  /\ Tracker!RegisterSubtask(TaskOf[job], sending)
  /\ unnamed' = unnamed \cup {sending}
  /\ FinishWith(job, "completed")
  /\ UNCHANGED <<queueVars, budgetVars, call, pending, sentFor, initiativeVars>>

(* An exception of Claude or of send_task leaves _execute_task, and        *)
(* nothing is published.  The "finally" of _process resolves the future of *)
(* the job, the handler of _run the one that its task id now stands for.   *)
JobRaises ==
  /\ MayFail
  /\ wpc \in {"claude", "discover", "send"}
  /\ Finish({job, pending[TaskOf[job]]} \ {NoCall})
  /\ UNCHANGED reply
  /\ UNCHANGED <<queueVars, budgetVars, trackerVars, call, pending, peerVars, initiativeVars>>
-----------------------------------------------------------------------------
\* Mutant: the parent's results are too important for the limit.
Callback_Unbounded(s, outcome) ==
  /\ sentFor[s] # NoCall /\ s \notin unnamed
  /\ \/ /\ Tracker!Ignore(s) \/ Tracker!Note(s, outcome)
        /\ UNCHANGED queueVars
     \/ /\ Tracker!Collect(s, outcome)
        /\ queue' = Append(queue, [task_id |-> SynthesisEntry(subtask_to_parent[s]),
                                   metadata |-> [priority |-> "escalation", from_agent |-> Self],
                                   priority |-> Queue!ESCALATION])
        /\ Queue!Notify
  /\ UNCHANGED <<budgetVars, callVars, workerVars, peerVars, initiativeVars>>

(* POST /callbacks.  When the last subtask of a parent is resolved the     *)
(* parent is queued for synthesis; if the queue is full the exception is   *)
(* logged, and the parent is forgotten all the same.  (A callback for a    *)
(* subtask whose id the peer did not tell finds nothing, and changes       *)
(* nothing.)                                                               *)
Callback(s, outcome) ==
  /\ sentFor[s] # NoCall /\ s \notin unnamed
  /\ \/ /\ Tracker!Ignore(s) \/ Tracker!Note(s, outcome)
        /\ UNCHANGED queueVars
     \/ /\ Tracker!Collect(s, outcome)
        /\ \/ Queue!Enqueue(SynthesisEntry(subtask_to_parent[s]),
                            [priority |-> "escalation", from_agent |-> Self])
           \/ ~Queue!SizeAllowed /\ UNCHANGED queueVars
  /\ UNCHANGED <<budgetVars, callVars, workerVars, peerVars, initiativeVars>>
-----------------------------------------------------------------------------
(* InitiativeLoop: a tick that is not skipped calls Claude, with no cap.   *)
TickStarts ==
  /\ HasObjectives
  /\ ipc = "asleep"
  /\ ticks < MaxTicks
  /\ status \notin {"warning", "vacation"}
  /\ ipc' = "claude"
  /\ ticks' = ticks + 1
  /\ UNCHANGED <<queueVars, budgetVars, trackerVars, callVars, workerVars, peerVars>>

(* "nothing", a report (no generator is wired), or no decision found;      *)
DecidesNothing == ipc' = "asleep" /\ UNCHANGED queueVars

(* a task for itself: TaskQueueFullError is not caught, and ends the loop; *)
DecidesSelfTask ==
  \/ /\ Queue!Enqueue(InitiativeEntry, [priority |-> "normal", from_agent |-> Self])
     /\ ipc' = "asleep"
  \/ /\ ~Queue!SizeAllowed
     /\ ipc' = "dead"
     /\ UNCHANGED queueVars

(* a delegation, whose errors are caught; braces that hold no JSON raise.  *)
DecidesDelegate == ipc' = "send" /\ UNCHANGED queueVars
DecidesGibberish == MayFail /\ ipc' = "dead" /\ UNCHANGED queueVars

TickReturns(cost) ==
  /\ ipc = "claude"
  /\ Budget!RecordCost(cost)
  /\ DecidesNothing \/ DecidesSelfTask \/ DecidesDelegate \/ DecidesGibberish
  /\ UNCHANGED <<trackerVars, callVars, workerVars, peerVars, ticks>>

TickRaises ==
  /\ MayFail
  /\ ipc = "claude"
  /\ ipc' = "asleep"
  /\ UNCHANGED <<queueVars, budgetVars, trackerVars, callVars, workerVars, peerVars, ticks>>

TickDelegated ==
  /\ ipc = "send"
  /\ ipc' = "asleep"
  /\ UNCHANGED <<queueVars, budgetVars, trackerVars, callVars, workerVars, peerVars, ticks>>

(* _budget_reset_loop, at the midnight before a Monday or any other day.   *)
Midnight ==
  /\ Budget!ResetDaily \/ Budget!ResetWeekly
  /\ UNCHANGED <<queueVars, trackerVars, callVars, workerVars, peerVars, initiativeVars>>
-----------------------------------------------------------------------------
WorkerStep ==
  \/ WorkerWaits
  \/ \E i \in DOMAIN queue : WorkerSkips(i) \/ WorkerRejects(i) \/ WorkerStarts(i)
  \/ \E cost \in 0..PerTaskMax, want \in {"answer", "delegate"} : ClaudeReturns(cost, want)
  \/ NoticeEnds
  \/ NoPeer
  \/ \E s \in Subtasks : PeerReceives(s)
  \/ PeerAnswers \/ PeerAnswersNoId
  \/ JobRaises

Next ==
  \/ \E c \in Calls : Accept(c) \/ Refuse(c) \/ Return(c) \/ Cancel(c)
  \/ WorkerStep
  \/ \E s \in Subtasks, outcome \in {"completed", "failed"} : Callback(s, outcome)
  \/ TickStarts
  \/ \E cost \in 0..InitiativeMax : TickReturns(cost)
  \/ TickRaises
  \/ TickDelegated
  \/ Midnight

(* The event loop runs what can run; Claude and HTTP requests end.  No     *)
(* fairness is assumed of clients, of callbacks or of midnight.            *)
Fairness == WF_vars(WorkerStep) /\ \A c \in Calls : WF_vars(Return(c))

Spec == Init /\ [][Next]_vars /\ Fairness
-----------------------------------------------------------------------------
(* A waiting call is never forgotten: its future is done, or the worker is *)
(* executing it, or its entry is in the queue and will find its future.    *)
(* Failures of Claude and of peers, refused and cancelled calls, and       *)
(* entries that are skipped do not change that.                            *)
Queued(c) == \E i \in DOMAIN queue : queue[i].task_id = TaskEntry(TaskOf[c])
NoOrphanedCall ==
  \A c \in Calls : call[c] = "awaiting" =>
    c \in done \/ job = c \/ (pending[TaskOf[c]] = c /\ Queued(c))

(* The worker never skips a message: what it skips is what the agent put   *)
(* in the queue itself.                                                    *)
MessagesHaveFutures ==
  \A i \in DOMAIN queue :
    queue[i].task_id[1] = "task" => PendingCall(queue[i].task_id) # NoCall

(* Every subtask that a peer has created is accounted for: its request is  *)
(* still under way, or it is tracked under the task it is for, or its      *)
(* outcome has been collected, or it was lost with its request, and then   *)
(* nobody was told that the task was delegated.  A message is delegated    *)
(* once, whoever cancels what meanwhile, and whoever is told "working" is  *)
(* so because of a subtask that is not lost.                               *)
UnderWay(s) == wpc = "send" /\ sending = s /\ job = sentFor[s]
Traced(s) == subtask_to_parent[s] = TaskOf[sentFor[s]] \/ s \in delivered
LostWith(c) == c \in done /\ reply[c] \in {"none", "canceled"}
DelegationsAccounted ==
  /\ \A s \in Subtasks : sentFor[s] # NoCall => UnderWay(s) \/ Traced(s) \/ LostWith(sentFor[s])
  /\ \A r, s \in Subtasks : sentFor[r] = sentFor[s] /\ sentFor[s] # NoCall => r = s
  /\ \A c \in Calls : reply[c] = "working" => \E s \in Subtasks : sentFor[s] = c /\ Traced(s)

(* Whatever fails, execute returns -- unless two follow-ups of one task    *)
(* wait at the same time.  The comment in TaskWorker._run promises it: "so *)
(* the execute() caller doesn't hang forever".                             *)
EveryCallReturns == \A c \in Calls : call[c] = "awaiting" ~> call[c] # "awaiting"

(* Unless something fails, the agent is the service it promises to be:     *)
(* refused at once or accepted and answered, once.                         *)
Service == INSTANCE TaskService WITH
             answer <- [c \in Calls |-> IF call[c] = "idle" THEN "nothing"
                                        ELSE IF reply[c] = "none" THEN "accepted"
                                        ELSE reply[c]]
ImplementsTaskService == Service!Spec
-----------------------------------------------------------------------------
(* What the documentation says and the code does not do.                   *)

(* A parent queued for synthesis is completed.                             *)
SynthesisProduced ==
  \A c \in Calls :
    (\E i \in DOMAIN queue : queue[i].task_id = SynthesisEntry(TaskOf[c])) ~> reply[c] = "completed"
=============================================================================
