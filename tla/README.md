# a2a-society in TLA+

TLA+ modules, TLC configurations and TLAPS proofs for the agents, the registry and
the delegation protocol of this repository (`hive/`). Paths below are relative to the
repository root. The specifications are written from the source; where a document
says something else, a run of its own shows the difference.

    tlc -workers 4 -config MCTaskQueue.cfg MCTaskQueue      # model-check one configuration
    tlapm TaskQueueProofs.tla                               # check the proofs of one module

## 1. The system

An agent is one process with one asyncio event loop. `create_app` (`hive/server.py`)
builds it from parts that share their state as plain Python objects:

| part | state | operations |
|---|---|---|
| `TaskQueue` (`queue.py`) | heap of `QueuedTask`, one `asyncio.Condition` | `enqueue`, `dequeue` |
| `ClaudeExecutor` (`executor.py`) | `_pending_futures`: task id -> future | `execute`, `_execute_task`, `cancel` |
| `TaskWorker` (`executor.py`) | one background task | `_run`, `_process` |
| `BudgetManager` (`budget.py`) | spent today, spent this week, cached status | `check_before_execution`, `record_cost`, `reset_daily`, `reset_weekly` |
| reset loop (`server.py`) | none of its own | resets at midnight UTC, and on Mondays |
| `SubtaskTracker` (`subtask_tracker.py`) | parent -> infos, subtask -> parent | `register_subtask`, `complete_subtask`, `fail_subtask`, `cleanup` |
| `POST /callbacks` (`server.py`) | none of its own | resolves a subtask, queues the synthesis of its parent |
| `InitiativeLoop` (`initiative.py`) | one background task | `tick`: ask Claude, then nothing / self-task / delegate / report |
| `DiscoveryClient` (`discovery.py`) | peer cache, heartbeat task | `register`, heartbeat, lookups, `deregister` |
| `A2AClient` (`client.py`) | HTTP client | `send_task` |
| `OrgMemory` (`org_memory.py`) | a git clone | artifacts, events, locks, push with rebase |
| `ReportGenerator` (`reporting.py`) | time of the last report, in a file | `should_report`, `generate_and_send` |

The registry (`hive/registry`) is a process of its own: a dictionary of agent cards
with `last_seen` and a status, and a sweep that marks silent agents offline.

Agents meet in three places: in the registry, in the requests they send each other,
which the sender's worker waits for, and in the git repository of `OrgMemory`. The
server constructs no `OrgMemory` and no `ReportGenerator` (both are optional arguments
of the executor and of the initiative loop that `create_app` leaves out), so the models
of these two stand for the classes and for the code that would call them.

A message takes this way: the A2A server library runs `execute`, which enqueues the
task, stores a future under the task id and waits for it. The worker dequeues, finds
the future, checks the budget, calls Claude, records the cost and either completes
the task or hands a subtask to a peer found in the registry. The peer's result comes
back to `/callbacks`; the last one queues the parent again. Beside all that the
initiative loop spends from the same budget and writes to the same queue.

What is hard here:

* every `await` is a place where another coroutine may change the queue, the budget,
  the tracker or the futures: what was read before it may be stale after it;
* a wake-up of the condition variable names a reader that runs later;
* failures half way: Claude or a peer raises, the queue is full, a request times out
  after it was processed, a call is cancelled while it waits;
* callbacks come late, twice, early or never;
* limits at a boundary: a full backlog, 80 % and 100 % of a budget, a limit of zero,
  a weekly limit reached in mid-week;
* heartbeats, sweeps and timeouts that race;
* workers that wait for each other in a circle, or an agent for itself;
* a shared repository that several clones push to: rejected pushes, rebases, locks
  read from a clone that is behind;
* a process that dies between sending a report and saving that it did.

The properties that make each part correct are in section 3; `PROJECT.json` lists
the hazards one by one at their lines.

## 2. Modules

| module | models | extends or instantiates |
|---|---|---|
| `PriorityInbox` | abstract: four FIFO lanes, a reader takes the most urgent oldest entry | |
| `TaskQueue` | `queue.py` with its waiters | refines `PriorityInbox` |
| `BudgetManager` | `budget.py` | |
| `Spending` | worker, initiative loop and reset loop over one budget | extends `BudgetManager` |
| `FanOut` | abstract: subtasks are handed out and delivered together | |
| `SubtaskTracker` | `subtask_tracker.py` and the tracker's side of `/callbacks` | refines `FanOut` |
| `TaskService` | abstract: a message is refused, or accepted and answered once | |
| `AgentNode` | the whole agent | instantiates `TaskQueue`, `BudgetManager`, `SubtaskTracker`; refines `TaskService` |
| `Registry` | registry, heartbeats, startup and leaving | |
| `Society` | several agents that wait for each other: `client.py`, startup, notices, delegation, initiatives, goodbyes, crashes | abstracts `AgentNode`, `TaskQueue`, `Spending`, `Registry` |
| `SharedLog` | abstract: one log that only grows, and an outbox per agent | |
| `OrgMemory` | `org_memory.py`: clones of one repository, locks | refines `SharedLog` |
| `Reporting` | `reporting.py`, driven by `tick` of `initiative.py` | |
| `MC*` | instances for TLC | |
| `*Proofs` | theorems for TLAPS | |

### How state and steps correspond to the code

*Steps.* One action is the code between two `await`s that may really suspend. The
condition variable's lock is never held across a suspension, so `enqueue`, and the
part of `dequeue` up to `wait()`, are single steps; so is `execute` up to
`await future`, because the future is stored before anything else can run. A call of
Claude, the vacation notice, the lookup of a peer and the request to it are separate
steps, and everything else may run in between.

*TaskQueue.* The heap is the sequence of entries in the order they were pushed: the
order of `(priority, timestamp)` is then (priority, position), given that
`time.monotonic()` advances between two pushes. `notify()` may choose any waiter;
asyncio chooses the first, which is one of the choices. `consumer[c]` tells a reader that
is elsewhere, one in `wait()` and one that was notified but has not run.

*BudgetManager, Spending.* Money is counted in natural numbers, so comparisons with
80 % and 100 % are exact; rounding of floats is not modelled. `cap` is
`max_budget_usd` of the call under way. `initiative_today` and `initiative_week` are
history variables: how much of the amounts came from calls without a cap. In
`Spending` midnight comes once per day of a seven-day week.

*SubtaskTracker.* The list of infos of a parent is a function from subtask ids to
statuses. `complete_subtask` and `fail_subtask` differ only in the status they set.
`delivered` is a history variable. Collecting the results and `cleanup` are one step:
the `enqueue` between them does not suspend.

*AgentNode.* `call[c]` is where `execute` stands for message `c`, `pending` is
`_pending_futures` with the call as the future's identity, `done` are the futures
that are done, `reply[c]` the last event published for `c`. The worker is
`wpc` ("dequeue", "claude", "notice", "discover", "send") with `job`, `cap`, `intent`
and `sending` as its locals. `ipc` is the initiative loop, "dead" once an exception
has left `tick`. Subtask ids are given by peers, so `PeerReceives` (the peer has
created the subtask) and `PeerAnswers` (the agent registers it) are two steps, and a
callback may come between them. `sentFor` is a history variable: the message a subtask was
created for. `PeerAnswersNoId` is a result without an id, for which the code registers
`None` and then completes the task itself. `Cancel` is a cancel request for a follow-up
that waits, or for a task left `working` whose `execute` has returned. `JobRaises` is an exception after which the `finally`
of `_process` resolves the job's future and the handler of `_run` the one its task id
stands for now. With `Midnight` at any time the days of `Spending` are abstracted away.

*Registry.* Time is counted down: `sweep` until the registry's next sweep, `timer[a]`
in the agent's sleep or request; `Tick` cannot pass a timer that has run out. `age[a]`
is `now - last_seen`. `missed` and `paused` are history variables.

*Society.* A request is a number; `place[r]` says whether it is on its way, in an inbox,
at the worker or over, `answer[r]` what state its response has ("error" for a JSON-RPC
error or a broken connection). `call[c]` is the request a coroutine waits for: an agent
has three that send, its worker, `lifespan`, which introduces it to its superior, and
one for the initiative loop (`initiative.py:162`) or the goodbye of `/admin/shutdown`
(`server.py:342`), which come one at a time in the model. The budget is used up or not, the
inbox is a set, and a lookup returns any listed agent: what is behind these is checked in
`Spending`, `TaskQueue` and `Registry`. Tasks an initiative loop gives its own agent, and
the room they take up in the inbox, are left out here (`AgentNode` has them). `Receive` is
the step of a peer whose server lets a request without `messageId` through; one that does
not is `LinkFails` (section 5). A crash empties all
that the agent keeps, since nothing is persisted, and breaks the connections of those it
should have answered.

*OrgMemory.* A commit is a record of who, which path, what the file was before, and
whether it was replayed, which is what tells its SHA from the one it had first. A clone
is the first `base[a]` commits of the remote and `local[a]` on top of them, where
`todo[a]` are the commits a rebase has still to replay. Each git command is a step. A push
that the remote accepted but whose answer was lost (`PushLost`) raises like any other; the
pull that follows finds the commits published (`Settle`) and the call pushes again.
Paths are one per agent (events, budget logs), an artifact that agents share, and a
lock file. The content of a file is the commit that wrote it.

*Reporting.* A date is its age in hours, up to the period. `step` is "over" once an
exception has left `tick` and the loop with it: an answer that is no JSON after all
(`EvaluationFails`, `initiative.py:134`), a task for itself that meets a full queue
(`Evaluated`, `initiative.py:147`) or a failing repository (`RepositoryFails`). The state file is rewritten in
place, so a crash while saving may leave the old date, the new one, or none. `sent` and
`interrupted` are history variables.

*External.* Claude ends every call, at a cost between zero and its cap, or raises.
Peers and the registry answer, refuse or fail. The A2A library runs `execute` once
per message, takes a message for a task that is new or was left working, and on a
cancel request cancels the coroutine, which cancels the future it awaits. git accepts
a push when the clone has all of the remote; a rebase replays a commit onto a file that is
as it was, drops one that changes nothing, and stops at any other. A rejected push raises
or is only reported in its result, which depends on the version of GitPython:
`QuietRejections` allows both. All clones read the same clock.

## 3. What is checked

| run | question | bounds |
|---|---|---|
| `queue` | no entry stranded (`NoLostWakeup`), four FIFO lanes, one per kind of sender (`ImplementsPriorityInbox`) | 3 readers, 3 entries, 2 ids: a notified reader can be overtaken twice |
| `spending` | tasks keep their limits whatever the initiative loop does; status and guard agree; no call without budget; a vacation is announced and left, and by whom | limits 5 / 8 / 2, initiative calls up to 2: the third call is cut short by the daily limit, the second day by the weekly |
| `tracker` | maps mirror each other, nobody waits for nothing, refinement of `FanOut` | 2 parents, 4 subtasks |
| `agent_service` | every message is refused at once or answered once (`ImplementsTaskService`, with its liveness), every subtask a peer has created is under way, tracked under its task or collected (`DelegationsAccounted`) | 3 messages of three priorities, backlog 2, 2 subtasks, no faults |
| `agent_faults` | no waiting call is forgotten, messages find their futures, every call returns, and a subtask nobody tracks was lost with its request, and nobody told `working` (`DelegationsAccounted`) | 3 messages, one a follow-up, faults, cancel requests, initiative loop, 1 subtask |
| `registry` | what is listed is fresh, one loss is tolerated, a reachable agent is never taken offline and is listed again after a restart, who is gone disappears | 2 agents, one of them over a lossy network, interval 3, timeout 1, restarts of the registry |
| `society` | whoever waits waits for something (`NoLostRequest`), no answer comes from oneself, what is tracked is over, circular waits end (`EveryRequestAnswered`), an agent comes up whatever its superior does | 2 agents, one the other's superior and one with an initiative loop, 3 requests, room for 1, 1 crash |
| `org_memory` | what is published stays, is published once and in order (`ImplementsSharedLog`), no lock in force is overwritten, a lock goes with its owner or in consequence of a late release (`LockHistoryHonest`), own paths never conflict, every write and every release of a lock ends (`WritesEnd`) | 2 clones, 3 commits of any kind, or 5 that are all about a lock that lasts one tick (only in these does time pass), any number of failures and crashes |
| `reporting` | no early report but one per crash, memory and file agree, the last report is remembered, reports go on unless the loop has ended (`ReportsGoOn`) | a period of 4, 2 crashes |

The bounds are named in the modules (`MaxBacklog`, `InitiativeMax`, `MaxTicks`,
`AgeBound`, `MissedBound`, `MaxRequests`, `MaxCrashes`, `MaxCommits`, `Free`, `MaxTime`) or are
the sizes of the sets. Entries of the registry's
store do not influence each other, so one agent of each kind shows what many would; the
budget's
arithmetic is linear, and the proofs cover every limit; three messages with a backlog
of two is the least in which a message is refused while another waits and a third is
being executed. Three timeouts fit into an interval, as 3 x 10 s fit into 60 s.
Three requests are a circle of two and a third that finds both inboxes and workers taken;
three commits are a lock, the one that follows it when it has expired and the late
release of the first, or an own file and two commits that meet. Five about the lock are
the least in which one who lost his lock to a late release takes out another's. The clones
of `org_memory` are interchangeable, so its instance lets `a1` commit first.

*Fairness.* The event loop runs every coroutine that can run: weak fairness of a
notified reader, of the worker and of an `execute` whose future is done. Weak fairness
of the worker also says that a call of Claude and a request end. A request is bounded by
the HTTP timeouts. `claude.py` sets no timeout: a call is bounded by `max_turns` and, for
tasks, by a budget, and that each turn ends is an assumption on the SDK. A git command
likewise has no timeout in the code. Midnight comes, time passes and sweeps happen. No
fairness is assumed of clients, callbacks, joining, leaving or crashing. In `Society` a
connection is made or fails, and the wait of a worker or of a joining agent ends at the
latest by its timeout; of initiatives and goodbyes nothing is assumed. A git command is
assumed to return or to fail. The reports' strong fairness says that a loop which asks Claude again
and again is answered again and again; it is only needed for `ReportsGoOn`, which says no more than
that until the loop ends, reports keep being sent even if Claude never decides on one.

*Where the code departs from its documents*: the runs that expect a violation.

| run | what it shows |
|---|---|
| `agent_synthesis` | a synthesis that was queued is skipped by the worker (`SynthesisProduced`) |
| `society_refused` | a request that a peer refused is registered as a subtask, because the refusal says `failed` or `completed`, not `rejected` (`RefusedNotTracked`); it presupposes a peer whose server accepts the request although `send_task` sends no `messageId` |
| `org_refs` | a push is rejected, the commit rebased and then published: the SHA that `write_artifact` returns is that of the commit before the rebase, which the remote never gets (`RefsResolve`, with a remote that can always be reached) |

Section 5 lists the smaller ones, which the models contain and no run singles out.

`PROJECT.json` names for each checked property a mutant, a plausible slip in one
definition, under which TLC finds the property violated.

## 4. What is proved

For every value of the constants that satisfies the named assumptions:

* `TaskQueueProofs`: `TypeCorrect` (with the backlog bound) and `WakeupsNotLost`, from
  `MaxBacklogAssumption` and `ConsumersAssumption` (finitely many readers).
  `NoLostWakeup` with `TypeOK` is inductive: an `enqueue` adds an entry and a notified
  reader or finds nobody waiting; a pop takes at least one entry per notified reader it
  removes; and a reader that goes (back) to wait has found the queue empty. `InboxRefined`
  is the safety of `ImplementsPriorityInbox`: `enqueue` posts to the lane of the sender's
  priority, a pop takes the head of the first lane that is not empty, and all else
  stutters. It needs to know what appending to the queue and removing one entry do to
  each lane, for queues of any length. A lane is therefore a recursive function of the
  queue's prefixes, and the lane lemmas are an induction over their length in the form of
  sets (`SetInduction`): a set of numbers that is not empty has a least element.
* `SpendingProofs`: `TaskSpendBounded` holds for all limits. The inductive invariant
  adds that a call under way has a cap within what was left (`CapInv`): a reset only
  lowers the amounts, and an uncapped cost is subtracted by the history variables. With
  no objectives these are zero, which gives `SpendBounded`. `StatusCurrent` (the cached
  status is the one the amounts give) needs positive limits, and yields
  `StatusAndGuardAgree`, `NoCallWithoutBudget` and `VacationsAnnounced`. `VacationLeft`
  holds in general.
* `SubtaskTrackerProofs`: `TrackerConsistent`, `ParentsWaitForPending` (nobody waits for
  nothing: the callback that empties a parent's set takes the parent out of the map), and
  `TrackerRefines`: initial states map
  to initial states and every callback to a report or a stutter. The refinement needs the
  invariant that delivered subtasks are no longer owned.
* `AgentNodeProofs`, from `SettingsAssumption` and `CallsAssumption`: `TypeCorrect` always;
  with one follow-up per task (`OneFollowUp`), whatever fails or is cancelled,
  `CallsNotOrphaned`, `MessagesFindFutures` and `EachDelegationAccounted` (every subtask is
  under way, tracked, collected, or lost with its request, and then nobody was told
  `working`); and without cancel requests `AnsweredOnce`, the safety of `TaskService`. A message leaves four traces, its entry in the queue, its
  future in `pending`, the worker's `job` and its place in `done`; `CallInv` says which go
  together in each state of its call. That a task has two messages at most makes
  `TaskEntry` name one of them. `DelegationInv` adds to it that a message has one subtask at
  most, and what became of the message of one that is not tracked. The parts keep their promises in the composition: every
  step of the agent moves the queue as an action of `TaskQueue` or not at all
  (`QueueMoves`), and the tracker likewise (`TrackerMoves`), so the theorems about them
  carry over, cited through an INSTANCE of their proof modules: `WorkerNotStranded`,
  `InboxServed` and `FanOutKept`, with faults and cancel requests. Money is spent by two
  processes and a midnight that may come during a call: `AgentSpendBounded` (for an agent
  without objectives, since an initiative call has no cap) rests on the cap of the call
  under way, `CallsHaveBudget` (for positive limits) on the cached status being the one
  the amounts give.
* `OrgMemoryProofs`, from `OrgMemoryAssumption`: `TypeCorrect`, `LocksHonest`,
  `OwnPathsNeverConflict` and `PublishedOnce`, the refinement of `SharedLog`. A rebase
  takes commits off and puts them back, so `OrgInv` speaks of all commits there are,
  wherever they are: what each said when it was made (`CommitsInv`, `OwnPathInv`,
  `LockInv`) only ever moves. Of the sequences it says that an author's commits keep their
  order (`OrderInv`) and that a commit replaces what those before it left of its path
  (`ChainInv`), which a push and a replay keep because git takes a commit only onto the
  file it was made for. `RemovalInv` and `HeldInv` say who may remove a lock, and why. That
  only a removal can be dropped by a rebase, which `SharedLog` demands, follows from the
  order: nobody else can have published the commit that is to be replayed.
  The lock does not always exclude (section 5), and two theorems say when it does:
  `OwnersRemove`, that nobody but the owner removes a lock if releases are in time
  (`NoLateRelease`), and `OneHolder`, that two agents never believe at once that they hold
  it if, besides, `acquire_lock` does not report a lock whose commit was given up or
  rejected unnoticed (`NoLockGivenUp`). Both hypotheses restrict what callers and the
  network do, so they are conditions on the behaviour and not on constants; without either
  one TLC finds two holders. The invariant (`BeliefInv`) is that a believer's lock is the
  last that was published and that he has nothing else to say about it; `PromiseInv` says
  the same of a lock whose push was accepted while the answer was lost. Whoever pushes a
  commit about the lock would have to replace it or, by `RemovalInv`, own it.
* `RegistryProofs`: `TypeCorrect`, `ListingsFresh`, `OneLoss` and `ReachableListed`. That a
  listed entry is at most four intervals old is not inductive; that its age and the time
  to the next sweep add up to no more than that is. The other two rest on `SilenceInv`:
  the age of a running agent's entry, counted at the end of the request or the sleep
  under way, is bounded by the requests lost so far. `OneLoss` assumes that three timeouts
  fit into an interval, `ReachableListed` that one does (10 s and 60 s in the code).
* `ReportingProofs`: `TypeCorrect`, `ScheduleSurvives` (memory and file agree, and the file
  remembers the last report) and from it `PeriodKept`, for every period and any number of
  crashes. The invariant adds that a report nobody asked for was due when it was begun.
* `SocietyProofs`: for any agents, reporting lines, backlog, number of requests and
  crashes, `TypeCorrect`, `RequestsNotLost`, `OthersAnswer`, `TrackedOver` and
  `AnswersFinal` (an answer given is never replaced). The inductive invariant
  `SocietyInv` keeps the books: each request is in one place, on its way, queued, worked
  on or over (`BookInv`), and an inbox has room for what it holds (`BacklogOK`); each caller and each waiting worker belongs to one request
  (`CallInv`, `WaitInv`). A lemma per action shows what it leaves alone, and the
  properties follow from the books.

Only model-checked: liveness, because fairness and ENABLED are beyond the prover. These are
`VacationEnds`, `EveryCallReturns`, `RunningGetsListed`, `GoneIsNoticed`, `WritesEnd`,
`EveryRequestAnswered`, `AgentsComeUp` and `ReportsGoOn`, and of the refinements of
`PriorityInbox` and `TaskService` the fairness; their safety is proved. Every invariant and
every action property of the runs is stated by a theorem.

## 5. Not modelled

`read_file` and `list_events`, which only read, and the artifacts and event logs of the
executor (errors there are swallowed and change no modelled state); the discovery cache
and static peers; the order of the final shutdown; authentication,
prompts, dashboard, command line and configuration. The executor's inline mode and
`EchoExecutor` serve tests. Floating point is exact. A steady stream of urgent messages
may starve others: the code promises nothing there. A result that never comes: no agent
posts to a `callback_url`, so no property about a delegated parent's end can hold.

Some departures of the code from its documents are in the models as they are in the
code, without a property of their own:

* a Claude call or a delegation that fails ends `execute` without any event for the
  task (`JobRaises` leaves `reply` alone);
* a message refused for lack of budget is answered `completed`, not `rejected`
  (`WorkerRejects`), and in the warning state broadcasts are executed like any other;
* a full queue swallows the synthesis of a parent, and the tracker forgets its results
  (the last disjunct of `Callback`);
* a callback that overtakes the answer to the delegation finds no subtask, and the
  subtask stays pending (`Callback` is enabled from `PeerReceives` on);
* a task an agent gives itself is dequeued and dropped (`WorkerSkips`);
* a vacation entered by an initiative call is announced to nobody: this is why
  `VacationAnnounced` speaks of vacations that tasks alone brought about;
* an initiative call has no cap, so an agent with objectives may exceed its limits, where
  the design document says that every call has one (`InitiativeReturns` of `Spending`);
* a self-assigned task that meets a full queue ends the initiative loop for good, and so
  does an answer whose `{...}` part is no JSON (`DecidesSelfTask`, `DecidesGibberish`, and in
  `Reporting` the step "over");
* of two follow-ups that wait on one task, the first one's future is replaced and it waits
  for ever; the runs have one follow-up per task;
* a heartbeat period is the interval and the time of the request, so two missed
  heartbeats are enough to be marked offline, not three (`OneLossTolerated` is what holds);
* two agents may both believe they hold a lock, when the push of one was given up after
  three attempts or its rejection went unnoticed. `release_lock` removes the lock file
  whoever wrote it: a late release takes out somebody else's lock, and who lost his in
  this way may take out another's, believing his own in force (`LockHistoryHonest` says
  that this is all, and `OneHolder` that without these two causes the lock excludes);
* a rebase that conflicts leaves the clone in the middle of it for good, and so does a
  crash during a rebase (`phase` "conflict" and "aborted"): nothing that is written there
  can be published any more, and the model lets such a clone rest;
* two events of one agent and kind within a second have one file name: the second
  overwrites the first (both commits stay in the history);
* a report that could not be sent counts as sent, and what it cost is not recorded;
* `create_app` builds its `A2AClient` without the token of its configuration, so peers
  that ask for one answer every request with an error (`LinkFails`);
* the payload of `send_task` has no `messageId` (`client.py:60`), which the message type of
  the A2A protocol requires. The library that checks it is not in this repository; a
  server that does so answers a JSON-RPC error before `execute` is called, which is
  `LinkFails` in `Society` and `JobRaises` in `AgentNode`. Between such peers no delegation,
  notice or introduction arrives at all, and what the models say of requests that
  arrive, with the finding `society_refused`, is about peers that let them through;
* a peer that answers without an id leaves a subtask registered under `None`, which no
  callback can resolve, though the task was completed (`PeerAnswersNoId`);
* a cancel request for a task left `working` is answered `canceled`, but its subtask is
  still tracked, and its synthesis still queued (`Cancel`);
* a push whose answer was lost is repeated and ends well, but if the pull after it fails,
  `acquire_lock` raises although the lock is published (`PushLost`, `PullRaises`);
* with a limit of zero the status starts as active and the initiative loop calls
  Claude: this is why `CallsNeedBudget` and `StatusMatchesGuard` assume positive limits;
* an agent that leaves stays listed until a sweep (`Leave`); `/admin/shutdown` ends its
  heartbeats and answers "Shutting down", but nothing ends the process.

## 6. Plan

Done, in this order: queue, budget, tracker, agent, registry; the proofs of the first
three and of the registry; society, org-memory and reports; the proofs of these and of
the agent; the refinement of the queue, and what queue, tracker and budget promise carried
over to the agent; the conditions under which the lock of org-memory excludes. Next:

1. `Discovery`: the peer cache, its fallback and the static peers, over `Registry`.
2. `Lifecycle`: the reset loop with a clock that drifts, and shutdown with a request
   under way.
