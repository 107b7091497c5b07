------------------------------ MODULE Society --------------------------------
(***************************************************************************)
(* Several agents that send each other tasks (client.py, executor.py,      *)
(* server.py, initiative.py).  Each agent has a bounded inbox, one worker  *)
(* that does one job at a time, a coroutine that joins the network, and    *)
(* one for its initiative loop or its goodbye.  Whoever sends a request    *)
(* waits for its answer: the peer answers when its worker has done the     *)
(* job, so the worker of an agent stands still while a peer works, or      *)
(* while a peer waits in turn.  What ends such a wait at the latest is the *)
(* timeout of the HTTP client.                                             *)
(*                                                                         *)
(* The inside of an agent is that of AgentNode, abstracted: the inbox is a *)
(* set (the order of service is the subject of TaskQueue), the budget is   *)
(* used up or not (Spending), and an agent is listed from its registration *)
(* on, until it is gone and its entry has expired (Registry).  The tasks   *)
(* that an initiative loop gives its own agent have no request and are     *)
(* left out, with the room they take up until the worker passes over them  *)
(* (AgentNode).                                                            *)
(***************************************************************************)
EXTENDS Naturals, FiniteSets

CONSTANTS
  Agents,
  Superior,     \* Superior[a]: the agent a reports to, or Nobody
  Ambitious,    \* the agents with objectives, whose initiative loop runs
  Nobody,
  MaxBacklog,   \* max_backlog of the queues
  MaxRequests,  \* bound: requests ever sent
  MaxCrashes    \* bound: agents that die

ASSUME SocietyAssumption ==
  /\ Superior \in [Agents -> Agents \cup {Nobody}] /\ Nobody \notin Agents
  /\ Ambitious \subseteq Agents
  /\ MaxBacklog \in Nat \ {0} /\ MaxRequests \in Nat /\ MaxCrashes \in Nat

Requests == 1..MaxRequests
NoRequest == 0
Coroutines == Agents \X {"worker", "control", "errand"}

VARIABLES
  sent,         \* requests sent so far; numbers them
  to,           \* to[r]: the agent r is addressed to, Nobody before it is sent
  place,        \* place[r]: where r is
  answer,       \* answer[r]: the state in the response, "none" before, "error" if
                \* the response is a JSON-RPC error or the connection broke
  refused,      \* the requests whose job the peer refused to do
  call,         \* call[c]: the request whose answer the coroutine c waits for
  job,          \* job[a]: the request a's worker is at
  step,         \* step[a]: what the worker is doing for it
  tracked,      \* <<parent, subtask>>: registered with the SubtaskTracker
  vacation,     \* the agents whose budget is used up
  status,       \* status[a]: whether a runs
  listed,       \* the agents a lookup in the registry may return
  crashes

requestVars == <<sent, to, place, answer, refused>>
workerVars == <<job, step, tracked, vacation>>
lifeVars == <<status, listed, crashes>>
vars == <<requestVars, call, workerVars, lifeVars>>

Places == {"unsent", "wire", "inbox", "taken", "away"}
Answers == {"none", "completed", "working", "failed", "error"}
Steps == {"idle", "claude", "notice", "deciding", "delegating"}
Serving == {a \in Agents : status[a] = "up"}

Inbox(a) == {r \in Requests : to[r] = a /\ place[r] = "inbox"}
BacklogOK == \A a \in Agents : Cardinality(Inbox(a)) <= MaxBacklog

TypeOK ==
  /\ sent \in 0..MaxRequests
  /\ to \in [Requests -> Agents \cup {Nobody}]
  /\ place \in [Requests -> Places]
  /\ answer \in [Requests -> Answers]
  /\ refused \subseteq Requests
  /\ call \in [Coroutines -> Requests \cup {NoRequest}]
  /\ job \in [Agents -> Requests \cup {NoRequest}]
  /\ step \in [Agents -> Steps]
  /\ tracked \subseteq Requests \X Requests
  /\ vacation \subseteq Agents
  /\ status \in [Agents -> {"down", "joining", "up"}]
  /\ listed \subseteq Agents
  /\ crashes \in 0..MaxCrashes
  /\ BacklogOK

Init ==
  /\ sent = 0
  /\ to = [r \in Requests |-> Nobody]
  /\ place = [r \in Requests |-> "unsent"]
  /\ answer = [r \in Requests |-> "none"]
  /\ refused = {}
  /\ call = [c \in Coroutines |-> NoRequest]
  /\ job = [a \in Agents |-> NoRequest]
  /\ step = [a \in Agents |-> "idle"]
  /\ tracked = {}
  /\ vacation = {}
  /\ status = [a \in Agents |-> "down"]
  /\ listed = {}
  /\ crashes = 0
-----------------------------------------------------------------------------
\* Mutants.
TimesOut_Never(c) == FALSE
SendTaskReturns_AtOnce(c) ==
  /\ call[c] # NoRequest
  /\ answer[call[c]] # "error"
  /\ call' = [call EXCEPT ![c] = NoRequest]
Finish_Unanswered(a, state) ==
  /\ job' = [job EXCEPT ![a] = NoRequest]
  /\ step' = [step EXCEPT ![a] = "idle"]
  /\ UNCHANGED <<place, answer>>
Receive_Unbounded(r) ==
  /\ place[r] = "wire"
  /\ IF to[r] \in Serving
     THEN place' = [place EXCEPT ![r] = "inbox"] /\ UNCHANGED answer
     ELSE place' = [place EXCEPT ![r] = "away"] /\ answer' = [answer EXCEPT ![r] = "error"]
  /\ UNCHANGED <<sent, to, refused, call, workerVars, lifeVars>>
Idle_Concurrent(a) == a \in Serving /\ step[a] # "claude"
-----------------------------------------------------------------------------
Send(a) ==
  /\ sent < MaxRequests
  /\ sent' = sent + 1
  /\ to' = [to EXCEPT ![sent'] = a]
  /\ place' = [place EXCEPT ![sent'] = "wire"]
  /\ UNCHANGED <<answer, refused>>

(* send_task from its POST on: c waits.                                    *)
SendTask(c, a) == Send(a) /\ call' = [call EXCEPT ![c] = sent']

Answer(r, state) ==
  /\ place' = [place EXCEPT ![r] = "away"]
  /\ answer' = [answer EXCEPT ![r] = state]

(* Somebody who is no agent: a user, the command line.                     *)
OutsideSends(a) == Send(a) /\ UNCHANGED <<call, workerVars, lifeVars>>

(* execute: into the queue, or refused when it is full; an agent that is   *)
(* still joining does not accept connections.  A request of send_task      *)
(* carries no messageId, and the message type of the A2A protocol asks for *)
(* one: a server that insists on it answers a JSON-RPC error before        *)
(* execute is called.  That server is not in this repository; what it      *)
(* would do is the step LinkFails, and the step Receive is that of one     *)
(* that lets the request through.                                          *)
Receive(r) ==
  /\ place[r] = "wire"
  /\ \/ /\ to[r] \in Serving
        /\ Cardinality(Inbox(to[r])) < MaxBacklog
        /\ place' = [place EXCEPT ![r] = "inbox"]
        /\ UNCHANGED <<answer, refused>>
     \/ /\ to[r] \in Serving
        /\ Cardinality(Inbox(to[r])) >= MaxBacklog
        /\ Answer(r, "failed")
        /\ refused' = refused \cup {r}
     \/ /\ to[r] \notin Serving
        /\ Answer(r, "error")
        /\ UNCHANGED refused
  /\ UNCHANGED <<sent, to, call, workerVars, lifeVars>>

LinkFails(r) ==
  /\ place[r] = "wire"
  /\ Answer(r, "error")
  /\ UNCHANGED <<sent, to, refused, call, workerVars, lifeVars>>

(* How the coroutine c gets over its send_task: with a result whatever     *)
(* state it says, except "rejected", which no agent answers; or with an    *)
(* A2AClientError.  A request given up is still worked on by the peer.     *)
Waits(c) == call[c] # NoRequest
HangUp(c) == call' = [call EXCEPT ![c] = NoRequest]
SendTaskReturns(c) ==
  Waits(c) /\ answer[call[c]] \notin {"none", "error", "rejected"} /\ HangUp(c)
TimesOut(c) == Waits(c) /\ answer[call[c]] = "none" /\ HangUp(c)
SendTaskRaises(c) == \/ Waits(c) /\ answer[call[c]] = "error" /\ HangUp(c)
                     \/ TimesOut(c)
SendTaskEnds(c) == SendTaskReturns(c) \/ SendTaskRaises(c)
-----------------------------------------------------------------------------
Worker(a) == <<a, "worker">>
Goto(a, next) == step' = [step EXCEPT ![a] = next]

(* The job is over: its request is answered and the worker is free.        *)
Finish(a, state) ==
  /\ Answer(job[a], state)
  /\ job' = [job EXCEPT ![a] = NoRequest]
  /\ Goto(a, "idle")

(* The next job, unless the budget is used up: then the request is         *)
(* answered as completed with a message that it was rejected.              *)
Idle(a) == a \in Serving /\ job[a] = NoRequest

Takes(a, r) ==
  /\ Idle(a)
  /\ r \in Inbox(a)
  /\ \/ /\ a \notin vacation
        /\ place' = [place EXCEPT ![r] = "taken"]
        /\ job' = [job EXCEPT ![a] = r]
        /\ Goto(a, "claude")
        /\ UNCHANGED <<answer, refused>>
     \/ /\ a \in vacation
        /\ Answer(r, "completed")
        /\ refused' = refused \cup {r}
        /\ UNCHANGED <<job, step>>
  /\ UNCHANGED <<sent, to, call, tracked, vacation, lifeVars>>

(* The cost may use the budget up; the superior is told before anything    *)
(* else happens, if it is found.                                           *)
ClaudeReturns(a) ==
  /\ step[a] = "claude"
  /\ Goto(a, "deciding")
  /\ vacation' \in {vacation, vacation \cup {a}}
  /\ UNCHANGED <<requestVars, call, job, tracked, lifeVars>>

ClaudeReturnsNotice(a) ==
  /\ step[a] = "claude"
  /\ Goto(a, "notice")
  /\ a \notin vacation
  /\ vacation' = vacation \cup {a}
  /\ Superior[a] \in listed
  /\ SendTask(Worker(a), Superior[a])
  /\ UNCHANGED <<job, tracked, lifeVars>>

NoticeEnds(a) ==
  /\ step[a] = "notice"
  /\ SendTaskEnds(Worker(a))
  /\ Goto(a, "deciding")
  /\ UNCHANGED <<requestVars, job, tracked, vacation, lifeVars>>

ClaudeRaises(a) ==
  /\ step[a] = "claude"
  /\ Finish(a, "error")
  /\ UNCHANGED <<sent, to, refused, call, tracked, vacation, lifeVars>>

(* The response asks for no delegation, or no peer is found.               *)
Completes(a) ==
  /\ step[a] = "deciding"
  /\ Finish(a, "completed")
  /\ UNCHANGED <<sent, to, refused, call, tracked, vacation, lifeVars>>

(* delegate_to_peer: the first peer with the skill, which may be the agent *)
(* itself.                                                                 *)
Delegates(a, peer) ==
  /\ step[a] = "deciding"
  /\ peer \in listed
  /\ SendTask(Worker(a), peer)
  /\ Goto(a, "delegating")
  /\ UNCHANGED <<job, tracked, vacation, lifeVars>>

Delegated(a) ==
  /\ step[a] = "delegating"
  /\ tracked' = tracked \cup {<<job[a], call[Worker(a)]>>}
  /\ SendTaskReturns(Worker(a))
  /\ Finish(a, "working")
  /\ UNCHANGED <<sent, to, refused, vacation, lifeVars>>

(* The error leaves _execute_task: the request is let go, with no answer   *)
(* published for it.                                                       *)
DelegationRaises(a) ==
  /\ step[a] = "delegating"
  /\ SendTaskRaises(Worker(a))
  /\ Finish(a, "error")
  /\ UNCHANGED <<sent, to, refused, tracked, vacation, lifeVars>>
-----------------------------------------------------------------------------
Midnight(a) ==
  /\ a \in vacation
  /\ vacation' = vacation \ {a}
  /\ UNCHANGED <<requestVars, call, job, step, tracked, lifeVars>>

Control(a) == <<a, "control">>
Errand(a) == <<a, "errand">>

(* lifespan: registered, then the introduction to the superior, if it is   *)
(* found in the registry, and only then connections are accepted.          *)
Joins(a) ==
  /\ status[a] = "down"
  /\ status' = [status EXCEPT ![a] = "joining"]
  /\ listed' = listed \cup {a}
  /\ \/ Superior[a] \in listed /\ SendTask(Control(a), Superior[a])
     \/ UNCHANGED <<requestVars, call>>
  /\ UNCHANGED <<workerVars, crashes>>

(* A failed introduction is only logged.                                   *)
Joined(a) ==
  /\ status[a] = "joining"
  /\ IF Waits(Control(a)) THEN SendTaskEnds(Control(a)) ELSE UNCHANGED call
  /\ status' = [status EXCEPT ![a] = "up"]
  /\ UNCHANGED <<requestVars, workerVars, listed, crashes>>

(* Two more that send: the initiative loop, and /admin/shutdown, one at a   *)
(* time.  Both wait for the answer and do nothing with it, nor with the    *)
(* error, but log it.                                                      *)
(*                                                                         *)
(* tick: Claude's cost may use the budget up, of which nobody is told; the *)
(* decision may be to delegate to the first peer with a skill.             *)
Tick(a) ==
  /\ a \in Serving \cap Ambitious
  /\ ~Waits(Errand(a))
  /\ vacation' \in {vacation, vacation \cup {a}}
  /\ \/ \E peer \in listed : SendTask(Errand(a), peer)
     \/ UNCHANGED <<requestVars, call>>
  /\ UNCHANGED <<job, step, tracked, lifeVars>>

(* A goodbye to the superior, if it is found.  Nothing stops then but the  *)
(* heartbeats.  That the entry may expire although the agent still serves  *)
(* is left out: listed only enables what a lookup may find, and a lookup   *)
(* may as well find nobody.                                                *)
SaysGoodbye(a) ==
  /\ a \in Serving
  /\ ~Waits(Errand(a))
  /\ Superior[a] \in listed
  /\ SendTask(Errand(a), Superior[a])
  /\ UNCHANGED <<workerVars, lifeVars>>

ErrandEnds(a) == SendTaskEnds(Errand(a)) /\ UNCHANGED <<requestVars, workerVars, lifeVars>>

Expires(a) ==
  /\ a \in listed
  /\ status[a] = "down"
  /\ listed' = listed \ {a}
  /\ UNCHANGED <<requestVars, call, workerVars, status, crashes>>

(* The process dies: its queue, its job and its calls are gone, and the    *)
(* connections of those it should have answered break.                     *)
Held(a) == Inbox(a) \cup ({job[a]} \ {NoRequest})

Crash(a) ==
  /\ crashes < MaxCrashes
  /\ status[a] # "down"
  /\ crashes' = crashes + 1
  /\ status' = [status EXCEPT ![a] = "down"]
  /\ place' = [r \in Requests |-> IF r \in Held(a) THEN "away" ELSE place[r]]
  /\ answer' = [r \in Requests |-> IF r \in Held(a) THEN "error" ELSE answer[r]]
  /\ call' = [c \in Coroutines |-> IF c[1] = a THEN NoRequest ELSE call[c]]
  /\ job' = [job EXCEPT ![a] = NoRequest]
  /\ Goto(a, "idle")
  /\ vacation' = vacation \ {a}
  /\ tracked' = {pair \in tracked : to[pair[1]] # a}
  /\ UNCHANGED <<sent, to, refused, listed>>
-----------------------------------------------------------------------------
Network(r) == Receive(r) \/ LinkFails(r)

WorkerStep(a) ==
  \/ \E r \in Requests : Takes(a, r)
  \/ ClaudeReturns(a) \/ ClaudeReturnsNotice(a) \/ ClaudeRaises(a) \/ NoticeEnds(a)
  \/ Completes(a) \/ (\E peer \in Agents : Delegates(a, peer))
  \/ Delegated(a) \/ DelegationRaises(a)

Environment(a) ==
  \/ OutsideSends(a) \/ Midnight(a) \/ Joins(a) \/ Tick(a)
  \/ SaysGoodbye(a) \/ Expires(a) \/ Crash(a)

Next ==
  \/ \E r \in Requests : Network(r)
  \/ \E a \in Agents : WorkerStep(a) \/ Joined(a) \/ ErrandEnds(a) \/ Environment(a)

(* A connection is made or fails, an answer is read and a wait times out   *)
(* (the client's 30 s), and Claude ends.  claude.py sets no timeout: that  *)
(* Claude ends is what its max_turns and its budget are for, and an        *)
(* assumption on the SDK.  Nothing is assumed of who joins or dies, of     *)
(* budgets, and of the initiative loops and goodbyes, on whose end nothing *)
(* that is checked depends.                                                *)
Fairness ==
  /\ WF_vars(\E r \in Requests : Network(r))
  /\ \A a \in Agents : WF_vars(WorkerStep(a)) /\ WF_vars(Joined(a))

Spec == Init /\ [][Next]_vars /\ Fairness
-----------------------------------------------------------------------------
(* Whoever waits for an answer waits for something: the request is under   *)
(* way, in the inbox of its agent, at its worker, or answered.             *)
NoLostRequest == \A c \in Coroutines : Waits(c) /\ answer[call[c]] = "none" =>
  \/ place[call[c]] \in {"wire", "inbox"}
  \/ job[to[call[c]]] = call[c]

(* An agent that delegates to itself waits for its own worker: such a      *)
(* request can only be refused, or fail; it never comes back as done.      *)
NoAnswerFromOneself == \A a \in Agents :
  LET r == call[Worker(a)]
  IN Waits(Worker(a)) /\ to[r] = a => answer[r] \in {"none", "failed", "error"}

(* A subtask is registered when the peer is through with it: nothing that  *)
(* is registered is still to be worked on.                                 *)
TrackedIsOver == \A pair \in tracked :
  place[pair[2]] = "away" /\ answer[pair[1]] = "working"

(* Agents that wait for each other in a circle, or for one that is down,   *)
(* all get over it: what is in an inbox is answered.                       *)
EveryRequestAnswered == \A r \in Requests : place[r] = "inbox" ~> answer[r] # "none"

(* An agent comes up, whatever its superior is doing.                      *)
AgentsComeUp == \A a \in Agents : status[a] = "joining" ~> status[a] # "joining"

(* A request that the peer refused is not registered as a subtask.         *)
RefusedNotTracked == \A pair \in tracked : pair[2] \notin refused
=============================================================================
