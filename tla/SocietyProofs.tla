---------------------------- MODULE SocietyProofs ----------------------------
(***************************************************************************)
(* Theorems about Society, for any number of agents, requests and crashes, *)
(* any backlog and any reporting lines.  The inductive invariant is        *)
(* SocietyInv.  Its first part is the book that place, answer, job and     *)
(* step keep together (BookInv): numbers are used in order, a request has  *)
(* an answer exactly when it is over, and a taken request and the worker   *)
(* that is at it point at each other.  The second part is about who waits  *)
(* for what: only for requests that were sent (CallInv), and a worker only *)
(* in the middle of a job (WaitInv), so that it cannot answer at the same  *)
(* time.  That answers are final (Final) carries what is known of a        *)
(* subtask when it is registered over to all later states.                 *)
(***************************************************************************)
EXTENDS Society, FiniteSetTheorems, TLAPS

RequestInv == \A r \in Requests :
  /\ place[r] = "unsent" <=> r > sent
  /\ place[r] = "away" <=> answer[r] # "none"
  /\ place[r] # "unsent" => to[r] \in Agents

JobInv == \A a \in Agents :
  /\ job[a] = NoRequest <=> step[a] = "idle"
  /\ job[a] # NoRequest => place[job[a]] = "taken" /\ to[job[a]] = a

TakenInv == \A r \in Requests : place[r] = "taken" => job[to[r]] = r

BookInv == RequestInv /\ JobInv /\ TakenInv

(* A request that is over stays so, with the answer it has.                *)
Final == \A r \in Requests : place[r] = "away" =>
  place'[r] = "away" /\ answer'[r] = answer[r] /\ to'[r] = to[r]

CallInv == \A c \in Coroutines : call[c] <= sent

WaitInv == \A a \in Agents : Waits(Worker(a)) => step[a] \in {"notice", "delegating"}

SocietyInv ==
  /\ TypeOK /\ RequestInv /\ JobInv /\ TakenInv /\ CallInv /\ WaitInv
  /\ TrackedIsOver /\ NoAnswerFromOneself
-----------------------------------------------------------------------------
(* The coroutines of an agent, and those of different agents, differ.      *)
LEMMA Workers == ASSUME NEW a \in Agents PROVE
  /\ Worker(a) \in Coroutines /\ Control(a) \in Coroutines /\ Errand(a) \in Coroutines
  /\ Worker(a)[1] = a
  /\ \A b \in Agents :
       Worker(a) # Control(b) /\ Worker(a) # Errand(b) /\ (Worker(a) = Worker(b) => a = b)
BY DEF Worker, Control, Errand, Coroutines

(* No request has the number that stands for none.                         *)
LEMMA Numbers == NoRequest \notin Requests /\ Requests \subseteq Nat /\ Nobody \notin Agents
BY SocietyAssumption DEF NoRequest, Requests

(* Types and invariant hold before anything is sent.                       *)
LEMMA TypeInit == Init => TypeOK
<1> SUFFICES ASSUME Init PROVE TypeOK
  OBVIOUS
<1>1. sent \in 0..MaxRequests /\ crashes \in 0..MaxCrashes
  BY SocietyAssumption DEF Init
<1>2. call \in [Coroutines -> Requests \cup {NoRequest}] /\ job \in [Agents -> Requests \cup {NoRequest}]
  BY DEF Init
<1>3. \A a \in Agents : Inbox(a) = {}  BY DEF Init, Inbox
<1>4. BacklogOK  BY <1>3, FS_EmptySet, SocietyAssumption DEF BacklogOK
<1> QED  BY <1>1, <1>2, <1>4 DEF Init, TypeOK, Places, Answers, Steps

(* The whole invariant holds there, too.                                   *)
LEMMA SocietyInit == Init => SocietyInv
<1> SUFFICES ASSUME Init PROVE SocietyInv
  OBVIOUS
<1>1. TypeOK  BY TypeInit
<1>2. RequestInv  BY Numbers, SocietyAssumption DEF Init, RequestInv, Requests
<1>3. JobInv /\ TakenInv  BY DEF Init, JobInv, TakenInv
<1>4. CallInv  BY DEF Init, CallInv, NoRequest
<1>5. WaitInv /\ NoAnswerFromOneself  BY Workers DEF Init, WaitInv, NoAnswerFromOneself, Waits
<1>6. TrackedIsOver  BY DEF Init, TrackedIsOver
<1> QED  BY <1>1, <1>2, <1>3, <1>4, <1>5, <1>6 DEF SocietyInv
-----------------------------------------------------------------------------
(* An inbox grows only by a request received, and only while there is room.*)
LEMMA BacklogNext == SocietyInv /\ [Next]_vars => BacklogOK'
<1> SUFFICES ASSUME SocietyInv, [Next]_vars, NEW a \in Agents
             PROVE  Cardinality(Inbox(a)') <= MaxBacklog
  BY DEF BacklogOK
<1> USE DEF SocietyInv, TypeOK, Goto
<1>1. IsFiniteSet(Requests)  BY FS_Interval, SocietyAssumption DEF Requests
<1>2. Inbox(a) \subseteq Requests  BY DEF Inbox
<1>3. IsFiniteSet(Inbox(a)) /\ Cardinality(Inbox(a)) \in Nat
  BY <1>1, <1>2, FS_Subset, FS_CardinalityType
<1>4. MaxBacklog \in Nat /\ Cardinality(Inbox(a)) <= MaxBacklog  BY SocietyAssumption DEF BacklogOK
<1>s. ASSUME Inbox(a)' \subseteq Inbox(a) PROVE Cardinality(Inbox(a)') <= MaxBacklog
  <2>1. PICK S : S = Inbox(a)'  OBVIOUS
  <2>2. Cardinality(S) \in Nat /\ Cardinality(S) <= Cardinality(Inbox(a))
    BY <1>s, <1>3, <2>1, FS_Subset, FS_CardinalityType
  <2> QED  BY <1>3, <1>4, <2>1, <2>2
<1>m. ASSUME \A r \in Requests : place'[r] = "inbox" => place[r] = "inbox" /\ to'[r] = to[r]
      PROVE  Cardinality(Inbox(a)') <= MaxBacklog
  <2>1. Inbox(a)' \subseteq Inbox(a)  BY <1>m DEF Inbox
  <2> QED  BY <2>1, <1>s
<1>u. ASSUME UNCHANGED <<to, place>> PROVE Cardinality(Inbox(a)') <= MaxBacklog
  BY <1>u, <1>m
<1>t. ASSUME NEW peer, Send(peer) PROVE Cardinality(Inbox(a)') <= MaxBacklog
  BY <1>t, <1>m DEF Send
<1>f. ASSUME NEW b \in Agents, NEW state, Finish(b, state), UNCHANGED to
      PROVE  Cardinality(Inbox(a)') <= MaxBacklog
  BY <1>f, <1>m DEF Finish, Answer
<1>2a. CASE \E r \in Requests : Network(r)
  <2>0. PICK r \in Requests : Network(r)  BY <1>2a
  <2>1. CASE /\ Cardinality(Inbox(to[r])) < MaxBacklog
             /\ place' = [place EXCEPT ![r] = "inbox"]
    <3>1. UNCHANGED to  BY <2>0 DEF Network, Receive, LinkFails
    <3>2. CASE to[r] # a
      <4>1. Inbox(a)' \subseteq Inbox(a)  BY <2>1, <3>1, <3>2 DEF Inbox
      <4> QED  BY <4>1, <1>s
    <3>3. CASE to[r] = a
      <4>1. PICK S : S = Inbox(a)'  OBVIOUS
      <4>2. S \subseteq Inbox(a) \cup {r}  BY <2>1, <3>1, <4>1 DEF Inbox
      <4>3. /\ IsFiniteSet(Inbox(a) \cup {r})
            /\ Cardinality(Inbox(a) \cup {r}) \in Nat
            /\ Cardinality(Inbox(a) \cup {r}) <= Cardinality(Inbox(a)) + 1
        <5>1. /\ IsFiniteSet(Inbox(a) \cup {r})
              /\ \/ Cardinality(Inbox(a) \cup {r}) = Cardinality(Inbox(a))
                 \/ Cardinality(Inbox(a) \cup {r}) = Cardinality(Inbox(a)) + 1
          BY <1>3, FS_AddElement
        <5> QED  BY <1>3, <5>1
      <4>4. Cardinality(S) \in Nat /\ Cardinality(S) <= Cardinality(Inbox(a) \cup {r})
        BY <4>2, <4>3, FS_Subset, FS_CardinalityType
      <4>5. Cardinality(Inbox(a)) < MaxBacklog  BY <2>1, <3>3
      <4> QED  BY <1>3, <1>4, <4>1, <4>3, <4>4, <4>5
    <3> QED  BY <3>2, <3>3
  <2>2. CASE place' = [place EXCEPT ![r] = "away"]
    <3>1. UNCHANGED to  BY <2>0 DEF Network, Receive, LinkFails
    <3> QED  BY <2>2, <3>1, <1>m
  <2> QED  BY <2>0, <2>1, <2>2 DEF Network, Receive, LinkFails, Answer
<1>3a. CASE \E b \in Agents : WorkerStep(b)
  <2>0. PICK b \in Agents : WorkerStep(b)  BY <1>3a
  <2>1. CASE \E r \in Requests : Takes(b, r)
    <3>1. PICK r \in Requests : Takes(b, r)  BY <2>1
    <3>2. /\ UNCHANGED to
          /\ \/ place' = [place EXCEPT ![r] = "taken"]
             \/ place' = [place EXCEPT ![r] = "away"]
      BY <3>1 DEF Takes, Answer
    <3> QED  BY <3>2, <1>m
  <2>2. CASE ClaudeReturns(b)  BY <2>2, <1>u DEF ClaudeReturns, requestVars
  <2>3. CASE ClaudeReturnsNotice(b)  BY <2>3, <1>t DEF ClaudeReturnsNotice, SendTask
  <2>4. CASE ClaudeRaises(b)  BY <2>4, <1>f DEF ClaudeRaises
  <2>5. CASE NoticeEnds(b)  BY <2>5, <1>u DEF NoticeEnds, requestVars
  <2>6. CASE Completes(b)  BY <2>6, <1>f DEF Completes
  <2>7. CASE \E peer \in Agents : Delegates(b, peer)  BY <2>7, <1>t DEF Delegates, SendTask
  <2>8. CASE Delegated(b)  BY <2>8, <1>f DEF Delegated
  <2>9. CASE DelegationRaises(b)  BY <2>9, <1>f DEF DelegationRaises
  <2> QED  BY <2>0, <2>1, <2>2, <2>3, <2>4, <2>5, <2>6, <2>7, <2>8, <2>9 DEF WorkerStep
<1>4a. CASE \E b \in Agents : Joined(b) \/ ErrandEnds(b)
  BY <1>4a, <1>u DEF Joined, ErrandEnds, requestVars
<1>5a. CASE \E b \in Agents : Environment(b)
  <2>0. PICK b \in Agents : Environment(b)  BY <1>5a
  <2>1. CASE OutsideSends(b)  BY <2>1, <1>t DEF OutsideSends
  <2>2. CASE Midnight(b) \/ Expires(b)  BY <2>2, <1>u DEF Midnight, Expires, requestVars
  <2>3. CASE Joins(b)  BY <2>3, <1>t, <1>u DEF Joins, SendTask, requestVars
  <2>4. CASE Tick(b)  BY <2>4, <1>t, <1>u DEF Tick, SendTask, requestVars
  <2>5. CASE SaysGoodbye(b)  BY <2>5, <1>t DEF SaysGoodbye, SendTask
  <2>6. CASE Crash(b)  BY <2>6, <1>m DEF Crash
  <2> QED  BY <2>0, <2>1, <2>2, <2>3, <2>4, <2>5, <2>6 DEF Environment
<1>6a. CASE UNCHANGED vars  BY <1>6a, <1>u DEF vars, requestVars
<1> QED  BY <1>2a, <1>3a, <1>4a, <1>5a, <1>6a DEF Next

(* Every step keeps the types: what is registered as a pair of requests is *)
(* one, since a worker that delegates has a job and waits.                 *)
LEMMA TypeNext == SocietyInv /\ [Next]_vars => TypeOK'
<1> SUFFICES ASSUME SocietyInv, [Next]_vars PROVE TypeOK'
  OBVIOUS
<1>b. BacklogOK'  BY BacklogNext
<1> USE <1>b DEF SocietyInv, TypeOK, Places, Answers, Steps, HangUp, Goto, Waits
<1>w. \A a \in Agents :
        Worker(a) \in Coroutines /\ Control(a) \in Coroutines /\ Errand(a) \in Coroutines
  BY Workers
<1>1. ASSUME NEW a \in Agents, NEW c \in Coroutines, SendTask(c, a)
      PROVE  /\ sent' \in 0..MaxRequests /\ to' \in [Requests -> Agents \cup {Nobody}]
             /\ place' \in [Requests -> Places] /\ answer' \in [Requests -> Answers]
             /\ refused' \subseteq Requests /\ call' \in [Coroutines -> Requests \cup {NoRequest}]
  BY <1>1, SocietyAssumption DEF SendTask, Send, Requests
<1>2. CASE \E r \in Requests : Network(r)
  BY <1>2 DEF Network, Receive, LinkFails, Answer, workerVars, lifeVars
<1>3. CASE \E a \in Agents : WorkerStep(a)
  <2>0. PICK a \in Agents : WorkerStep(a)  BY <1>3
  <2>1. CASE \E r \in Requests : Takes(a, r)  BY <2>1 DEF Takes, Answer, lifeVars
  <2>2. CASE ClaudeReturns(a)  BY <2>2 DEF ClaudeReturns, requestVars, lifeVars
  <2>3. CASE ClaudeReturnsNotice(a)
    <3>1. Superior[a] \in Agents  BY <2>3 DEF ClaudeReturnsNotice
    <3> QED  BY <2>3, <3>1, <1>1, <1>w DEF ClaudeReturnsNotice, lifeVars
  <2>4. CASE ClaudeRaises(a)  BY <2>4 DEF ClaudeRaises, Finish, Answer, lifeVars
  <2>5. CASE NoticeEnds(a)
    BY <2>5 DEF NoticeEnds, SendTaskEnds, SendTaskReturns, SendTaskRaises, TimesOut, requestVars, lifeVars
  <2>6. CASE Completes(a)  BY <2>6 DEF Completes, Finish, Answer, lifeVars
  <2>7. CASE \E peer \in Agents : Delegates(a, peer)  BY <2>7, <1>1, <1>w DEF Delegates, lifeVars
  <2>8. CASE Delegated(a)
    <3>1. job[a] \in Requests /\ call[Worker(a)] \in Requests
      BY <2>8, <1>w DEF Delegated, SendTaskReturns, JobInv
    <3>2. tracked' \subseteq Requests \X Requests  BY <2>8, <3>1 DEF Delegated
    <3>3. /\ place' \in [Requests -> Places] /\ answer' \in [Requests -> Answers]
          /\ job' \in [Agents -> Requests \cup {NoRequest}] /\ step' \in [Agents -> Steps]
      BY <2>8, <3>1 DEF Delegated, Finish, Answer
    <3>4. call' \in [Coroutines -> Requests \cup {NoRequest}]
      BY <2>8, <1>w DEF Delegated, SendTaskReturns
    <3> QED  BY <2>8, <3>2, <3>3, <3>4 DEF Delegated, lifeVars
  <2>9. CASE DelegationRaises(a)
    BY <2>9 DEF DelegationRaises, SendTaskRaises, TimesOut, Finish, Answer, lifeVars
  <2> QED  BY <2>0, <2>1, <2>2, <2>3, <2>4, <2>5, <2>6, <2>7, <2>8, <2>9 DEF WorkerStep
<1>4. CASE \E a \in Agents : Joined(a) \/ ErrandEnds(a)
  BY <1>4 DEF Joined, ErrandEnds, SendTaskEnds, SendTaskReturns, SendTaskRaises, TimesOut,
     requestVars, workerVars, lifeVars
<1>5. CASE \E a \in Agents : Environment(a)
  <2>0. PICK a \in Agents : Environment(a)  BY <1>5
  <2>1. CASE OutsideSends(a)
    BY <2>1, SocietyAssumption DEF OutsideSends, Send, Requests, workerVars, lifeVars
  <2>2. CASE Midnight(a)  BY <2>2 DEF Midnight, requestVars, lifeVars
  <2>3. CASE Joins(a)
    <3>1. status' \in [Agents -> {"down", "joining", "up"}] /\ listed' \subseteq Agents
      BY <2>3 DEF Joins
    <3>2. CASE UNCHANGED <<requestVars, call>>
      BY <2>3, <3>1, <3>2 DEF Joins, requestVars, workerVars
    <3>3. CASE Superior[a] \in listed /\ SendTask(Control(a), Superior[a])
      BY <2>3, <3>1, <3>3, <1>1, <1>w DEF Joins, workerVars
    <3> QED  BY <2>3, <3>2, <3>3 DEF Joins
  <2>4. CASE Expires(a)  BY <2>4 DEF Expires, requestVars, workerVars
  <2>5. CASE Crash(a)
    <3>1. crashes' \in 0..MaxCrashes  BY <2>5, SocietyAssumption DEF Crash
    <3> QED  BY <2>5, <3>1 DEF Crash
  <2>6. CASE Tick(a)
    <3>1. vacation' \subseteq Agents  BY <2>6 DEF Tick
    <3>2. CASE UNCHANGED <<requestVars, call>>
      BY <2>6, <3>1, <3>2 DEF Tick, requestVars, lifeVars
    <3>3. CASE \E peer \in listed : SendTask(Errand(a), peer)
      BY <2>6, <3>1, <3>3, <1>1, <1>w DEF Tick, lifeVars
    <3> QED  BY <2>6, <3>2, <3>3 DEF Tick
  <2>7. CASE SaysGoodbye(a)
    <3>1. Superior[a] \in Agents  BY <2>7 DEF SaysGoodbye
    <3> QED  BY <2>7, <3>1, <1>1, <1>w DEF SaysGoodbye, workerVars, lifeVars
  <2> QED  BY <2>0, <2>1, <2>2, <2>3, <2>4, <2>5, <2>6, <2>7 DEF Environment
<1>6. CASE UNCHANGED vars  BY <1>6 DEF vars, requestVars, workerVars, lifeVars
<1> QED  BY <1>2, <1>3, <1>4, <1>5, <1>6 DEF Next
-----------------------------------------------------------------------------
(* A new request takes the next number, which nobody has used.             *)
LEMMA SendKeepsBook ==
  ASSUME SocietyInv, NEW a \in Agents, Send(a), UNCHANGED job,
         \A b \in Agents : step'[b] = "idle" <=> step[b] = "idle"
  PROVE  BookInv' /\ Final
<1> USE DEF SocietyInv, TypeOK
<1>1. sent + 1 \in Requests /\ place[sent + 1] = "unsent"
  BY SocietyAssumption DEF Send, Requests, RequestInv
<1>2. RequestInv'
  BY <1>1, Numbers DEF RequestInv, Send, Requests
<1>3. JobInv' /\ TakenInv'
  BY <1>1 DEF JobInv, TakenInv, Send
<1>4. Final  BY <1>1 DEF Final, Send
<1> QED  BY <1>2, <1>3, <1>4 DEF BookInv

(* A job ends, and its request with it.                                    *)
LEMMA FinishKeepsBook ==
  ASSUME SocietyInv, NEW a \in Agents, NEW state \in Answers \ {"none"},
         step[a] # "idle", Finish(a, state), UNCHANGED <<sent, to>>
  PROVE  BookInv' /\ Final
<1> USE DEF SocietyInv, TypeOK, Finish, Answer, Goto
<1>1. job[a] \in Requests /\ place[job[a]] = "taken" /\ to[job[a]] = a
  BY DEF JobInv
<1>2. RequestInv'
  BY <1>1, Numbers DEF RequestInv
<1>3. JobInv'
  BY <1>1, Numbers DEF JobInv, TakenInv
<1>4. TakenInv'
  BY <1>1 DEF JobInv, TakenInv, RequestInv
<1>5. Final  BY <1>1 DEF Final
<1> QED  BY <1>2, <1>3, <1>4, <1>5 DEF BookInv

(* Every step keeps the book, and the answers.                             *)
LEMMA BookNext == SocietyInv /\ [Next]_vars => BookInv' /\ Final
<1> SUFFICES ASSUME SocietyInv, [Next]_vars PROVE BookInv' /\ Final
  OBVIOUS
<1> USE DEF BookInv, SocietyInv, TypeOK, Goto
<1>s. ASSUME UNCHANGED <<sent, to, place, answer, job>>,
             \A a \in Agents : step'[a] = "idle" <=> step[a] = "idle"
      PROVE  BookInv' /\ Final
  BY <1>s DEF RequestInv, JobInv, TakenInv, Final
<1>2. CASE \E r \in Requests : Network(r)
  <2>0. PICK r \in Requests : Network(r)  BY <1>2
  <2>1. place[r] = "wire"  BY <2>0 DEF Network, Receive, LinkFails
  <2>2. /\ UNCHANGED <<sent, to, job, step>>
        /\ \/ place' = [place EXCEPT ![r] = "inbox"] /\ answer' = answer
           \/ \E state \in Answers \ {"none"} : Answer(r, state)
    BY <2>0 DEF Network, Receive, LinkFails, Answers, workerVars
  <2>3. RequestInv' /\ Final  BY <2>1, <2>2, Numbers DEF RequestInv, Final, Answer
  <2>4. JobInv' /\ TakenInv'  BY <2>1, <2>2 DEF JobInv, TakenInv, Answer
  <2> QED  BY <2>3, <2>4
<1>3. CASE \E a \in Agents : WorkerStep(a)
  <2>0. PICK a \in Agents : WorkerStep(a)  BY <1>3
  <2>1. ASSUME NEW r \in Requests, Takes(a, r) PROVE BookInv' /\ Final
    <3>1. place[r] = "inbox" /\ to[r] = a /\ job[a] = NoRequest /\ UNCHANGED <<sent, to>>
      BY <2>1 DEF Takes, Inbox, Idle
    <3>2. \/ /\ place' = [place EXCEPT ![r] = "taken"] /\ answer' = answer
             /\ job' = [job EXCEPT ![a] = r] /\ step' = [step EXCEPT ![a] = "claude"]
          \/ Answer(r, "completed") /\ UNCHANGED <<job, step>>
      BY <2>1 DEF Takes
    <3>3. RequestInv' /\ Final  BY <3>1, <3>2, Numbers DEF RequestInv, Final, Answer
    <3>4. \A b \in Agents : job[b] # NoRequest => job[b] # r /\ b # a
      BY <3>1 DEF JobInv
    <3>5. JobInv'
      <4>1. CASE Answer(r, "completed") /\ UNCHANGED <<job, step>>
        BY <3>1, <3>4, <4>1 DEF JobInv, Answer
      <4>2. CASE place' = [place EXCEPT ![r] = "taken"] /\ job' = [job EXCEPT ![a] = r]
                 /\ step' = [step EXCEPT ![a] = "claude"]
        BY <3>1, <3>4, <4>2, Numbers DEF JobInv
      <4> QED  BY <3>2, <4>1, <4>2
    <3>6. TakenInv'  BY <3>1, <3>2, Numbers DEF JobInv, TakenInv, RequestInv, Answer
    <3> QED  BY <3>3, <3>5, <3>6
  <2>2. CASE ClaudeReturns(a)  BY <2>2, <1>s DEF ClaudeReturns, requestVars
  <2>3. CASE ClaudeReturnsNotice(a)
    <3>1. Superior[a] \in Agents  BY <2>3 DEF ClaudeReturnsNotice
    <3> QED  BY <2>3, <3>1, SendKeepsBook DEF ClaudeReturnsNotice, SendTask
  <2>4. CASE ClaudeRaises(a)
    BY <2>4, FinishKeepsBook DEF ClaudeRaises, Answers
  <2>5. CASE NoticeEnds(a)  BY <2>5, <1>s DEF NoticeEnds, requestVars
  <2>6. CASE Completes(a)
    BY <2>6, FinishKeepsBook DEF Completes, Answers
  <2>7. CASE \E peer \in Agents : Delegates(a, peer)
    BY <2>7, SendKeepsBook DEF Delegates, SendTask
  <2>8. CASE Delegated(a)
    BY <2>8, FinishKeepsBook DEF Delegated, Answers
  <2>9. CASE DelegationRaises(a)
    BY <2>9, FinishKeepsBook DEF DelegationRaises, Answers
  <2> QED  BY <2>0, <2>1, <2>2, <2>3, <2>4, <2>5, <2>6, <2>7, <2>8, <2>9 DEF WorkerStep
<1>4. CASE \E a \in Agents : Joined(a) \/ ErrandEnds(a)
  BY <1>4, <1>s DEF Joined, ErrandEnds, requestVars, workerVars
<1>5. CASE \E a \in Agents : Environment(a)
  <2>0. PICK a \in Agents : Environment(a)  BY <1>5
  <2>1. CASE OutsideSends(a)  BY <2>1, SendKeepsBook DEF OutsideSends, workerVars
  <2>2. CASE Midnight(a)  BY <2>2, <1>s DEF Midnight, requestVars
  <2>3. CASE Joins(a)
    <3>2. CASE UNCHANGED requestVars
      BY <2>3, <3>2, <1>s DEF Joins, requestVars, workerVars
    <3>3. CASE Superior[a] \in listed /\ SendTask(Control(a), Superior[a])
      <4>1. Superior[a] \in Agents  BY <3>3
      <4> QED  BY <2>3, <3>3, <4>1, SendKeepsBook DEF Joins, workerVars, SendTask
    <3> QED  BY <2>3, <3>2, <3>3 DEF Joins
  <2>4. CASE Expires(a)  BY <2>4, <1>s DEF Expires, requestVars, workerVars
  <2>5. CASE Crash(a)
    <3>1. \A r \in Held(a) : place[r] \in {"inbox", "taken"} /\ to[r] = a
      BY <2>5 DEF Held, Inbox, JobInv
    <3>2. RequestInv' /\ Final  BY <2>5, <3>1, Numbers DEF Crash, RequestInv, Final
    <3>3. JobInv'
      <4>1. job' = [job EXCEPT ![a] = NoRequest] /\ step' = [step EXCEPT ![a] = "idle"] /\ to' = to
        BY <2>5 DEF Crash
      <4>2. ASSUME NEW b \in Agents, b # a, job[b] # NoRequest PROVE place'[job[b]] = place[job[b]]
        <5>1. job[b] \in Requests /\ job[b] \notin Held(a)  BY <3>1, <4>2 DEF JobInv
        <5> QED  BY <2>5, <5>1 DEF Crash
      <4> QED  BY <4>1, <4>2 DEF JobInv
    <3>4. TakenInv'  BY <2>5, <3>1, Numbers DEF Crash, TakenInv, RequestInv, Held
    <3> QED  BY <3>2, <3>3, <3>4
  <2>6. CASE Tick(a)
    <3>1. CASE UNCHANGED requestVars  BY <2>6, <3>1, <1>s DEF Tick, requestVars
    <3>2. CASE \E peer \in listed : SendTask(Errand(a), peer)
      BY <2>6, <3>2, SendKeepsBook DEF Tick, SendTask
    <3> QED  BY <2>6, <3>1, <3>2 DEF Tick
  <2>7. CASE SaysGoodbye(a)
    <3>1. Superior[a] \in Agents  BY <2>7 DEF SaysGoodbye
    <3> QED  BY <2>7, <3>1, SendKeepsBook DEF SaysGoodbye, SendTask, workerVars
  <2> QED  BY <2>0, <2>1, <2>2, <2>3, <2>4, <2>5, <2>6, <2>7 DEF Environment
<1>6. CASE UNCHANGED vars  BY <1>6, <1>s DEF vars, requestVars, workerVars
<1> QED  BY <1>2, <1>3, <1>4, <1>5, <1>6 DEF Next
-----------------------------------------------------------------------------
(* However send_task ends, the coroutine was waiting and waits no more.    *)
LEMMA SendTaskEndsDef == ASSUME NEW c, SendTaskEnds(c) PROVE Waits(c) /\ HangUp(c)
BY DEF SendTaskEnds, SendTaskReturns, SendTaskRaises, TimesOut

(* A coroutine begins to wait only for the request it sends, and a worker  *)
(* only in a step that leaves it in the middle of its job.                 *)
LEMMA WaitNext == SocietyInv /\ [Next]_vars => CallInv' /\ WaitInv'
<1> SUFFICES ASSUME SocietyInv, [Next]_vars PROVE CallInv' /\ WaitInv'
  OBVIOUS
<1> USE DEF SocietyInv, TypeOK, Goto, Waits
<1>0. \A c \in Coroutines : call[c] \in Nat /\ call[c] <= sent
  <2>1. SUFFICES ASSUME NEW c \in Coroutines PROVE call[c] \in Nat /\ call[c] <= sent
    OBVIOUS
  <2>2. call[c] \in Requests \/ call[c] = 0  BY DEF NoRequest
  <2>3. call[c] \in Nat  BY <2>2 DEF Requests
  <2>4. call[c] <= sent  BY DEF CallInv
  <2> QED  BY <2>3, <2>4
<1>1. sent \in Nat  BY SocietyAssumption
<1>s. ASSUME UNCHANGED sent, \A c \in Coroutines : call'[c] \in {call[c], NoRequest},
             \A a \in Agents : step'[a] = step[a] \/ call'[Worker(a)] = NoRequest
      PROVE  CallInv' /\ WaitInv'
  <2>1. CallInv'
    <3> SUFFICES ASSUME NEW c \in Coroutines PROVE call'[c] <= sent'
      BY DEF CallInv
    <3>1. sent' = sent /\ call'[c] \in {call[c], 0}  BY <1>s DEF NoRequest
    <3>2. call[c] <= sent /\ 0 <= sent  BY <1>0, <1>1
    <3> QED  BY <3>1, <3>2
  <2>2. WaitInv'  BY <1>s, Workers DEF WaitInv
  <2> QED  BY <2>1, <2>2
<1>t. ASSUME NEW a \in Agents, NEW peer, SendTask(Worker(a), peer),
             step' \in {[step EXCEPT ![a] = "notice"], [step EXCEPT ![a] = "delegating"]}
      PROVE  CallInv' /\ WaitInv'
  <2>1. CallInv'  BY <1>t, <1>0, <1>1, Workers DEF CallInv, SendTask, Send
  <2>2. \A b \in Agents \ {a} : call'[Worker(b)] = call[Worker(b)]
    BY <1>t, Workers DEF SendTask
  <2>3. WaitInv'  BY <1>t, <2>2 DEF WaitInv
  <2> QED  BY <2>1, <2>3
<1>e. ASSUME NEW a \in Agents, NEW c \in {Control(a), Errand(a)}, NEW peer, SendTask(c, peer),
             UNCHANGED step
      PROVE  CallInv' /\ WaitInv'
  <2>1. CallInv'  BY <1>e, <1>0, <1>1, Workers DEF CallInv, SendTask, Send
  <2>2. \A b \in Agents : call'[Worker(b)] = call[Worker(b)]
    BY <1>e, Workers DEF SendTask
  <2>3. WaitInv'  BY <1>e, <2>2 DEF WaitInv
  <2> QED  BY <2>1, <2>3
<1>2. CASE \E r \in Requests : Network(r)
  BY <1>2, <1>s DEF Network, Receive, LinkFails, workerVars
<1>3. CASE \E a \in Agents : WorkerStep(a)
  <2>0. PICK a \in Agents : WorkerStep(a)  BY <1>3
  <2>w. step[a] \notin {"notice", "delegating"} => call[Worker(a)] = NoRequest
    BY DEF WaitInv
  <2>1. CASE \E r \in Requests : Takes(a, r)
    <3>1. step[a] = "idle"  BY <2>1 DEF Takes, Idle, JobInv
    <3> QED  BY <2>1, <3>1, <2>w, <1>s DEF Takes
  <2>2. CASE ClaudeReturns(a)  BY <2>2, <2>w, <1>s DEF ClaudeReturns, requestVars
  <2>3. CASE ClaudeReturnsNotice(a)  BY <2>3, <1>t DEF ClaudeReturnsNotice
  <2>4. CASE ClaudeRaises(a)  BY <2>4, <2>w, <1>s DEF ClaudeRaises, Finish
  <2>5. CASE NoticeEnds(a)
    BY <2>5, <1>s, SendTaskEndsDef, Workers DEF NoticeEnds, HangUp, requestVars
  <2>6. CASE Completes(a)  BY <2>6, <2>w, <1>s DEF Completes, Finish
  <2>7. CASE \E peer \in Agents : Delegates(a, peer)  BY <2>7, <1>t DEF Delegates
  <2>8. CASE Delegated(a)
    BY <2>8, <1>s, Workers DEF Delegated, SendTaskReturns, HangUp, Finish
  <2>9. CASE DelegationRaises(a)
    BY <2>9, <1>s, Workers DEF DelegationRaises, SendTaskRaises, TimesOut, HangUp, Finish
  <2> QED  BY <2>0, <2>1, <2>2, <2>3, <2>4, <2>5, <2>6, <2>7, <2>8, <2>9 DEF WorkerStep
<1>4. CASE \E a \in Agents : Joined(a) \/ ErrandEnds(a)
  BY <1>4, <1>s, SendTaskEndsDef, Workers DEF Joined, ErrandEnds, HangUp, requestVars, workerVars
<1>5. CASE \E a \in Agents : Environment(a)
  <2>0. PICK a \in Agents : Environment(a)  BY <1>5
  <2>1. CASE OutsideSends(a)
    BY <2>1, <1>0, <1>1 DEF OutsideSends, Send, CallInv, WaitInv, workerVars
  <2>2. CASE Midnight(a)  BY <2>2, <1>s DEF Midnight, requestVars
  <2>3. CASE Joins(a)
    <3>1. CASE UNCHANGED <<requestVars, call>>
      BY <2>3, <3>1, <1>s DEF Joins, requestVars, workerVars
    <3>2. CASE SendTask(Control(a), Superior[a])
      BY <2>3, <3>2, <1>e DEF Joins, workerVars
    <3> QED  BY <2>3, <3>1, <3>2 DEF Joins
  <2>4. CASE Expires(a)  BY <2>4, <1>s DEF Expires, requestVars, workerVars
  <2>5. CASE Crash(a)  BY <2>5, <1>s, Workers DEF Crash
  <2>6. CASE Tick(a)  BY <2>6, <1>s, <1>e DEF Tick, requestVars
  <2>7. CASE SaysGoodbye(a)  BY <2>7, <1>e DEF SaysGoodbye, workerVars
  <2> QED  BY <2>0, <2>1, <2>2, <2>3, <2>4, <2>5, <2>6, <2>7 DEF Environment
<1>6. CASE UNCHANGED vars  BY <1>6, <1>s DEF vars, requestVars, workerVars
<1> QED  BY <1>2, <1>3, <1>4, <1>5, <1>6 DEF Next
-----------------------------------------------------------------------------
(* No worker begins to wait, and an agent that says completed or working   *)
(* does not wait itself.                                                   *)
KeepsCalls == \A a \in Agents : call'[Worker(a)] \in {call[Worker(a)], NoRequest}
KeepsAnswers == \A r \in Requests :
  \/ answer'[r] \in {answer[r], "failed", "error"}
  \/ to[r] \in Agents /\ call'[Worker(to[r])] = NoRequest

(* A new request has no answer yet, and an agent's worker gives no other   *)
(* answer than a refusal or an error while it waits.                       *)
LEMMA AnswerNext == SocietyInv /\ [Next]_vars => NoAnswerFromOneself'
<1> SUFFICES ASSUME SocietyInv, [Next]_vars PROVE NoAnswerFromOneself'
  OBVIOUS
<1> USE DEF SocietyInv, TypeOK, Goto, Waits
<1>s. ASSUME UNCHANGED to, KeepsCalls, KeepsAnswers
      PROVE  NoAnswerFromOneself'
  <2> SUFFICES ASSUME NEW a \in Agents, call'[Worker(a)] # NoRequest,
                      to'[call'[Worker(a)]] = a
               PROVE  answer'[call'[Worker(a)]] \in {"none", "failed", "error"}
    BY DEF NoAnswerFromOneself
  <2>1. call[Worker(a)] \in Requests /\ call'[Worker(a)] = call[Worker(a)]
    BY <1>s, Workers DEF KeepsCalls
  <2>2. answer[call[Worker(a)]] \in {"none", "failed", "error"}
    BY <1>s, <2>1 DEF NoAnswerFromOneself
  <2> QED  BY <1>s, <2>1, <2>2 DEF KeepsAnswers
<1>c. UNCHANGED call => KeepsCalls  BY DEF KeepsCalls
<1>a. UNCHANGED answer => KeepsAnswers  BY DEF KeepsAnswers
<1>t. ASSUME NEW peer \in Agents, Send(peer),
             \/ UNCHANGED call
             \/ \E c \in Coroutines : call' = [call EXCEPT ![c] = sent']
      PROVE  NoAnswerFromOneself'
  <2> SUFFICES ASSUME NEW a \in Agents, call'[Worker(a)] # NoRequest,
                      to'[call'[Worker(a)]] = a
               PROVE  answer'[call'[Worker(a)]] \in {"none", "failed", "error"}
    BY DEF NoAnswerFromOneself
  <2>1. CASE call'[Worker(a)] = sent'
    <3>1. sent + 1 \in Requests /\ sent' = sent + 1 /\ answer' = answer
      BY <1>t, SocietyAssumption DEF Send, Requests
    <3>2. answer[sent + 1] = "none"
      BY <3>1, Numbers DEF RequestInv
    <3> QED  BY <2>1, <3>1, <3>2
  <2>2. CASE call'[Worker(a)] # sent'
    <3>1. call'[Worker(a)] = call[Worker(a)] /\ call[Worker(a)] \in Requests
      BY <1>t, <2>2, Workers
    <3>2. call[Worker(a)] # sent + 1
      <4>1. call[Worker(a)] <= sent  BY Workers DEF CallInv
      <4> QED  BY <4>1, <3>1 DEF Requests
    <3>3. to'[call[Worker(a)]] = to[call[Worker(a)]] /\ answer' = answer
      BY <1>t, <3>1, <3>2 DEF Send
    <3> QED  BY <3>1, <3>3 DEF NoAnswerFromOneself
  <2> QED  BY <2>1, <2>2
<1>2. CASE \E r \in Requests : Network(r)
  <2>1. UNCHANGED <<to, call>>  BY <1>2 DEF Network, Receive, LinkFails
  <2>2. KeepsAnswers
    BY <1>2 DEF Network, Receive, LinkFails, Answer, KeepsAnswers
  <2> QED  BY <2>1, <2>2, <1>s, <1>c
<1>3. CASE \E a \in Agents : WorkerStep(a)
  <2>0. PICK a \in Agents : WorkerStep(a)  BY <1>3
  <2>w. step[a] \notin {"notice", "delegating"} => call[Worker(a)] = NoRequest
    BY DEF WaitInv
  <2>f. ASSUME NEW state, step[a] # "idle", Finish(a, state), UNCHANGED to,
               call'[Worker(a)] = NoRequest, KeepsCalls
        PROVE  NoAnswerFromOneself'
    <3>1. job[a] \in Requests /\ to[job[a]] = a  BY <2>f DEF JobInv
    <3>2. \A r \in Requests \ {job[a]} : answer'[r] = answer[r]
      BY <2>f, <3>1 DEF Finish, Answer
    <3>3. KeepsAnswers  BY <2>f, <3>1, <3>2 DEF KeepsAnswers
    <3> QED  BY <2>f, <3>3, <1>s
  <2>1. CASE \E r \in Requests : Takes(a, r)
    <3>1. step[a] = "idle" /\ UNCHANGED <<to, call>>  BY <2>1 DEF Takes, Idle, JobInv
    <3>2. \A r \in Requests : answer'[r] = answer[r] \/ to[r] = a
      BY <2>1 DEF Takes, Answer, Inbox
    <3>3. UNCHANGED to  BY <2>1 DEF Takes
    <3>4. KeepsAnswers  BY <3>1, <3>2, <2>w DEF KeepsAnswers
    <3> QED  BY <3>1, <3>3, <3>4, <1>s, <1>c
  <2>2. CASE ClaudeReturns(a)  BY <2>2, <1>s, <1>c, <1>a DEF ClaudeReturns, requestVars
  <2>3. CASE ClaudeReturnsNotice(a)
    <3>1. Superior[a] \in Agents  BY <2>3 DEF ClaudeReturnsNotice
    <3> QED  BY <2>3, <3>1, <1>t, Workers DEF ClaudeReturnsNotice, SendTask
  <2>4. CASE ClaudeRaises(a)  BY <2>4, <2>w, <2>f, <1>c DEF ClaudeRaises
  <2>5. CASE NoticeEnds(a)
    <3>1. KeepsCalls  BY <2>5, SendTaskEndsDef, Workers DEF NoticeEnds, HangUp, KeepsCalls
    <3> QED  BY <2>5, <3>1, <1>s, <1>a DEF NoticeEnds, requestVars
  <2>6. CASE Completes(a)  BY <2>6, <2>w, <2>f, <1>c DEF Completes
  <2>7. CASE \E peer \in Agents : Delegates(a, peer)
    BY <2>7, <1>t, Workers DEF Delegates, SendTask
  <2>8. CASE Delegated(a)
    BY <2>8, <2>f, Workers DEF Delegated, SendTaskReturns, HangUp, KeepsCalls
  <2>9. CASE DelegationRaises(a)
    BY <2>9, <2>f, Workers DEF DelegationRaises, SendTaskRaises, TimesOut, HangUp, KeepsCalls
  <2> QED  BY <2>0, <2>1, <2>2, <2>3, <2>4, <2>5, <2>6, <2>7, <2>8, <2>9 DEF WorkerStep
<1>4. CASE \E a \in Agents : Joined(a) \/ ErrandEnds(a)
  <2>1. KeepsCalls
    BY <1>4, SendTaskEndsDef, Workers DEF Joined, ErrandEnds, HangUp, KeepsCalls
  <2> QED  BY <1>4, <2>1, <1>s, <1>a DEF Joined, ErrandEnds, requestVars
<1>5. CASE \E a \in Agents : Environment(a)
  <2>0. PICK a \in Agents : Environment(a)  BY <1>5
  <2>1. CASE OutsideSends(a)  BY <2>1, <1>t DEF OutsideSends
  <2>2. CASE Midnight(a)  BY <2>2, <1>s, <1>c, <1>a DEF Midnight, requestVars
  <2>3. CASE Joins(a)
    <3>1. CASE UNCHANGED <<requestVars, call>>  BY <3>1, <1>s, <1>c, <1>a DEF requestVars
    <3>2. CASE Superior[a] \in listed /\ SendTask(Control(a), Superior[a])
      <4>1. Superior[a] \in Agents  BY <3>2
      <4> QED  BY <3>2, <4>1, <1>t, Workers DEF SendTask
    <3> QED  BY <2>3, <3>1, <3>2 DEF Joins
  <2>4. CASE Expires(a)  BY <2>4, <1>s, <1>c, <1>a DEF Expires, requestVars
  <2>5. CASE Crash(a)
    <3>1. KeepsCalls  BY <2>5, Workers DEF Crash, KeepsCalls
    <3>2. KeepsAnswers  BY <2>5 DEF Crash, KeepsAnswers
    <3> QED  BY <2>5, <3>1, <3>2, <1>s DEF Crash
  <2>6. CASE Tick(a)
    <3>1. CASE UNCHANGED <<requestVars, call>>  BY <3>1, <1>s, <1>c, <1>a DEF requestVars
    <3>2. CASE \E peer \in listed : SendTask(Errand(a), peer)
      BY <3>2, <1>t, Workers DEF SendTask
    <3> QED  BY <2>6, <3>1, <3>2 DEF Tick
  <2>7. CASE SaysGoodbye(a)
    <3>1. Superior[a] \in Agents  BY <2>7 DEF SaysGoodbye
    <3> QED  BY <2>7, <3>1, <1>t, Workers DEF SaysGoodbye, SendTask
  <2> QED  BY <2>0, <2>1, <2>2, <2>3, <2>4, <2>5, <2>6, <2>7 DEF Environment
<1>6. CASE UNCHANGED vars  BY <1>6, <1>s, <1>c, <1>a DEF vars, requestVars
<1> QED  BY <1>2, <1>3, <1>4, <1>5, <1>6 DEF Next

(* A pair is registered when the subtask is over and the parent is being   *)
(* answered; both answers are final.                                       *)
LEMMA TrackedNext == SocietyInv /\ [Next]_vars => TrackedIsOver'
<1> SUFFICES ASSUME SocietyInv, [Next]_vars PROVE TrackedIsOver'
  OBVIOUS
<1> USE DEF SocietyInv, TypeOK, Goto
<1>f. Final  BY BookNext
<1>s. \A pair \in tracked : place'[pair[2]] = "away" /\ answer'[pair[1]] = "working"
  <2> SUFFICES ASSUME NEW pair \in tracked
               PROVE  place'[pair[2]] = "away" /\ answer'[pair[1]] = "working"
    OBVIOUS
  <2>1. pair[1] \in Requests /\ pair[2] \in Requests  OBVIOUS
  <2>2. place[pair[2]] = "away" /\ answer[pair[1]] = "working"  BY DEF TrackedIsOver
  <2>3. place[pair[1]] = "away"  BY <2>1, <2>2 DEF RequestInv
  <2> QED  BY <1>f, <2>1, <2>2, <2>3 DEF Final
<1>t. CASE tracked' \subseteq tracked  BY <1>s, <1>t DEF TrackedIsOver
<1>d. ASSUME NEW a \in Agents, Delegated(a) PROVE TrackedIsOver'
  <2>1. job[a] \in Requests /\ call[Worker(a)] \in Requests
    BY <1>d, Workers DEF Delegated, SendTaskReturns, Waits, JobInv
  <2>2. place[call[Worker(a)]] = "away"
    BY <1>d, <2>1 DEF Delegated, SendTaskReturns, RequestInv
  <2>3. place'[call[Worker(a)]] = "away" /\ answer'[job[a]] = "working"
    BY <1>d, <1>f, <2>1, <2>2 DEF Delegated, Finish, Answer, Final
  <2>4. tracked' = tracked \cup {<<job[a], call[Worker(a)]>>}  BY <1>d DEF Delegated
  <2> QED  BY <1>s, <2>3, <2>4 DEF TrackedIsOver
<1>n. ASSUME \A a \in Agents : ~Delegated(a) PROVE tracked' \subseteq tracked
  <2>1. CASE \E r \in Requests : Network(r)
    BY <2>1 DEF Network, Receive, LinkFails, workerVars
  <2>2. CASE \E a \in Agents : WorkerStep(a)
    BY <2>2, <1>n DEF WorkerStep, Takes, ClaudeReturns, ClaudeReturnsNotice, ClaudeRaises,
       NoticeEnds, Completes, Delegates, DelegationRaises
  <2>3. CASE \E a \in Agents : Joined(a) \/ ErrandEnds(a)
    BY <2>3 DEF Joined, ErrandEnds, workerVars
  <2>4. CASE \E a \in Agents : Environment(a)
    BY <2>4 DEF Environment, OutsideSends, Midnight, Joins, Tick, SaysGoodbye, Expires, Crash,
       workerVars
  <2>5. CASE UNCHANGED vars  BY <2>5 DEF vars, workerVars
  <2> QED  BY <2>1, <2>2, <2>3, <2>4, <2>5 DEF Next
<1> QED  BY <1>t, <1>d, <1>n

(* The invariant says of every request sent where it is.                   *)
LEMMA WaitedFor == SocietyInv => NoLostRequest
<1> SUFFICES ASSUME SocietyInv, NEW c \in Coroutines, call[c] # NoRequest, answer[call[c]] = "none"
             PROVE  place[call[c]] \in {"wire", "inbox"} \/ job[to[call[c]]] = call[c]
  BY DEF NoLostRequest, Waits
<1> USE DEF SocietyInv, TypeOK
<1>1. call[c] \in Requests /\ call[c] <= sent  BY DEF CallInv
<1>2. call[c] \in Nat /\ sent \in Nat
  <2>1. call[c] \in Nat  BY <1>1, Numbers
  <2>2. sent \in Nat  BY SocietyAssumption
  <2> QED  BY <2>1, <2>2
<1>3. ~(call[c] > sent)  BY <1>1, <1>2
<1>4. place[call[c]] \notin {"unsent", "away"}  BY <1>1, <1>3 DEF RequestInv
<1> QED  BY <1>1, <1>4 DEF TakenInv, Places

LEMMA SocietyNext == SocietyInv /\ [Next]_vars => SocietyInv'
BY TypeNext, BookNext, WaitNext, AnswerNext, TrackedNext DEF SocietyInv, BookInv

(* The invariant holds of every society.                                   *)
THEOREM SocietyInvariant == Spec => []SocietyInv
BY SocietyInit, SocietyNext, PTL DEF Spec

(* Requests, answers, calls and jobs stay well-typed.                      *)
THEOREM TypeCorrect == Spec => []TypeOK
<1>1. SocietyInv => TypeOK  BY DEF SocietyInv
<1> QED  BY <1>1, SocietyInvariant, PTL

(* Whoever waits for an answer waits for something: no crash, timeout,     *)
(* refusal or failed job leaves a caller with a request that is nowhere.   *)
THEOREM RequestsNotLost == Spec => []NoLostRequest
BY SocietyInvariant, WaitedFor, PTL

(* A worker that delegates to its own agent is never told that it is done. *)
THEOREM OthersAnswer == Spec => []NoAnswerFromOneself
<1>1. SocietyInv => NoAnswerFromOneself  BY DEF SocietyInv
<1> QED  BY <1>1, SocietyInvariant, PTL

(* Whatever is registered as a subtask is over: the peer will do no more   *)
(* for it, and only a callback that nobody sends could resolve it.         *)
THEOREM TrackedOver == Spec => []TrackedIsOver
<1>1. SocietyInv => TrackedIsOver  BY DEF SocietyInv
<1> QED  BY <1>1, SocietyInvariant, PTL

(* A request is answered at most once, and its answer never changes.       *)
THEOREM AnswersFinal == Spec => [][Final]_vars
<1>1. SocietyInv /\ [Next]_vars => [Final]_vars  BY BookNext
<1> QED  BY <1>1, SocietyInvariant, PTL DEF Spec
=============================================================================
