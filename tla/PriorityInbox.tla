---------------------------- MODULE PriorityInbox ----------------------------
(***************************************************************************)
(* What TaskQueue (src/hive/queue.py) promises its callers, said without   *)
(* a heap, a condition variable or a timestamp: an inbox with one          *)
(* first-in-first-out lane per urgency, never above its capacity; a reader *)
(* takes the oldest entry of the most urgent lane that holds one, and an   *)
(* inbox that holds an entry never leaves all its readers waiting.         *)
(***************************************************************************)
EXTENDS Naturals, Sequences, FiniteSets

CONSTANTS
  TaskIds,      \* the task ids that may be posted
  Metadata,     \* what a sender says of a task: [priority, from_agent]
  Superior,     \* the agent's superior, or NoAgent
  NoAgent,      \* "no such agent"
  Readers,      \* the coroutines that read the inbox
  MaxBacklog    \* the capacity of the inbox

VARIABLES
  lane,         \* lane[u]: the entries of urgency u, oldest first
  asking        \* the readers that found the inbox empty and now wait

vars == <<lane, asking>>

Urgencies == 1..4
Empty == \A u \in Urgencies : lane[u] = <<>>
Backlog == Len(lane[1]) + Len(lane[2]) + Len(lane[3]) + Len(lane[4])

(* The four kinds of sender the queue tells apart, most urgent first.      *)
Escalated    == {md \in Metadata : md.priority = "escalation"}
FromSuperior == {md \in Metadata : md.from_agent = Superior /\ Superior # NoAgent}
Broadcast    == {md \in Metadata : md.priority = "broadcast"}
Urgency(md) == CASE md \in Escalated                                   -> 1
                 [] md \in FromSuperior \ Escalated                    -> 2
                 [] md \in Broadcast \ FromSuperior                    -> 4
                 [] md \notin Escalated \cup FromSuperior \cup Broadcast -> 3

Init ==
  /\ lane = [u \in Urgencies |-> <<>>]
  /\ asking = {}

Post(id, md) ==
  /\ Backlog < MaxBacklog
  /\ lane' = [lane EXCEPT ![Urgency(md)] = Append(@, [task_id |-> id, metadata |-> md])]
  /\ UNCHANGED asking

Ask(r) ==
  /\ r \notin asking
  /\ Empty
  /\ asking' = asking \cup {r}
  /\ UNCHANGED lane

Take(r) ==
  /\ \E u \in Urgencies :
       /\ lane[u] # <<>>
       /\ \A v \in 1..(u - 1) : lane[v] = <<>>
       /\ lane' = [lane EXCEPT ![u] = Tail(@)]
  /\ asking' = asking \ {r}

Next ==
  \/ \E id \in TaskIds, md \in Metadata : Post(id, md)
  \/ \E r \in Readers : Ask(r) \/ Take(r)

TakeWaiting == \E r \in asking : Take(r)

Spec == Init /\ [][Next]_vars /\ WF_vars(TakeWaiting)
=============================================================================
