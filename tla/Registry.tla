------------------------------- MODULE Registry ------------------------------
(***************************************************************************)
(* The registry service (src/hive/registry) and the agents that keep       *)
(* themselves listed in it (DiscoveryClient in src/hive/discovery.py, the  *)
(* lifespan and /admin/shutdown of src/hive/server.py).  An agent registers*)
(* at startup and then again every heartbeat interval; the registry sweeps *)
(* its store every interval and marks offline whoever it has not heard     *)
(* from for more than three of them.                                       *)
(*                                                                         *)
(* Time.  Tick lets one unit of time pass for everybody; it may not pass   *)
(* over a timer that has run out.  asyncio.sleep is exact, and a request   *)
(* takes at most the HTTP timeout.                                         *)
(*                                                                         *)
(* External: the network, which delivers a request or, if it comes from a  *)
(* Lossy agent, may lose it; and whoever stops an agent or restarts the    *)
(* registry, whose store is in memory (MayRestart).                        *)
(***************************************************************************)
EXTENDS Naturals

CONSTANTS
  Agents,
  Interval,     \* heartbeat_interval, the same on both sides
  Timeout,      \* of the client's HTTP requests
  Lossy,        \* the agents whose requests may be lost
  MayRestart    \* the registry may restart

ASSUME TimesAssumption == Interval \in Nat \ {0} /\ Timeout \in Nat
ASSUME FaultsAssumption == Lossy \subseteq Agents /\ MayRestart \in BOOLEAN

VARIABLES
  status,     \* status[a] in the store; "unknown": no entry
  age,        \* age[a]: now - last_seen
  sweep,      \* time until the next check_heartbeats
  beat,       \* beat[a]: where the agent stands: not running, in its first
              \* register, in a register of the heartbeat loop, or in its sleep
  timer,      \* timer[a]: time left in that request or sleep
  received,   \* received[a]: the registry has got the request under way
  missed,     \* history: requests lost since the registry last heard of a
  paused      \* history: whether a has stopped since then

storeVars == <<status, age>>
agentVars == <<beat, timer, received>>
historyVars == <<missed, paused>>
vars == <<storeVars, sweep, agentVars, historyVars>>

Threshold == 3 * Interval
\* Bounds: an age past the last sweep that could matter, and three misses.
AgeBound == 4 * Interval + 1
MissedBound == 3

TypeOK ==
  /\ status \in [Agents -> {"unknown", "active", "offline"}]
  /\ age \in [Agents -> 0..AgeBound]
  /\ sweep \in 0..Interval
  /\ beat \in [Agents -> {"off", "joining", "posting", "asleep"}]
  /\ timer \in [Agents -> Nat]
  /\ \A a \in Agents : timer[a] <= IF beat[a] = "asleep" THEN Interval ELSE Timeout
  /\ received \in [Agents -> BOOLEAN]
  /\ missed \in [Agents -> 0..MissedBound]
  /\ paused \in [Agents -> BOOLEAN]

Init ==
  /\ status = [a \in Agents |-> "unknown"]
  /\ age = [a \in Agents |-> 0]
  /\ sweep = Interval
  /\ beat = [a \in Agents |-> "off"]
  /\ timer = [a \in Agents |-> 0]
  /\ received = [a \in Agents |-> FALSE]
  /\ missed = [a \in Agents |-> 0]
  /\ paused = [a \in Agents |-> TRUE]
-----------------------------------------------------------------------------
\* Mutants: plausible slips in the code below, used to test the properties.
Register_KeepsStatus(a) ==
  /\ status' = [status EXCEPT ![a] = IF @ = "unknown" THEN "active" ELSE @]
  /\ age' = [age EXCEPT ![a] = 0]
Register_KeepsLastSeen(a) ==
  /\ status' = [status EXCEPT ![a] = "active"]
  /\ age' = [age EXCEPT ![a] = IF status[a] = "unknown" THEN 0 ELSE @]
Expired_TwoIntervals(a) == status[a] = "active" /\ age[a] > 2 * Interval
Expired_Late(a) == status[a] = "active" /\ age[a] > 4 * Interval
Sweep_OnlyCollects ==
  /\ sweep = 0
  /\ sweep' = Interval
  /\ UNCHANGED <<storeVars, agentVars, historyVars>>
Post_WrongTimeout(a, from) ==
  /\ beat' = [beat EXCEPT ![a] = from]
  /\ timer' = [timer EXCEPT ![a] = Interval]
  /\ received' = [received EXCEPT ![a] = FALSE]
-----------------------------------------------------------------------------
(* RegistryStore.register: a new entry, or last_seen and status refreshed. *)
Register(a) ==
  /\ status' = [status EXCEPT ![a] = "active"]
  /\ age' = [age EXCEPT ![a] = 0]

(* What get_all, get_by_name, get_by_skill and get_by_role may return.     *)
Listed(a) == status[a] = "active"

Expired(a) == status[a] = "active" /\ age[a] > Threshold

(* _heartbeat_loop of the registry: check_heartbeats, and sleep again.     *)
Sweep ==
  /\ sweep = 0
  /\ status' = [a \in Agents |-> IF Expired(a) THEN "offline" ELSE status[a]]
  /\ sweep' = Interval
  /\ UNCHANGED <<age, agentVars, historyVars>>

Restart ==
  /\ MayRestart
  /\ status' = [a \in Agents |-> "unknown"]
  /\ age' = [a \in Agents |-> 0]
  /\ sweep' = Interval
  /\ UNCHANGED <<agentVars, historyVars>>
-----------------------------------------------------------------------------
(* A request of the agent is sent: DiscoveryClient.register.               *)
Post(a, from) ==
  /\ beat' = [beat EXCEPT ![a] = from]
  /\ timer' = [timer EXCEPT ![a] = Timeout]
  /\ received' = [received EXCEPT ![a] = FALSE]

(* The first thing an agent does when it starts is to register.            *)
Join(a) ==
  /\ beat[a] = "off"
  /\ Post(a, "joining")
  /\ UNCHANGED <<storeVars, sweep, historyVars>>

(* The registry gets the request.                                          *)
Receive(a) ==
  /\ beat[a] \in {"joining", "posting"}
  /\ ~received[a]
  /\ Register(a)
  /\ received' = [received EXCEPT ![a] = TRUE]
  /\ missed' = [missed EXCEPT ![a] = 0]
  /\ paused' = [paused EXCEPT ![a] = FALSE]
  /\ UNCHANGED <<sweep, beat, timer>>

(* It is answered, or it fails or times out; register returns True or      *)
(* False, and nobody looks.  The startup goes on to start the heartbeat    *)
(* loop, which registers at once, and the loop goes to sleep.              *)
RequestEnds(a) ==
  /\ beat[a] \in {"joining", "posting"}
  /\ received[a] \/ a \in Lossy
  /\ missed' = [missed EXCEPT ![a] = IF received[a] \/ @ = MissedBound THEN @ ELSE @ + 1]
  /\ \/ beat[a] = "joining" /\ Post(a, "posting")
     \/ /\ beat[a] = "posting"
        /\ beat' = [beat EXCEPT ![a] = "asleep"]
        /\ timer' = [timer EXCEPT ![a] = Interval]
        /\ UNCHANGED received
  /\ UNCHANGED <<storeVars, sweep, paused>>

Wake(a) ==
  /\ beat[a] = "asleep"
  /\ timer[a] = 0
  /\ Post(a, "posting")
  /\ UNCHANGED <<storeVars, sweep, historyVars>>

(* DiscoveryClient.deregister, by /admin/shutdown, stops the heartbeat and *)
(* tells the registry nothing; nor does close, or a crash.                 *)
Leave(a) ==
  /\ beat[a] # "off"
  /\ beat' = [beat EXCEPT ![a] = "off"]
  /\ timer' = [timer EXCEPT ![a] = 0]
  /\ paused' = [paused EXCEPT ![a] = TRUE]
  /\ UNCHANGED <<storeVars, sweep, received, missed>>

Tick ==
  /\ sweep > 0
  /\ \A a \in Agents : beat[a] # "off" => timer[a] > 0
  /\ sweep' = sweep - 1
  /\ timer' = [a \in Agents |-> IF beat[a] = "off" THEN timer[a] ELSE timer[a] - 1]
  /\ age' = [a \in Agents |-> IF age[a] = AgeBound THEN AgeBound ELSE age[a] + 1]
  /\ UNCHANGED <<status, beat, received, historyVars>>

AgentStep(a) == Receive(a) \/ RequestEnds(a) \/ Wake(a)

Next ==
  \/ \E a \in Agents : Join(a) \/ AgentStep(a) \/ Leave(a)
  \/ Sweep
  \/ Restart
  \/ Tick

(* Time passes, timers go off, and a request is received or ends.          *)
Fairness ==
  /\ WF_vars(Tick)
  /\ WF_vars(Sweep)
  /\ \A a \in Agents : WF_vars(AgentStep(a))

Spec == Init /\ [][Next]_vars /\ Fairness
-----------------------------------------------------------------------------
(* Who looks for a peer is never given one that the registry has not heard *)
(* from for more than four intervals: the time to live, and the wait for   *)
(* the sweep that enforces it.                                             *)
ListingFresh == \A a \in Agents : Listed(a) => age[a] <= 4 * Interval

(* Two heartbeats must be lost before a running agent is marked offline: a *)
(* single loss, however late the requests around it, is tolerated (as long *)
(* as three timeouts fit into an interval).                                *)
OneLossTolerated ==
  \A a \in Agents : status[a] = "offline" => paused[a] \/ missed[a] >= 2

(* An agent whose requests arrive is offline at most until its first one.  *)
ReachableStaysListed ==
  \A a \in Agents \ Lossy : status[a] = "offline" => beat[a] \in {"off", "joining"}

(* An agent that runs, and whose requests arrive, is listed again, even    *)
(* when the registry restarts.                                             *)
RunningGetsListed == \A a \in Agents \ Lossy : beat[a] = "asleep" ~> Listed(a) \/ beat[a] = "off"

(* An agent that has gone disappears from the listings.                    *)
GoneIsNoticed == \A a \in Agents : beat[a] = "off" ~> ~Listed(a) \/ beat[a] # "off"
=============================================================================
