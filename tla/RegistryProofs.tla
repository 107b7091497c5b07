--------------------------- MODULE RegistryProofs ----------------------------
(* Proofs about Registry, for every set of agents, interval and timeout.   *)
EXTENDS Registry, TLAPS

(* Time stays between the bounds of TypeOK.                                *)
LEMMA TypeInductive == TypeOK /\ [Next]_vars => TypeOK'
<1> SUFFICES ASSUME TypeOK, [Next]_vars PROVE TypeOK'
  OBVIOUS
<1>t. Interval \in Nat \ {0} /\ Timeout \in Nat /\ AgeBound \in Nat
  BY TimesAssumption DEF AgeBound
<1>b. 0 \in 0..AgeBound /\ 0 \in 0..MissedBound /\ Interval \in 0..Interval
  BY <1>t DEF MissedBound
<1>1. ASSUME NEW a \in Agents, Join(a) PROVE TypeOK'
  BY <1>1, <1>t DEF Join, Post, TypeOK, storeVars, historyVars
<1>2. ASSUME NEW a \in Agents, Receive(a) PROVE TypeOK'
  BY <1>2, <1>b DEF Receive, Register, TypeOK
<1>3. ASSUME NEW a \in Agents, RequestEnds(a) PROVE TypeOK'
  <2>1. missed' \in [Agents -> 0..MissedBound]
    BY <1>3 DEF RequestEnds, TypeOK, MissedBound
  <2>2. CASE beat[a] = "joining"
    <3>1. Post(a, "posting") /\ UNCHANGED <<storeVars, sweep, paused>>
      BY <1>3, <2>2 DEF RequestEnds
    <3>2. /\ beat' \in [Agents -> {"off", "joining", "posting", "asleep"}]
          /\ timer' \in [Agents -> Nat]
          /\ \A b \in Agents : timer'[b] <= IF beat'[b] = "asleep" THEN Interval ELSE Timeout
      BY <3>1, <1>t DEF Post, TypeOK
    <3>3. received' \in [Agents -> BOOLEAN]
      BY <3>1 DEF Post, TypeOK
    <3> QED
      BY <3>1, <3>2, <3>3, <2>1 DEF TypeOK, storeVars
  <2>3. CASE beat[a] = "posting"
    BY <1>3, <1>t, <2>1, <2>3 DEF RequestEnds, TypeOK, storeVars
  <2> QED
    BY <1>3, <2>2, <2>3 DEF RequestEnds
<1>4. ASSUME NEW a \in Agents, Wake(a) PROVE TypeOK'
  BY <1>4, <1>t DEF Wake, Post, TypeOK, storeVars, historyVars
<1>5. ASSUME NEW a \in Agents, Leave(a) PROVE TypeOK'
  BY <1>5, <1>t DEF Leave, TypeOK, storeVars
<1>6. CASE Sweep
  BY <1>6, <1>b DEF Sweep, TypeOK, agentVars, historyVars
<1>7. CASE Restart
  BY <1>7, <1>b DEF Restart, TypeOK, agentVars, historyVars
<1>8. CASE Tick
  <2>1. sweep - 1 \in 0..Interval
    BY <1>8, <1>t DEF Tick, TypeOK
  <2>2. age' \in [Agents -> 0..AgeBound]
    <3>1. \A a \in Agents : age[a] # AgeBound => age[a] + 1 \in 0..AgeBound
      BY <1>t DEF TypeOK
    <3>2. AgeBound \in 0..AgeBound
      BY <1>t
    <3> QED
      BY <1>8, <3>1, <3>2 DEF Tick
  <2>3. \A a \in Agents :
          /\ timer'[a] \in Nat
          /\ timer'[a] <= IF beat[a] = "asleep" THEN Interval ELSE Timeout
    <3>1. SUFFICES ASSUME NEW a \in Agents
                   PROVE /\ timer'[a] \in Nat
                         /\ timer'[a] <= IF beat[a] = "asleep" THEN Interval ELSE Timeout
      OBVIOUS
    <3>2. timer[a] \in Nat /\ timer[a] <= IF beat[a] = "asleep" THEN Interval ELSE Timeout
      BY DEF TypeOK
    <3>3. CASE beat[a] = "off"
      BY <1>8, <3>2, <3>3 DEF Tick
    <3>4. CASE beat[a] # "off"
      <4>1. timer'[a] = timer[a] - 1 /\ timer[a] > 0
        BY <1>8, <3>4 DEF Tick
      <4>2. /\ timer[a] - 1 \in Nat
            /\ timer[a] - 1 <= IF beat[a] = "asleep" THEN Interval ELSE Timeout
        BY <3>2, <4>1, <1>t
      <4> QED
        BY <4>1, <4>2
    <3> QED
      BY <3>3, <3>4
  <2>4. timer' \in [Agents -> Nat]
    BY <1>8, <2>3 DEF Tick
  <2> QED
    BY <1>8, <2>1, <2>2, <2>3, <2>4 DEF Tick, TypeOK, historyVars
<1>9. CASE UNCHANGED vars
  BY <1>9 DEF vars, storeVars, agentVars, historyVars, TypeOK
<1> QED
  BY <1>1, <1>2, <1>3, <1>4, <1>5, <1>6, <1>7, <1>8, <1>9 DEF Next, AgentStep

LEMMA TypeInitially == Init => TypeOK
<1> SUFFICES ASSUME Init PROVE TypeOK
  OBVIOUS
<1>1. Interval \in Nat \ {0} /\ Timeout \in Nat
  BY TimesAssumption
<1>2. 0 \in 0..AgeBound /\ 0 \in 0..MissedBound /\ Interval \in 0..Interval
  BY <1>1 DEF AgeBound, MissedBound
<1> QED
  BY <1>1, <1>2 DEF Init, TypeOK

(* The state of the store and of the heartbeat loops stays well-formed.    *)
THEOREM TypeCorrect == Spec => []TypeOK
<1> QED
  BY TypeInitially, TypeInductive, PTL DEF Spec
-----------------------------------------------------------------------------
(* ListingFresh is not inductive: an entry as old as it allows must meet a *)
(* sweep at once.  What is inductive is that the age of a listed entry and *)
(* the time left to the next sweep add up to no more than four intervals.  *)
SweepInTime == \A a \in Agents : Listed(a) => age[a] + sweep <= 4 * Interval

LEMMA SweepInTimeInductive == TypeOK /\ SweepInTime /\ [Next]_vars => SweepInTime'
<1> SUFFICES ASSUME TypeOK, SweepInTime, [Next]_vars,
                    NEW b \in Agents, status'[b] = "active"
             PROVE  age'[b] + sweep' <= 4 * Interval
  BY DEF SweepInTime, Listed
<1>t. /\ Interval \in Nat \ {0} /\ sweep \in Nat /\ sweep <= Interval /\ age[b] \in Nat
  BY TimesAssumption DEF TypeOK
<1>h. status[b] = "active" => age[b] + sweep <= 4 * Interval
  BY DEF SweepInTime, Listed
<1>1. CASE UNCHANGED <<storeVars, sweep>>
  BY <1>1, <1>h DEF storeVars
<1>2. ASSUME NEW a \in Agents, Receive(a) PROVE age'[b] + sweep' <= 4 * Interval
  <2>1. sweep' = sweep
    BY <1>2 DEF Receive
  <2>2. CASE a = b
    <3>1. age'[b] = 0
      BY <1>2, <2>2 DEF Receive, Register, TypeOK
    <3>2. 0 + sweep <= 4 * Interval
      BY <1>t
    <3> QED
      BY <2>1, <3>1, <3>2
  <2>3. CASE a # b
    <3>1. age'[b] = age[b] /\ status'[b] = status[b]
      BY <1>2, <2>3 DEF Receive, Register, TypeOK
    <3> QED
      BY <1>h, <2>1, <3>1
  <2> QED
    BY <2>2, <2>3
<1>3. CASE Sweep
  <2>1. age'[b] = age[b] /\ sweep' = Interval
    BY <1>3 DEF Sweep
  <2>2. status[b] = "active" /\ ~(age[b] > Threshold)
    BY <1>3 DEF Sweep, Expired
  <2>3. age[b] + Interval <= 4 * Interval
    BY <1>t, <2>2 DEF Threshold
  <2> QED
    BY <2>1, <2>3
<1>4. CASE Restart
  BY <1>4 DEF Restart
<1>5. CASE Tick
  <2>1. status[b] = "active" /\ sweep' = sweep - 1 /\ sweep > 0
    BY <1>5 DEF Tick
  <2>2. age'[b] = age[b] + 1
    <3>1. age[b] # AgeBound
      BY <1>t, <1>h, <2>1 DEF AgeBound
    <3> QED
      BY <1>5, <3>1 DEF Tick
  <2>3. (age[b] + 1) + (sweep - 1) <= 4 * Interval
    BY <1>t, <1>h, <2>1
  <2> QED
    BY <2>1, <2>2, <2>3
<1> QED
  BY <1>1, <1>2, <1>3, <1>4, <1>5
  DEF Next, AgentStep, Join, RequestEnds, Wake, Leave, vars, storeVars

(* No listed agent is older than the time to live and one sweep.           *)
THEOREM ListingsFresh == Spec => []ListingFresh
<1>1. Init => SweepInTime
  BY DEF Init, SweepInTime, Listed
<1>2. TypeOK /\ SweepInTime => ListingFresh
  <2> SUFFICES ASSUME TypeOK, SweepInTime, NEW a \in Agents, Listed(a)
               PROVE  age[a] <= 4 * Interval
    BY DEF ListingFresh
  <2>1. age[a] + sweep <= 4 * Interval
    BY DEF SweepInTime
  <2>2. age[a] \in Nat /\ sweep \in Nat /\ Interval \in Nat
    BY TimesAssumption DEF TypeOK
  <2> QED
    BY <2>1, <2>2
<1> QED
  BY TypeCorrect, SweepInTimeInductive, <1>1, <1>2, PTL DEF Spec
-----------------------------------------------------------------------------
(* How long the registry has gone without hearing of an agent that runs,   *)
(* once the request or the sleep under way is over: one request after an   *)
(* answer, and one sleep and one request more for each that got lost.      *)
SilenceBound(a) ==
  IF beat[a] = "asleep"
  THEN IF missed[a] = 0 THEN Timeout + Interval ELSE 2 * Timeout + 2 * Interval
  ELSE IF received[a] THEN Timeout
  ELSE IF missed[a] = 0 THEN 2 * Timeout + Interval ELSE 3 * Timeout + 2 * Interval

SilenceOK(a) ==
  /\ beat[a] # "off"
  /\ beat[a] = "joining" => received[a]
  /\ beat[a] # "asleep" /\ received[a] => missed[a] = 0
  /\ missed[a] < 2 => age[a] + timer[a] <= SilenceBound(a)

(* What OneLossTolerated lacks to be inductive: age alone says nothing, it *)
(* is the age at the end of the request or the sleep that stays bounded.   *)
SilenceInv == \A a \in Agents : ~paused[a] => SilenceOK(a)

(* The same for ReachableStaysListed: a reachable agent has lost nothing,  *)
(* and has been heard of by the time its first request ends.               *)
HeardOf(a) == beat[a] \in {"posting", "asleep"} \/ (beat[a] = "joining" /\ received[a])
ReachableInv ==
  \A a \in Agents \ Lossy :
    missed[a] = 0 /\ (HeardOf(a) => status[a] # "offline" /\ ~paused[a])

LEMMA SilenceInductive == TypeOK /\ SilenceInv /\ [Next]_vars => SilenceInv'
<1> SUFFICES ASSUME TypeOK, SilenceInv, [Next]_vars,
                    NEW b \in Agents, ~paused'[b]
             PROVE  SilenceOK(b)'
  BY DEF SilenceInv
<1>t. /\ Interval \in Nat \ {0} /\ Timeout \in Nat
      /\ age[b] \in Nat /\ timer[b] \in Nat /\ missed[b] \in Nat
  BY TimesAssumption DEF TypeOK, MissedBound
<1>h. ~paused[b] => SilenceOK(b)
  BY DEF SilenceInv
<1>frame. ASSUME beat'[b] = beat[b], timer'[b] = timer[b], received'[b] = received[b],
                 missed'[b] = missed[b], paused'[b] = paused[b], age'[b] = age[b]
          PROVE  SilenceOK(b)'
  BY <1>frame, <1>h DEF SilenceOK, SilenceBound
<1>1. ASSUME NEW a \in Agents, Join(a) PROVE SilenceOK(b)'
  <2>1. a # b
    BY <1>1, <1>h DEF Join, SilenceOK, historyVars
  <2> QED
    BY <1>1, <2>1, <1>frame DEF Join, Post, TypeOK, storeVars, historyVars
<1>2. ASSUME NEW a \in Agents, Receive(a) PROVE SilenceOK(b)'
  <2>1. CASE a # b
    BY <1>2, <2>1, <1>frame DEF Receive, Register, TypeOK
  <2>2. CASE a = b
    <3>1. /\ age'[b] = 0 /\ received'[b] = TRUE /\ missed'[b] = 0
          /\ timer'[b] = timer[b] /\ beat'[b] = beat[b]
          /\ beat[b] \in {"joining", "posting"}
      BY <1>2, <2>2 DEF Receive, Register, TypeOK
    <3>2. 0 + timer[b] <= Timeout
      BY <3>1, <1>t DEF TypeOK
    <3> QED
      BY <3>1, <3>2 DEF SilenceOK, SilenceBound
  <2> QED
    BY <2>1, <2>2
<1>3. ASSUME NEW a \in Agents, RequestEnds(a) PROVE SilenceOK(b)'
  <2>0. paused' = paused /\ age' = age
    BY <1>3 DEF RequestEnds, storeVars
  <2>1. CASE a # b
    BY <1>3, <2>1, <1>frame DEF RequestEnds, Post, TypeOK, storeVars
  <2>2. CASE a = b /\ beat[b] = "joining"
    <3>1. received[b] /\ missed[b] = 0 /\ age[b] + timer[b] <= Timeout
      BY <2>0, <2>2, <1>h DEF SilenceOK, SilenceBound
    <3>2. /\ beat'[b] = "posting" /\ timer'[b] = Timeout
          /\ received'[b] = FALSE /\ missed'[b] = 0
      BY <1>3, <2>2, <3>1 DEF RequestEnds, Post, TypeOK
    <3>3. age[b] + Timeout <= 2 * Timeout + Interval
      BY <3>1, <1>t
    <3> QED
      BY <2>0, <3>2, <3>3 DEF SilenceOK, SilenceBound
  <2>3. CASE a = b /\ beat[b] = "posting"
    <3>1. SilenceOK(b)
      BY <2>0, <1>h
    <3>2. beat'[b] = "asleep" /\ timer'[b] = Interval
      BY <1>3, <2>3 DEF RequestEnds, Post, TypeOK
    <3>3. CASE received[b]
      <4>1. missed'[b] = 0
        BY <1>3, <2>3, <3>1, <3>3 DEF RequestEnds, SilenceOK, TypeOK
      <4>2. age[b] + timer[b] <= Timeout
        BY <2>3, <3>1, <3>3 DEF SilenceOK, SilenceBound
      <4>3. age[b] + Interval <= Timeout + Interval
        BY <4>2, <1>t
      <4> QED
        BY <2>0, <3>2, <4>1, <4>3 DEF SilenceOK, SilenceBound
    <3>4. CASE ~received[b] /\ missed[b] = 0
      <4>1. missed'[b] = 1
        BY <1>3, <2>3, <3>4 DEF RequestEnds, TypeOK, MissedBound
      <4>2. age[b] + timer[b] <= 2 * Timeout + Interval
        BY <2>3, <3>1, <3>4 DEF SilenceOK, SilenceBound
      <4>3. age[b] + Interval <= 2 * Timeout + 2 * Interval
        BY <4>2, <1>t
      <4> QED
        BY <2>0, <3>2, <4>1, <4>3 DEF SilenceOK, SilenceBound
    <3>5. CASE ~received[b] /\ missed[b] # 0
      <4>1. missed'[b] = IF missed[b] = MissedBound THEN missed[b] ELSE missed[b] + 1
        BY <1>3, <2>3, <3>5 DEF RequestEnds, TypeOK
      <4>2. ~(missed'[b] < 2)
        BY <4>1, <3>5, <1>t DEF MissedBound
      <4> QED
        BY <3>2, <4>2 DEF SilenceOK
    <3> QED
      BY <3>3, <3>4, <3>5
  <2> QED
    BY <1>3, <2>1, <2>2, <2>3 DEF RequestEnds
<1>4. ASSUME NEW a \in Agents, Wake(a) PROVE SilenceOK(b)'
  <2>0. paused' = paused /\ age' = age /\ missed' = missed
    BY <1>4 DEF Wake, storeVars, historyVars
  <2>1. CASE a # b
    BY <1>4, <2>0, <2>1, <1>frame DEF Wake, Post, TypeOK
  <2>2. CASE a = b
    <3>1. SilenceOK(b) /\ beat[b] = "asleep" /\ timer[b] = 0
      BY <1>4, <2>0, <2>2, <1>h DEF Wake
    <3>2. beat'[b] = "posting" /\ timer'[b] = Timeout /\ received'[b] = FALSE
      BY <1>4, <2>2 DEF Wake, Post, TypeOK
    <3>3. missed[b] = 0 => age[b] + Timeout <= 2 * Timeout + Interval
      BY <3>1, <1>t DEF SilenceOK, SilenceBound
    <3>4. missed[b] # 0 /\ missed[b] < 2 => age[b] + Timeout <= 3 * Timeout + 2 * Interval
      BY <3>1, <1>t DEF SilenceOK, SilenceBound
    <3> QED
      BY <2>0, <3>2, <3>3, <3>4 DEF SilenceOK, SilenceBound
  <2> QED
    BY <2>1, <2>2
<1>5. ASSUME NEW a \in Agents, Leave(a) PROVE SilenceOK(b)'
  <2>1. a # b
    BY <1>5 DEF Leave, TypeOK
  <2> QED
    BY <1>5, <2>1, <1>frame DEF Leave, TypeOK, storeVars
<1>6. CASE Sweep
  BY <1>6, <1>frame DEF Sweep, agentVars, historyVars
<1>7. CASE Restart
  <2>1. age'[b] = 0 /\ UNCHANGED <<agentVars, historyVars>>
    BY <1>7 DEF Restart
  <2>2. beat' = beat /\ timer' = timer /\ received' = received /\ missed' = missed
    BY <2>1 DEF agentVars, historyVars
  <2>3. SilenceOK(b)
    BY <2>1, <1>h DEF historyVars
  <2>4. \A bound : age[b] + timer[b] <= bound /\ bound \in Nat => 0 + timer[b] <= bound
    BY <1>t
  <2>5. SilenceBound(b) \in Nat
    BY <1>t DEF SilenceBound
  <2>6. SilenceBound(b)' = SilenceBound(b)
    BY <2>2 DEF SilenceBound
  <2> QED
    BY <2>1, <2>2, <2>3, <2>4, <2>5, <2>6 DEF SilenceOK
<1>8. CASE Tick
  <2>1. beat' = beat /\ received' = received /\ missed' = missed /\ paused' = paused
    BY <1>8 DEF Tick, historyVars
  <2>2. SilenceOK(b)
    BY <2>1, <1>h
  <2>3. timer[b] > 0 /\ timer'[b] = timer[b] - 1
    BY <1>8, <2>2 DEF Tick, SilenceOK
  <2>4. age'[b] = age[b] \/ age'[b] = age[b] + 1
    BY <1>8 DEF Tick
  <2>5. SilenceBound(b) \in Nat
    BY <1>t DEF SilenceBound
  <2>6. SilenceBound(b)' = SilenceBound(b)
    BY <2>1 DEF SilenceBound
  <2>7. \A bound \in Nat : age[b] + timer[b] <= bound =>
          age[b] + (timer[b] - 1) <= bound /\ (age[b] + 1) + (timer[b] - 1) <= bound
    BY <1>t, <2>3
  <2>8. age[b] + timer[b] <= SilenceBound(b) => age'[b] + timer'[b] <= SilenceBound(b)
    BY <2>3, <2>4, <2>5, <2>7
  <2> QED
    BY <2>1, <2>2, <2>6, <2>8 DEF SilenceOK
<1>9. CASE UNCHANGED vars
  BY <1>9, <1>frame DEF vars, storeVars, agentVars, historyVars
<1> QED
  BY <1>1, <1>2, <1>3, <1>4, <1>5, <1>6, <1>7, <1>8, <1>9 DEF Next, AgentStep

LEMMA SilenceInvariant == Spec => []SilenceInv
<1>1. Init => SilenceInv
  BY DEF Init, SilenceInv
<1> QED
  BY TypeCorrect, SilenceInductive, <1>1, PTL DEF Spec

(* The age of an agent that runs and has missed less than two heartbeats.  *)
LEMMA SilenceLimit ==
  ASSUME TypeOK, SilenceInv, NEW a \in Agents, ~paused[a], missed[a] < 2
  PROVE  /\ age[a] <= 3 * Timeout + 2 * Interval
         /\ missed[a] = 0 => age[a] <= 2 * Timeout + Interval
<1>t. Interval \in Nat /\ Timeout \in Nat /\ age[a] \in Nat /\ timer[a] \in Nat
  BY TimesAssumption DEF TypeOK
<1>1. age[a] + timer[a] <= SilenceBound(a)
  BY DEF SilenceInv, SilenceOK
<1>2. /\ SilenceBound(a) \in Nat
      /\ SilenceBound(a) <= 3 * Timeout + 2 * Interval
      /\ missed[a] = 0 => SilenceBound(a) <= 2 * Timeout + Interval
  BY <1>t DEF SilenceBound
<1> QED
  BY <1>t, <1>1, <1>2

LEMMA OneLossStep ==
  ASSUME 3 * Timeout <= Interval, TypeOK, SilenceInv, OneLossTolerated, [Next]_vars
  PROVE  OneLossTolerated'
<1> SUFFICES ASSUME NEW b \in Agents, status'[b] = "offline"
             PROVE  paused'[b] \/ missed'[b] >= 2
  BY DEF OneLossTolerated
<1>t. Interval \in Nat \ {0} /\ Timeout \in Nat /\ age[b] \in Nat /\ missed[b] \in Nat
  BY TimesAssumption DEF TypeOK, MissedBound
<1>h. status[b] = "offline" => paused[b] \/ missed[b] >= 2
  BY DEF OneLossTolerated
<1>1. CASE Sweep
  <2>1. paused' = paused /\ missed' = missed
    BY <1>1 DEF Sweep, historyVars
  <2>2. CASE Expired(b)
    <3>1. age[b] > 3 * Interval
      BY <2>2 DEF Expired, Threshold
    <3>2. ~(age[b] <= 3 * Timeout + 2 * Interval)
      BY <1>t, <3>1
    <3> QED
      BY <1>t, <2>1, <3>2, SilenceLimit
  <2>3. CASE ~Expired(b)
    BY <1>1, <1>h, <2>1, <2>3 DEF Sweep
  <2> QED
    BY <2>2, <2>3
<1>2. ASSUME NEW a \in Agents, Receive(a) PROVE paused'[b] \/ missed'[b] >= 2
  <2>1. a # b
    BY <1>2 DEF Receive, Register, TypeOK
  <2> QED
    BY <1>2, <1>h, <2>1 DEF Receive, Register, TypeOK
<1>3. ASSUME NEW a \in Agents, RequestEnds(a) PROVE paused'[b] \/ missed'[b] >= 2
  <2>1. status' = status /\ paused' = paused
    BY <1>3 DEF RequestEnds, storeVars
  <2>2. missed'[b] = missed[b] \/ missed'[b] = missed[b] + 1
    BY <1>3 DEF RequestEnds, TypeOK
  <2> QED
    BY <1>t, <1>h, <2>1, <2>2
<1>4. ASSUME NEW a \in Agents, Leave(a) PROVE paused'[b] \/ missed'[b] >= 2
  <2>1. status' = status /\ missed' = missed /\ (paused[b] => paused'[b])
    BY <1>4 DEF Leave, TypeOK, storeVars
  <2> QED
    BY <1>h, <2>1
<1>5. CASE Restart
  BY <1>5 DEF Restart
<1>6. CASE UNCHANGED <<status, historyVars>>
  BY <1>6, <1>h DEF historyVars
<1> QED
  BY <1>1, <1>2, <1>3, <1>4, <1>5, <1>6
  DEF Next, AgentStep, Join, Wake, Tick, vars, storeVars, historyVars

(* Two heartbeats must be lost before a running agent is marked offline,   *)
(* whatever the agents and the times, as long as three timeouts fit into   *)
(* an interval (10 s and 60 s in the code).                                *)
THEOREM OneLoss == ASSUME 3 * Timeout <= Interval PROVE Spec => []OneLossTolerated
<1>1. Init => OneLossTolerated
  BY DEF Init, OneLossTolerated
<1>2. TypeOK /\ SilenceInv /\ OneLossTolerated /\ [Next]_vars => OneLossTolerated'
  BY OneLossStep
<1> QED
  BY TypeCorrect, SilenceInvariant, <1>1, <1>2, PTL DEF Spec
-----------------------------------------------------------------------------
LEMMA ReachableStep ==
  ASSUME Timeout <= Interval, TypeOK, SilenceInv, ReachableInv, [Next]_vars
  PROVE  ReachableInv'
<1> SUFFICES ASSUME NEW b \in Agents \ Lossy
             PROVE  /\ missed'[b] = 0
                    /\ HeardOf(b)' => status'[b] # "offline" /\ ~paused'[b]
  BY DEF ReachableInv
<1> DEFINE Goal == /\ missed'[b] = 0
                   /\ HeardOf(b)' => status'[b] # "offline" /\ ~paused'[b]
<1>t. Interval \in Nat \ {0} /\ Timeout \in Nat /\ age[b] \in Nat
  BY TimesAssumption DEF TypeOK
<1>h. missed[b] = 0 /\ (HeardOf(b) => status[b] # "offline" /\ ~paused[b])
  BY DEF ReachableInv
<1>1. ASSUME NEW a \in Agents, Join(a) PROVE Goal
  BY <1>1, <1>h DEF Join, Post, HeardOf, TypeOK, storeVars, historyVars
<1>2. ASSUME NEW a \in Agents, Receive(a) PROVE Goal
  BY <1>2, <1>h DEF Receive, Register, HeardOf, TypeOK
<1>3. ASSUME NEW a \in Agents, RequestEnds(a) PROVE Goal
  <2>1. status' = status /\ paused' = paused /\ (a = b => received[b])
    BY <1>3 DEF RequestEnds, storeVars
  <2>2. missed'[b] = 0
    BY <1>3, <1>h, <2>1 DEF RequestEnds, TypeOK
  <2>3. HeardOf(b)' => HeardOf(b)
    BY <1>3, <2>1 DEF RequestEnds, Post, HeardOf, TypeOK
  <2> QED
    BY <1>h, <2>1, <2>2, <2>3
<1>4. ASSUME NEW a \in Agents, Wake(a) PROVE Goal
  BY <1>4, <1>h DEF Wake, Post, HeardOf, TypeOK, storeVars, historyVars
<1>5. ASSUME NEW a \in Agents, Leave(a) PROVE Goal
  BY <1>5, <1>h DEF Leave, HeardOf, TypeOK, storeVars
<1>6. CASE Sweep
  <2>1. UNCHANGED <<beat, received, missed, paused>>
    BY <1>6 DEF Sweep, agentVars, historyVars
  <2>2. HeardOf(b)' <=> HeardOf(b)
    BY <2>1 DEF HeardOf
  <2>3. HeardOf(b) => ~Expired(b)
    <3> SUFFICES ASSUME HeardOf(b) PROVE ~(age[b] > 3 * Interval)
      BY DEF Expired, Threshold
    <3>1. missed[b] = 0 /\ missed[b] < 2 /\ ~paused[b]
      BY <1>h
    <3>2. age[b] <= 2 * Timeout + Interval
      BY <3>1, SilenceLimit
    <3> QED
      BY <1>t, <3>2
  <2>4. ~Expired(b) => status'[b] = status[b]
    BY <1>6 DEF Sweep
  <2> QED
    BY <1>h, <2>1, <2>2, <2>3, <2>4
<1>7. CASE Restart
  BY <1>7, <1>h DEF Restart, HeardOf, agentVars, historyVars
<1>8. CASE UNCHANGED <<status, beat, received, historyVars>>
  BY <1>8, <1>h DEF HeardOf, historyVars
<1> QED
  BY <1>1, <1>2, <1>3, <1>4, <1>5, <1>6, <1>7, <1>8
  DEF Next, AgentStep, Tick, vars, storeVars, agentVars

(* An agent whose requests arrive is never marked offline once the first   *)
(* has, as long as a timeout is no longer than an interval.                *)
THEOREM ReachableListed == ASSUME Timeout <= Interval PROVE Spec => []ReachableStaysListed
<1>1. Init => ReachableInv
  BY DEF Init, ReachableInv, HeardOf
<1>2. TypeOK /\ SilenceInv /\ ReachableInv /\ [Next]_vars => ReachableInv'
  BY ReachableStep
<1>3. TypeOK /\ ReachableInv => ReachableStaysListed
  BY DEF TypeOK, ReachableInv, ReachableStaysListed, HeardOf
<1> QED
  BY TypeCorrect, SilenceInvariant, <1>1, <1>2, <1>3, PTL DEF Spec
=============================================================================
