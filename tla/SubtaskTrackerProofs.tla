------------------------ MODULE SubtaskTrackerProofs -------------------------
(***************************************************************************)
(* Theorems about SubtaskTracker, for any number of parents and subtasks.  *)
(* The inductive invariant TrackerInv adds to the properties that what was *)
(* delivered is no longer tracked; with it every step of the tracker is a  *)
(* step of FanOut or leaves its variables alone.                           *)
(***************************************************************************)
EXTENDS SubtaskTracker, TLAPS

DeliveredGone == \A s \in delivered : subtask_to_parent[s] = NoParent
TrackerInv == TrackerTypeOK /\ MapsAgree /\ WaitsForPending /\ DeliveredGone

(* A tracked subtask is among the infos of its parent, which are those of  *)
(* a parent and map it to a status.                                        *)
LEMMA InfosOfTracked ==
  ASSUME TrackerInv, NEW s \in Subtasks, subtask_to_parent[s] # NoParent
  PROVE  /\ subtask_to_parent[s] \in Parents
         /\ s \in DOMAIN InfosOf(s)
         /\ DOMAIN InfosOf(s) \in SUBSET Subtasks
         /\ \A r \in DOMAIN InfosOf(s) : InfosOf(s)[r] \in Statuses
         /\ \A r \in Subtasks : r \in DOMAIN InfosOf(s) <=> subtask_to_parent[r] = subtask_to_parent[s]
<1>1. subtask_to_parent[s] \in Parents
  BY DEF TrackerInv, TrackerTypeOK
<1>2. InfosOf(s) \in SubtaskInfos
  BY <1>1 DEF TrackerInv, TrackerTypeOK, InfosOf
<1>3. PICK D \in SUBSET Subtasks : InfosOf(s) \in [D -> Statuses]
  BY <1>2 DEF SubtaskInfos
<1>4. \A r \in Subtasks : r \in DOMAIN InfosOf(s) <=> subtask_to_parent[r] = subtask_to_parent[s]
  BY <1>1 DEF TrackerInv, MapsAgree, InfosOf
<1> QED  BY <1>1, <1>3, <1>4

LEMMA MarkedType ==
  ASSUME TrackerInv, NEW s \in Subtasks, NEW outcome \in Outcomes, subtask_to_parent[s] # NoParent
  PROVE  Marked(s, outcome) \in [DOMAIN InfosOf(s) -> Statuses]
<1>1. InfosOf(s) \in SubtaskInfos
  BY InfosOfTracked DEF TrackerInv, TrackerTypeOK, InfosOf
<1>2. PICK D \in SUBSET Subtasks : InfosOf(s) \in [D -> Statuses]
  BY <1>1 DEF SubtaskInfos
<1>3. outcome \in Statuses  BY DEF Statuses
<1> HIDE DEF InfosOf
<1> QED  BY <1>2, <1>3 DEF Marked

LEMMA NoInfosType == NoInfos \in SubtaskInfos /\ DOMAIN NoInfos = {}
<1>1. NoInfos \in [{} -> Statuses]  BY DEF NoInfos
<1>2. {} \in SUBSET Subtasks  OBVIOUS
<1> QED  BY <1>1, <1>2 DEF SubtaskInfos, NoInfos

(* The infos of p once s is registered under it.                           *)
LEMMA RegisteredType ==
  ASSUME NEW infos \in SubtaskInfos, NEW s \in Subtasks
  PROVE  [r \in DOMAIN infos \cup {s} |-> IF r = s THEN "pending" ELSE infos[r]] \in SubtaskInfos
<1>1. PICK D \in SUBSET Subtasks : infos \in [D -> Statuses]
  BY DEF SubtaskInfos
<1>2. [r \in D \cup {s} |-> IF r = s THEN "pending" ELSE infos[r]] \in [D \cup {s} -> Statuses]
  BY <1>1 DEF Statuses
<1>3. D \cup {s} \in SUBSET Subtasks /\ DOMAIN infos = D
  BY <1>1
<1> QED  BY <1>2, <1>3 DEF SubtaskInfos

LEMMA TrackerInvInit == TrackerInit => TrackerInv
<1> SUFFICES ASSUME TrackerInit PROVE TrackerInv
  OBVIOUS
<1>1. TrackerTypeOK  BY NoInfosType DEF TrackerInit, TrackerTypeOK
<1>2. MapsAgree  BY NoInfosType, NoParentAssumption DEF TrackerInit, MapsAgree
<1>3. WaitsForPending  BY NoInfosType DEF TrackerInit, WaitsForPending, Ready
<1>4. DeliveredGone  BY DEF TrackerInit, DeliveredGone
<1> QED  BY <1>1, <1>2, <1>3, <1>4 DEF TrackerInv

LEMMA RegisterPreserves ==
  ASSUME TrackerInv, NEW p \in Parents, NEW s \in Subtasks, Fresh(s), RegisterSubtask(p, s)
  PROVE  TrackerInv'
<1> DEFINE infos == [r \in DOMAIN parent_to_subtasks[p] \cup {s} |->
                       IF r = s THEN "pending" ELSE parent_to_subtasks[p][r]]
<1>1. /\ parent_to_subtasks' = [parent_to_subtasks EXCEPT ![p] = infos]
      /\ subtask_to_parent' = [subtask_to_parent EXCEPT ![s] = p]
      /\ delivered' = delivered
  BY DEF RegisterSubtask
<1>2. /\ parent_to_subtasks \in [Parents -> SubtaskInfos]
      /\ subtask_to_parent \in [Subtasks -> Parents \cup {NoParent}]
      /\ delivered \in SUBSET Subtasks
  BY DEF TrackerInv, TrackerTypeOK
<1>3. infos \in SubtaskInfos  BY <1>2, RegisteredType
<1>4. DOMAIN infos = DOMAIN parent_to_subtasks[p] \cup {s} /\ infos[s] = "pending"
  OBVIOUS
<1> HIDE DEF infos
<1>5. TrackerTypeOK'  BY <1>1, <1>2, <1>3 DEF TrackerTypeOK
<1>6. MapsAgree'
  <2> SUFFICES ASSUME NEW q \in Parents, NEW r \in Subtasks
               PROVE  subtask_to_parent'[r] = q <=> r \in DOMAIN parent_to_subtasks'[q]
    BY DEF MapsAgree
  <2>1. subtask_to_parent[r] = q <=> r \in DOMAIN parent_to_subtasks[q]
    BY DEF TrackerInv, MapsAgree
  <2>2. CASE r = s
    BY <1>1, <1>2, <1>4, <2>1, <2>2, NoParentAssumption DEF Fresh
  <2>3. CASE r # s
    BY <1>1, <1>2, <1>4, <2>1, <2>3
  <2> QED  BY <2>2, <2>3
<1>7. WaitsForPending'
  <2>1. ~Ready(infos)  BY <1>4 DEF Ready, Outcomes
  <2> QED  BY <1>1, <1>2, <2>1 DEF TrackerInv, WaitsForPending
<1>8. DeliveredGone'
  BY <1>1, <1>2 DEF TrackerInv, DeliveredGone, Fresh
<1> QED  BY <1>5, <1>6, <1>7, <1>8 DEF TrackerInv

LEMMA NotePreserves ==
  ASSUME TrackerInv, NEW s \in Subtasks, NEW outcome \in Outcomes, Note(s, outcome)
  PROVE  TrackerInv'
<1> DEFINE p == subtask_to_parent[s]
           infos == Marked(s, outcome)
<1>1. /\ parent_to_subtasks' = [parent_to_subtasks EXCEPT ![p] = infos]
      /\ subtask_to_parent' = subtask_to_parent
      /\ delivered' = delivered
      /\ ~Ready(infos)
      /\ p # NoParent
  BY DEF Note
<1>2. /\ parent_to_subtasks \in [Parents -> SubtaskInfos]
      /\ subtask_to_parent \in [Subtasks -> Parents \cup {NoParent}]
      /\ delivered \in SUBSET Subtasks
  BY DEF TrackerInv, TrackerTypeOK
<1>3. p \in Parents /\ DOMAIN InfosOf(s) \in SUBSET Subtasks
  BY <1>1, InfosOfTracked
<1>4. infos \in [DOMAIN parent_to_subtasks[p] -> Statuses]
  BY <1>1, MarkedType DEF InfosOf
<1>5. infos \in SubtaskInfos /\ DOMAIN infos = DOMAIN parent_to_subtasks[p]
  BY <1>3, <1>4 DEF SubtaskInfos, InfosOf
<1> HIDE DEF infos, p
<1>6. TrackerTypeOK'  BY <1>1, <1>2, <1>5 DEF TrackerTypeOK
<1>7. MapsAgree'
  <2> SUFFICES ASSUME NEW q \in Parents, NEW r \in Subtasks
               PROVE  subtask_to_parent[r] = q <=> r \in DOMAIN parent_to_subtasks'[q]
    BY <1>1 DEF MapsAgree
  <2>1. subtask_to_parent[r] = q <=> r \in DOMAIN parent_to_subtasks[q]
    BY DEF TrackerInv, MapsAgree
  <2> QED  BY <1>1, <1>2, <1>5, <2>1
<1>8. WaitsForPending'
  BY <1>1, <1>2 DEF TrackerInv, WaitsForPending
<1>9. DeliveredGone'
  BY <1>1 DEF TrackerInv, DeliveredGone
<1> QED  BY <1>6, <1>7, <1>8, <1>9 DEF TrackerInv

(* What Collect does to the two maps, with the parent named.               *)
LEMMA CollectEffect ==
  ASSUME TrackerInv, NEW s \in Subtasks, NEW outcome \in Outcomes, Collect(s, outcome)
  PROVE  /\ subtask_to_parent[s] \in Parents
         /\ DOMAIN InfosOf(s) \in SUBSET Subtasks
         /\ delivered' = delivered \cup DOMAIN InfosOf(s)
         /\ parent_to_subtasks' = [parent_to_subtasks EXCEPT ![subtask_to_parent[s]] = NoInfos]
         /\ \A r \in Subtasks : subtask_to_parent'[r] =
              IF subtask_to_parent[r] = subtask_to_parent[s] THEN NoParent ELSE subtask_to_parent[r]
         /\ subtask_to_parent' \in [Subtasks -> Parents \cup {NoParent}]
<1>1. subtask_to_parent[s] # NoParent  BY DEF Collect
<1>2. /\ subtask_to_parent[s] \in Parents
      /\ DOMAIN InfosOf(s) \in SUBSET Subtasks
      /\ \A r \in Subtasks : r \in DOMAIN InfosOf(s) <=> subtask_to_parent[r] = subtask_to_parent[s]
  BY <1>1, InfosOfTracked
<1>3. subtask_to_parent' = [r \in Subtasks |->
        IF r \in DOMAIN InfosOf(s) THEN NoParent ELSE subtask_to_parent[r]]
  BY DEF Collect, Cleanup, InfosOf
<1>4. subtask_to_parent \in [Subtasks -> Parents \cup {NoParent}]
  BY DEF TrackerInv, TrackerTypeOK
<1>5. /\ delivered' = delivered \cup DOMAIN InfosOf(s)
      /\ parent_to_subtasks' = [parent_to_subtasks EXCEPT ![subtask_to_parent[s]] = NoInfos]
  BY DEF Collect, Cleanup
<1> HIDE DEF InfosOf
<1> QED  BY <1>2, <1>3, <1>4, <1>5

LEMMA CollectPreserves ==
  ASSUME TrackerInv, NEW s \in Subtasks, NEW outcome \in Outcomes, Collect(s, outcome)
  PROVE  TrackerInv'
<1> DEFINE p == subtask_to_parent[s]
<1>1. /\ p \in Parents
      /\ DOMAIN InfosOf(s) \in SUBSET Subtasks
      /\ delivered' = delivered \cup DOMAIN InfosOf(s)
      /\ parent_to_subtasks' = [parent_to_subtasks EXCEPT ![p] = NoInfos]
      /\ \A r \in Subtasks : subtask_to_parent'[r] =
           IF subtask_to_parent[r] = p THEN NoParent ELSE subtask_to_parent[r]
      /\ subtask_to_parent' \in [Subtasks -> Parents \cup {NoParent}]
  BY CollectEffect
<1>2. /\ parent_to_subtasks \in [Parents -> SubtaskInfos]
      /\ delivered \in SUBSET Subtasks
  BY DEF TrackerInv, TrackerTypeOK
<1>3. \A r \in Subtasks : r \in DOMAIN InfosOf(s) <=> subtask_to_parent[r] = p
  BY InfosOfTracked DEF Collect
<1> HIDE DEF p, InfosOf
<1>4. TrackerTypeOK'
  BY <1>1, <1>2, NoInfosType DEF TrackerTypeOK
<1>5. MapsAgree'
  <2> SUFFICES ASSUME NEW q \in Parents, NEW r \in Subtasks
               PROVE  subtask_to_parent'[r] = q <=> r \in DOMAIN parent_to_subtasks'[q]
    BY DEF MapsAgree
  <2>1. subtask_to_parent[r] = q <=> r \in DOMAIN parent_to_subtasks[q]
    BY DEF TrackerInv, MapsAgree
  <2>2. CASE q = p
    BY <1>1, <1>2, <2>2, NoInfosType, NoParentAssumption
  <2>3. CASE q # p
    BY <1>1, <1>2, <2>1, <2>3, NoParentAssumption
  <2> QED  BY <2>2, <2>3
<1>6. WaitsForPending'
  BY <1>1, <1>2, NoInfosType DEF TrackerInv, WaitsForPending, Ready
<1>7. DeliveredGone'
  BY <1>1, <1>2, <1>3 DEF TrackerInv, DeliveredGone
<1> QED  BY <1>4, <1>5, <1>6, <1>7 DEF TrackerInv

LEMMA TrackerInvNext == TrackerInv /\ [TrackerNext]_trackerVars => TrackerInv'
<1> SUFFICES ASSUME TrackerInv, [TrackerNext]_trackerVars PROVE TrackerInv'
  OBVIOUS
<1>1. CASE UNCHANGED trackerVars
  BY <1>1 DEF trackerVars, TrackerInv, TrackerTypeOK, MapsAgree, WaitsForPending, DeliveredGone
<1> QED
  BY <1>1, RegisterPreserves, NotePreserves, CollectPreserves
     DEF TrackerNext, HandleCallback, Ignore

THEOREM TrackerInvariant == TrackerSpec => []TrackerInv
<1> QED  BY TrackerInvInit, TrackerInvNext, PTL DEF TrackerSpec

(* The two maps agree: a callback finds its subtask exactly when a parent  *)
(* waits for it.                                                           *)
THEOREM TrackerConsistent == TrackerSpec => [](TrackerTypeOK /\ MapsAgree)
<1>1. TrackerInv => TrackerTypeOK /\ MapsAgree  BY DEF TrackerInv
<1> QED  BY <1>1, TrackerInvariant, PTL

(* Whoever waits, waits for a pending subtask: no parent is left with all  *)
(* its results in and no callback to come that would collect them.         *)
THEOREM ParentsWaitForPending == TrackerSpec => []WaitsForPending
<1>1. TrackerInv => WaitsForPending  BY DEF TrackerInv
<1> QED  BY <1>1, TrackerInvariant, PTL

-----------------------------------------------------------------------------
(* The refinement.  Stage is the function the mapping puts for "stage".    *)
Stage == [s \in Subtasks |-> StageOf(s)]

LEMMA StageOfTracked ==
  ASSUME TrackerInv, NEW s \in Subtasks, subtask_to_parent[s] # NoParent
  PROVE  Stage[s] = InfosOf(s)[s] /\ Stage[s] \in Statuses
<1>1. s \notin delivered  BY DEF TrackerInv, DeliveredGone
<1>2. InfosOf(s)[s] \in Statuses  BY InfosOfTracked
<1> QED  BY <1>1, <1>2 DEF Stage, StageOf

(* A subtask that keeps its parent, its status and its history keeps its   *)
(* stage.                                                                  *)
LEMMA StageKept ==
  ASSUME NEW s \in Subtasks,
         s \in delivered' <=> s \in delivered,
         subtask_to_parent'[s] = subtask_to_parent[s],
         subtask_to_parent[s] # NoParent /\ s \notin delivered =>
           parent_to_subtasks'[subtask_to_parent[s]][s] = parent_to_subtasks[subtask_to_parent[s]][s]
  PROVE  Stage'[s] = Stage[s]
<1>1. Stage[s] = StageOf(s) /\ Stage'[s] = StageOf(s)'
  BY DEF Stage
<1>2. StageOf(s)' = StageOf(s)
  BY DEF StageOf, InfosOf
<1> QED  BY <1>1, <1>2

LEMMA InitRefines == TrackerInit => Delegation!Init
<1> SUFFICES ASSUME TrackerInit PROVE Delegation!Init
  OBVIOUS
<1>1. \A s \in Subtasks : StageOf(s) = "unknown"
  BY DEF TrackerInit, StageOf
<1> QED  BY <1>1 DEF TrackerInit, Delegation!Init

LEMMA RegisterRefines ==
  ASSUME TrackerInv, NEW p \in Parents, NEW s \in Subtasks, Fresh(s), RegisterSubtask(p, s)
  PROVE  Delegation!HandOut(p, s)
<1>1. TrackerInv'  BY RegisterPreserves
<1>2. /\ subtask_to_parent' = [subtask_to_parent EXCEPT ![s] = p]
      /\ delivered' = delivered
      /\ subtask_to_parent \in [Subtasks -> Parents \cup {NoParent}]
      /\ parent_to_subtasks \in [Parents -> SubtaskInfos]
  BY DEF RegisterSubtask, TrackerInv, TrackerTypeOK
<1>3. Stage[s] = "unknown"
  BY DEF Fresh, Stage, StageOf
<1>4. ASSUME NEW r \in Subtasks, r # s PROVE Stage'[r] = Stage[r]
  <2>1. subtask_to_parent'[r] = subtask_to_parent[r]
    BY <1>2, <1>4
  <2>2. ASSUME subtask_to_parent[r] # NoParent
        PROVE  parent_to_subtasks'[subtask_to_parent[r]][r] = parent_to_subtasks[subtask_to_parent[r]][r]
    <3>1. subtask_to_parent[r] \in Parents /\ r \in DOMAIN parent_to_subtasks[subtask_to_parent[r]]
      BY <2>2, InfosOfTracked DEF InfosOf
    <3> QED  BY <1>2, <1>4, <3>1 DEF RegisterSubtask
  <2> QED  BY <1>2, <2>1, <2>2, StageKept
<1>5. Stage'[s] = "pending"
  <2>1. subtask_to_parent'[s] = p /\ s \notin delivered' /\ p # NoParent
    BY <1>2, NoParentAssumption DEF Fresh
  <2>2. parent_to_subtasks'[p][s] = "pending"
    BY <1>2 DEF RegisterSubtask
  <2> QED  BY <2>1, <2>2 DEF Stage, StageOf, InfosOf
<1>6. Stage' = [Stage EXCEPT ![s] = "pending"]
  BY <1>4, <1>5 DEF Stage
<1> QED  BY <1>2, <1>3, <1>6 DEF Delegation!HandOut, Stage

(* Whether a sibling is pending is what decides between Note and Collect.  *)
LEMMA PendingSibling ==
  ASSUME TrackerInv, NEW s \in Subtasks, NEW outcome \in Outcomes, subtask_to_parent[s] # NoParent
  PROVE  Ready(Marked(s, outcome)) <=>
           ~\E r \in Delegation!Siblings(s) : Stage[r] = "pending"
<1>1. /\ s \in DOMAIN InfosOf(s)
      /\ DOMAIN InfosOf(s) \in SUBSET Subtasks
      /\ \A r \in DOMAIN InfosOf(s) : InfosOf(s)[r] \in Statuses
      /\ \A r \in Subtasks : r \in DOMAIN InfosOf(s) <=> subtask_to_parent[r] = subtask_to_parent[s]
  BY InfosOfTracked
<1>2. \A r \in DOMAIN InfosOf(s) : Stage[r] = InfosOf(s)[r]
  <2> SUFFICES ASSUME NEW r \in DOMAIN InfosOf(s) PROVE Stage[r] = InfosOf(s)[r]
    OBVIOUS
  <2>1. r \in Subtasks /\ subtask_to_parent[r] = subtask_to_parent[s]
    BY <1>1
  <2> QED  BY <2>1, StageOfTracked DEF InfosOf
<1>3. /\ DOMAIN Marked(s, outcome) = DOMAIN InfosOf(s)
      /\ Marked(s, outcome)[s] = outcome
      /\ \A r \in DOMAIN InfosOf(s) \ {s} : Marked(s, outcome)[r] = InfosOf(s)[r]
  BY <1>1 DEF Marked
<1>4. Delegation!Siblings(s) = DOMAIN InfosOf(s) \ {s}
  BY <1>1 DEF Delegation!Siblings
<1> HIDE DEF InfosOf, Marked
<1> QED  BY <1>1, <1>2, <1>3, <1>4 DEF Ready, Outcomes, Statuses

LEMMA NoteRefines ==
  ASSUME TrackerInv, NEW s \in Subtasks, NEW outcome \in Outcomes, Note(s, outcome)
  PROVE  Delegation!Report(s, outcome)
<1>1. subtask_to_parent[s] # NoParent /\ ~Ready(Marked(s, outcome))
  BY DEF Note
<1>2. \E r \in Delegation!Siblings(s) : Stage[r] = "pending"
  BY <1>1, PendingSibling
<1>3. Stage[s] \notin {"unknown", "delivered"}
  BY <1>1, StageOfTracked DEF Statuses, Outcomes
<1>4. /\ subtask_to_parent' = subtask_to_parent
      /\ delivered' = delivered
      /\ parent_to_subtasks' = [parent_to_subtasks EXCEPT ![subtask_to_parent[s]] = Marked(s, outcome)]
      /\ parent_to_subtasks \in [Parents -> SubtaskInfos]
  BY DEF Note, TrackerInv, TrackerTypeOK
<1>5. s \in DOMAIN InfosOf(s) /\ subtask_to_parent[s] \in Parents
  BY <1>1, InfosOfTracked
<1>6. ASSUME NEW r \in Subtasks, r # s PROVE Stage'[r] = Stage[r]
  <2>1. ASSUME subtask_to_parent[r] # NoParent
        PROVE  parent_to_subtasks'[subtask_to_parent[r]][r] = parent_to_subtasks[subtask_to_parent[r]][r]
    <3>1. subtask_to_parent[r] \in Parents
      BY <2>1, InfosOfTracked
    <3>2. CASE subtask_to_parent[r] = subtask_to_parent[s]
      BY <1>4, <1>5, <1>6, <3>1, <3>2 DEF Marked, InfosOf
    <3>3. CASE subtask_to_parent[r] # subtask_to_parent[s]
      BY <1>4, <3>1, <3>3
    <3> QED  BY <3>2, <3>3
  <2> QED  BY <1>4, <2>1, StageKept
<1>7. Stage'[s] = outcome
  <2>1. s \notin delivered  BY <1>1 DEF TrackerInv, DeliveredGone
  <2>2. parent_to_subtasks'[subtask_to_parent[s]][s] = outcome
    BY <1>4, <1>5 DEF Marked
  <2> QED  BY <1>1, <1>4, <2>1, <2>2 DEF Stage, StageOf, InfosOf
<1>8. Stage' = [Stage EXCEPT ![s] = outcome]
  BY <1>6, <1>7 DEF Stage
<1> QED  BY <1>2, <1>3, <1>4, <1>8 DEF Delegation!Report, Stage

LEMMA CollectRefines ==
  ASSUME TrackerInv, NEW s \in Subtasks, NEW outcome \in Outcomes, Collect(s, outcome)
  PROVE  Delegation!Report(s, outcome)
<1>1. subtask_to_parent[s] # NoParent /\ Ready(Marked(s, outcome))
  BY DEF Collect
<1>2. ~\E r \in Delegation!Siblings(s) : Stage[r] = "pending"
  BY <1>1, PendingSibling
<1>3. Stage[s] \notin {"unknown", "delivered"}
  BY <1>1, StageOfTracked DEF Statuses, Outcomes
<1>4. /\ subtask_to_parent[s] \in Parents
      /\ delivered' = delivered \cup DOMAIN InfosOf(s)
      /\ parent_to_subtasks' = [parent_to_subtasks EXCEPT ![subtask_to_parent[s]] = NoInfos]
      /\ \A r \in Subtasks : subtask_to_parent'[r] =
           IF subtask_to_parent[r] = subtask_to_parent[s] THEN NoParent ELSE subtask_to_parent[r]
      /\ subtask_to_parent' \in [Subtasks -> Parents \cup {NoParent}]
  BY CollectEffect
<1>5. /\ \A r \in Subtasks : r \in DOMAIN InfosOf(s) <=> subtask_to_parent[r] = subtask_to_parent[s]
      /\ parent_to_subtasks \in [Parents -> SubtaskInfos]
  BY <1>1, InfosOfTracked DEF TrackerInv, TrackerTypeOK
<1>6. \A r \in Subtasks : r \in Delegation!Siblings(s) \cup {s} <=> subtask_to_parent[r] = subtask_to_parent[s]
  BY DEF Delegation!Siblings
<1>7. ASSUME NEW r \in Subtasks
      PROVE  Stage'[r] = IF r \in Delegation!Siblings(s) \cup {s} THEN "delivered" ELSE Stage[r]
  <2>1. CASE subtask_to_parent[r] = subtask_to_parent[s]
    <3>1. r \in delivered'  BY <1>4, <1>5, <2>1
    <3> QED  BY <1>6, <2>1, <3>1 DEF Stage, StageOf
  <2>2. CASE subtask_to_parent[r] # subtask_to_parent[s]
    <3>1. /\ r \in delivered' <=> r \in delivered
          /\ subtask_to_parent'[r] = subtask_to_parent[r]
      BY <1>4, <1>5, <2>2
    <3>2. ASSUME subtask_to_parent[r] # NoParent
          PROVE  parent_to_subtasks'[subtask_to_parent[r]] = parent_to_subtasks[subtask_to_parent[r]]
      BY <1>4, <1>5, <2>2, <3>2, InfosOfTracked
    <3>3. Stage'[r] = Stage[r]  BY <3>1, <3>2, StageKept
    <3> QED  BY <1>6, <2>2, <3>3
  <2> QED  BY <2>1, <2>2
<1>8. Stage' = [r \in Subtasks |->
        IF r \in Delegation!Siblings(s) \cup {s} THEN "delivered" ELSE Stage[r]]
  BY <1>7 DEF Stage
<1>9. subtask_to_parent' = [r \in Subtasks |->
        IF r \in Delegation!Siblings(s) \cup {s} THEN NoParent ELSE subtask_to_parent[r]]
  BY <1>4, <1>6
<1> QED  BY <1>2, <1>3, <1>8, <1>9 DEF Delegation!Report, Stage

(* Every step of the tracker is a step of FanOut, or invisible to it: the  *)
(* results of a parent are delivered together and once.                    *)
THEOREM TrackerRefines == TrackerSpec => ImplementsFanOut
<1>1. TrackerInv /\ [TrackerNext]_trackerVars => [Delegation!Next]_(Delegation!vars)
  <2> SUFFICES ASSUME TrackerInv, [TrackerNext]_trackerVars
               PROVE  Delegation!Next \/ UNCHANGED Delegation!vars
    OBVIOUS
  <2>1. ASSUME UNCHANGED trackerVars PROVE UNCHANGED Delegation!vars
    BY <2>1 DEF trackerVars, Delegation!vars, StageOf, InfosOf
  <2>2. ASSUME NEW s \in Subtasks, NEW outcome \in Outcomes, HandleCallback(s, outcome)
        PROVE  Delegation!Next \/ UNCHANGED Delegation!vars
    <3>1. Ignore(s) => UNCHANGED Delegation!vars  BY <2>1 DEF Ignore
    <3>2. Note(s, outcome) \/ Collect(s, outcome) => Delegation!Report(s, outcome)
      BY NoteRefines, CollectRefines
    <3> QED  BY <2>2, <3>1, <3>2 DEF HandleCallback, Delegation!Next, Outcomes, Delegation!Outcomes
  <2> QED
    BY <2>1, <2>2, RegisterRefines DEF TrackerNext, Delegation!Next
<1> QED
  BY <1>1, InitRefines, TrackerInvariant, PTL DEF TrackerSpec, ImplementsFanOut, Delegation!Spec
=============================================================================
