--------------------------- MODULE SubtaskTracker ----------------------------
(***************************************************************************)
(* SubtaskTracker of src/hive/subtask_tracker.py with its one user, the    *)
(* callback handler of src/hive/server.py.  The tracker keeps two maps     *)
(* that mirror each other: the subtask infos of every parent, and the      *)
(* parent of every subtask.                                                *)
(*                                                                         *)
(* Data abstraction.  The list of infos of a parent is a function from     *)
(* subtask ids to statuses: ids are unique and only the wording of the     *)
(* summary depends on the order of the list.  Peer names, results and      *)
(* reasons are left out.  A parent that is no key of the map has the empty *)
(* function.                                                               *)
(***************************************************************************)
EXTENDS Naturals

CONSTANTS
  Parents,      \* ids of tasks that delegate
  Subtasks,     \* ids that peers give to subtasks
  NoParent      \* None

ASSUME NoParentAssumption == NoParent \notin Parents

VARIABLES
  parent_to_subtasks,   \* _parent_to_subtasks
  subtask_to_parent,    \* _subtask_to_parent
  delivered             \* history: the subtasks whose results were collected

trackerVars == <<parent_to_subtasks, subtask_to_parent, delivered>>

Outcomes == {"completed", "failed"}
Statuses == {"pending"} \cup Outcomes
SubtaskInfos == UNION {[D -> Statuses] : D \in SUBSET Subtasks}
NoInfos == [s \in {} |-> "pending"]

TrackerTypeOK ==
  /\ parent_to_subtasks \in [Parents -> SubtaskInfos]
  /\ subtask_to_parent \in [Subtasks -> Parents \cup {NoParent}]
  /\ delivered \in SUBSET Subtasks

TrackerInit ==
  /\ parent_to_subtasks = [p \in Parents |-> NoInfos]
  /\ subtask_to_parent = [s \in Subtasks |-> NoParent]
  /\ delivered = {}
-----------------------------------------------------------------------------
\* Mutants.
Ready_AnyResolved(infos) == \E s \in DOMAIN infos : infos[s] \in Outcomes
Cleanup_ForgetsReverseMap(p) ==
  /\ parent_to_subtasks' = [parent_to_subtasks EXCEPT ![p] = NoInfos]
  /\ UNCHANGED subtask_to_parent
Cleanup_ClearsReverseMap(p) ==
  /\ parent_to_subtasks' = [parent_to_subtasks EXCEPT ![p] = NoInfos]
  /\ subtask_to_parent' = [s \in Subtasks |-> NoParent]
-----------------------------------------------------------------------------
(* register_subtask                                                        *)
RegisterSubtask(p, s) ==
  /\ parent_to_subtasks' = [parent_to_subtasks EXCEPT
       ![p] = [r \in DOMAIN @ \cup {s} |-> IF r = s THEN "pending" ELSE @[r]]]
  /\ subtask_to_parent' = [subtask_to_parent EXCEPT ![s] = p]
  /\ UNCHANGED delivered

InfosOf(s) == parent_to_subtasks[subtask_to_parent[s]]

(* The infos of the parent of s after complete_subtask or fail_subtask.    *)
Marked(s, outcome) == [InfosOf(s) EXCEPT ![s] = outcome]

(* is_parent_ready                                                         *)
Ready(infos) == DOMAIN infos # {} /\ \A s \in DOMAIN infos : infos[s] \in Outcomes

(* cleanup                                                                 *)
Cleanup(p) ==
  /\ parent_to_subtasks' = [parent_to_subtasks EXCEPT ![p] = NoInfos]
  /\ subtask_to_parent' = [s \in Subtasks |->
       IF s \in DOMAIN parent_to_subtasks[p] THEN NoParent ELSE subtask_to_parent[s]]

(* handle_callback, as far as the tracker goes: a subtask nobody tracks,   *)
Ignore(s) ==
  /\ subtask_to_parent[s] = NoParent
  /\ UNCHANGED trackerVars
(* one whose parent still waits for others,                                *)
Note(s, outcome) ==
  /\ subtask_to_parent[s] # NoParent
  /\ ~Ready(Marked(s, outcome))
  /\ parent_to_subtasks' = [parent_to_subtasks EXCEPT ![subtask_to_parent[s]] = Marked(s, outcome)]
  /\ UNCHANGED <<subtask_to_parent, delivered>>
(* and one that completes its parent: the results are collected, and the   *)
(* parent is forgotten whether or not its synthesis could be queued.       *)
Collect(s, outcome) ==
  /\ subtask_to_parent[s] # NoParent
  /\ Ready(Marked(s, outcome))
  /\ delivered' = delivered \cup DOMAIN InfosOf(s)
  /\ Cleanup(subtask_to_parent[s])

\* Mutant.
HandleCallback_FailureUnchecked(s, outcome) ==
  \/ outcome = "completed" /\ (Ignore(s) \/ Note(s, outcome) \/ Collect(s, outcome))
  \/ /\ outcome = "failed"
     /\ subtask_to_parent[s] # NoParent
     /\ parent_to_subtasks' = [parent_to_subtasks EXCEPT ![subtask_to_parent[s]] = Marked(s, outcome)]
     /\ UNCHANGED <<subtask_to_parent, delivered>>

HandleCallback(s, outcome) == Ignore(s) \/ Note(s, outcome) \/ Collect(s, outcome)

(* A peer gives every subtask a fresh id.                                  *)
Fresh(s) == subtask_to_parent[s] = NoParent /\ s \notin delivered

TrackerNext ==
  \/ \E p \in Parents, s \in Subtasks : Fresh(s) /\ RegisterSubtask(p, s)
  \/ \E s \in Subtasks, outcome \in Outcomes : HandleCallback(s, outcome)

TrackerSpec == TrackerInit /\ [][TrackerNext]_trackerVars
-----------------------------------------------------------------------------
(* The two maps mirror each other: a callback finds its subtask exactly    *)
(* when some parent waits for it, and no subtask belongs to two parents.   *)
MapsAgree ==
  \A p \in Parents, s \in Subtasks :
    subtask_to_parent[s] = p <=> s \in DOMAIN parent_to_subtasks[p]

(* No parent is left with all its subtasks resolved and nobody to notice:  *)
(* whoever waits, waits for a subtask that is still pending.               *)
WaitsForPending ==
  \A p \in Parents : ~Ready(parent_to_subtasks[p])

(* The tracker is a FanOut: results are delivered together, once, by the   *)
(* report of the last pending subtask, whatever callbacks come late, twice *)
(* or for nothing.                                                         *)
StageOf(s) ==
  IF s \in delivered THEN "delivered"
  ELSE IF subtask_to_parent[s] = NoParent THEN "unknown"
  ELSE InfosOf(s)[s]
Delegation == INSTANCE FanOut WITH
                owner <- subtask_to_parent,
                stage <- [s \in Subtasks |-> StageOf(s)]
ImplementsFanOut == Delegation!Spec
=============================================================================
