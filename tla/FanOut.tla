------------------------------- MODULE FanOut --------------------------------
(***************************************************************************)
(* What SubtaskTracker (src/hive/subtask_tracker.py) and the callback      *)
(* handler are for: a parent task hands out subtasks, their reports come   *)
(* back in any order, and the results of a parent are delivered together,  *)
(* at the very report that resolves the last of them, each exactly once.   *)
(***************************************************************************)
CONSTANTS
  Parents,      \* tasks that delegate
  Subtasks,     \* ids of the subtasks, unique over all peers
  NoParent      \* the owner of a subtask that is not open

VARIABLES
  owner,        \* owner[s]: the parent that waits for s
  stage         \* stage[s]: how far s has come

vars == <<owner, stage>>

Outcomes == {"completed", "failed"}
Siblings(s) == {r \in Subtasks \ {s} : owner[r] = owner[s]}

Init ==
  /\ owner = [s \in Subtasks |-> NoParent]
  /\ stage = [s \in Subtasks |-> "unknown"]

HandOut(p, s) ==
  /\ stage[s] = "unknown"
  /\ owner' = [owner EXCEPT ![s] = p]
  /\ stage' = [stage EXCEPT ![s] = "pending"]

(* A report while siblings are open is noted, and may replace an earlier   *)
(* one; the report that leaves nothing pending delivers them all.          *)
Report(s, outcome) ==
  /\ stage[s] \notin {"unknown", "delivered"}
  /\ IF \E r \in Siblings(s) : stage[r] = "pending"
       THEN /\ stage' = [stage EXCEPT ![s] = outcome]
            /\ UNCHANGED owner
       ELSE /\ stage' = [r \in Subtasks |->
                           IF r \in Siblings(s) \cup {s} THEN "delivered" ELSE stage[r]]
            /\ owner' = [r \in Subtasks |->
                           IF r \in Siblings(s) \cup {s} THEN NoParent ELSE owner[r]]

Next ==
  \/ \E p \in Parents, s \in Subtasks : HandOut(p, s)
  \/ \E s \in Subtasks, outcome \in Outcomes : Report(s, outcome)

Spec == Init /\ [][Next]_vars
=============================================================================
