---------------------------- MODULE MCOrgMemory ------------------------------
(* Two clones of one repository and three commits: enough for a lock, the  *)
(* one that follows it when it has expired, and the late release of the    *)
(* first.  What an expiry and a late release lead to shows with commits    *)
(* about the lock alone: of these there may be more, and for them only     *)
(* does time pass.  The agents are interchangeable, so the first commit is *)
(* a1's.                                                                   *)
EXTENDS OrgMemory

CONSTANTS a1, Free    \* Free: commits that may be about anything

FirstIsA1 == made = 0 /\ made' = 1 => local'[a1] # <<>>
OnlyLocks(commits) == \A i \in DOMAIN commits : commits[i].path = Lock
AllAboutLocks == OnlyLocks(remote) /\ \A a \in Agents : OnlyLocks(local[a]) /\ OnlyLocks(todo[a])
LaterAboutLocks == ~AllAboutLocks' => made' <= Free /\ now' = 0
MCNext == Next /\ FirstIsA1 /\ LaterAboutLocks
MCSpec == Init /\ [][MCNext]_vars /\ \A a \in Agents : WF_vars(GitStep(a))

(* With the remote always within reach, only a rejected push raises.       *)
ReachableNext ==
  MCNext /\ \A a \in Agents : phase'[a] # "settle" /\ (PushRaises(a) => ~UpToDate(a))
ReachableSpec == Init /\ [][ReachableNext]_vars /\ \A a \in Agents : WF_vars(GitStep(a))
=============================================================================
