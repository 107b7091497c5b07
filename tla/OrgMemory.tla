----------------------------- MODULE OrgMemory -------------------------------
(***************************************************************************)
(* OrgMemory of src/hive/org_memory.py: every agent has a clone of one git *)
(* repository, commits files to it and pushes.  A push is rejected when    *)
(* another agent has pushed meanwhile; the agent then rebases what it has  *)
(* not published and tries again, three times in all.  Locks are files of  *)
(* the repository like any other.                                          *)
(*                                                                         *)
(* A call blocks its agent, so each agent does one thing at a time; the    *)
(* agents meet in the remote repository only, and their steps interleave   *)
(* between any two git commands.  The git commands are external:           *)
(*   push     is accepted if and only if the clone has all of the remote,  *)
(*            and may fail to say so;                                      *)
(*   rebase   replays the unpublished commits one by one on what it has    *)
(*            fetched: a commit whose file nobody else has changed is      *)
(*            applied, one that would change nothing is dropped, any other *)
(*            is a conflict, which leaves the clone in the middle of the   *)
(*            rebase: its index cannot be committed any more.              *)
(* All agents read the same clock.                                         *)
(***************************************************************************)
EXTENDS Naturals, Sequences

CONSTANTS
  Agents,
  Lock, Shared,     \* the lock file, and an artifact path two agents share
  LockTime,         \* timeout_seconds of acquire_lock
  QuietRejections,  \* the library may report a rejection without raising
  MaxCommits,       \* bound: commits ever made
  MaxTime           \* bound: the clock stops here

ASSUME OrgMemoryAssumption ==
  /\ LockTime \in Nat \ {0} /\ MaxCommits \in Nat /\ MaxTime \in Nat
  /\ QuietRejections \in BOOLEAN
  /\ Lock \notin Agents /\ Shared \notin Agents /\ Lock # Shared

VARIABLES
  remote,       \* the commits of the shared repository, oldest first
  base,         \* base[a]: how many of them a's clone has
  local,        \* local[a]: a's commits on top of these, not yet pushed
  todo,         \* todo[a]: commits that a rebase has still to replay
  phase,        \* phase[a]: what a's clone is doing
  attempt,      \* attempt[a]: the push of the loop that a is at
  held,         \* held[a]: until when a believes it holds the lock, or 0
  made,         \* commits made so far; numbers them
  now

vars == <<remote, base, local, todo, phase, attempt, held, made, now>>

Phases == {"idle", "push", "pull", "replay", "settle", "unlock", "conflict", "aborted"}
Paths == Agents \cup {Lock, Shared}

(* "over" is what the file was before (the id of a commit, 0 if absent);   *)
(* the SHA of a commit changes each time it is replayed.                   *)
Commits == [id : 1..MaxCommits, author : Agents, path : Paths, op : {"put", "remove"},
            over : 0..MaxCommits, replayed : BOOLEAN, at : Nat, until : Nat]

TypeOK ==
  /\ remote \in Seq(Commits)
  /\ base \in [Agents -> Nat]
  /\ local \in [Agents -> Seq(Commits)]
  /\ todo \in [Agents -> Seq(Commits)]
  /\ phase \in [Agents -> Phases]
  /\ attempt \in [Agents -> 0..3]
  /\ held \in [Agents -> Nat]
  /\ made \in 0..MaxCommits
  /\ now \in 0..MaxTime

(* Every agent has cloned the repository: init_or_clone.                   *)
Init ==
  /\ remote = <<>>
  /\ base = [a \in Agents |-> 0]
  /\ local = [a \in Agents |-> <<>>]
  /\ todo = [a \in Agents |-> <<>>]
  /\ phase = [a \in Agents |-> "idle"]
  /\ attempt = [a \in Agents |-> 0]
  /\ held = [a \in Agents |-> 0]
  /\ made = 0
  /\ now = 0
-----------------------------------------------------------------------------
\* Mutants.
TryAgain_OnceMore(a, commit) ==
  /\ phase' = [phase EXCEPT ![a] = IF attempt[a] <= 3 THEN "push" ELSE "idle"]
  /\ attempt' = [attempt EXCEPT ![a] = IF attempt[a] <= 3 THEN @ + 1 ELSE 0]
  /\ UNCHANGED held
LockExpired_OffByOne(history) == \A i \in DOMAIN history :
  history[i].path = Lock /\ history[i].op = "put" => now + 1 >= history[i].until
OwnPath_Common(a) == CHOOSE agent \in Agents : TRUE
Publish_Forced(a) ==
  /\ phase[a] \in {"push", "unlock"}
  /\ remote' = SubSeq(remote, 1, base[a]) \o local[a]
  /\ base' = [base EXCEPT ![a] = Len(remote')]
  /\ local' = [local EXCEPT ![a] = <<>>]
  /\ UNCHANGED <<todo, made, now>>
PullRaises_Retried(a) ==
  /\ phase[a] = "pull"
  /\ phase' = [phase EXCEPT ![a] = "push"]
  /\ UNCHANGED <<remote, base, local, todo, attempt, held, made, now>>
-----------------------------------------------------------------------------
(* What a clone holds, and the last commit on a path of it.                *)
Clone(a) == SubSeq(remote, 1, base[a]) \o local[a]
Touching(history, path) == {i \in DOMAIN history : history[i].path = path}
Last(history, path) == CHOOSE i \in Touching(history, path) :
                         \A j \in Touching(history, path) : j <= i
Exists(history, path) == /\ Touching(history, path) # {}
                         /\ history[Last(history, path)].op = "put"
Content(history, path) == IF Exists(history, path) THEN history[Last(history, path)].id ELSE 0
Written(commit) == IF commit.op = "put" THEN commit.id ELSE 0

Goto(a, next, nth) ==
  /\ phase' = [phase EXCEPT ![a] = next]
  /\ attempt' = [attempt EXCEPT ![a] = nth]
Idle(a) == Goto(a, "idle", 0)

(* index.add or index.remove, then index.commit; the push comes next.      *)
Commit(a, path, op, at, until, next) ==
  /\ phase[a] = "idle"
  /\ made < MaxCommits
  /\ made' = made + 1
  /\ local' = [local EXCEPT ![a] = Append(@,
       [id |-> made + 1, author |-> a, path |-> path, op |-> op,
        over |-> Content(Clone(a), path), replayed |-> FALSE, at |-> at, until |-> until])]
  /\ Goto(a, next, 1)
  /\ UNCHANGED <<remote, base, todo, now>>

(* append_event, append_budget_log: a path only this agent writes.         *)
OwnPath(a) == a
AppendLog(a) == Commit(a, OwnPath(a), "put", 0, 0, "push") /\ UNCHANGED held

WriteArtifact(a, path) == Commit(a, path, "put", 0, 0, "push") /\ UNCHANGED held

(* acquire_lock looks at the lock file of its own clone, without pulling.  *)
LockExpired(history) ==
  Exists(history, Lock) => now >= history[Last(history, Lock)].until

AcquireLock(a) ==
  /\ LockExpired(Clone(a))
  /\ Commit(a, Lock, "put", now, now + LockTime, "push")
  /\ UNCHANGED held

(* Called by who believes to hold the lock; whose lock it is that the file *)
(* stands for is not looked at.                                            *)
ReleaseLock(a) ==
  /\ held[a] # 0
  /\ held' = [held EXCEPT ![a] = 0]
  /\ \/ Exists(Clone(a), Lock) /\ Commit(a, Lock, "remove", now, held[a], "unlock")
     \/ /\ phase[a] = "idle" /\ ~Exists(Clone(a), Lock)
        /\ UNCHANGED <<remote, base, local, todo, phase, attempt, made, now>>

(* The call returns: the SHA of its commit, or True for a lock.            *)
Returns(a, commit) ==
  /\ Idle(a)
  /\ held' = IF commit.path = Lock /\ commit.op = "put"
               THEN [held EXCEPT ![a] = commit.until] ELSE held
Newest(a) == local[a][Len(local[a])]

UpToDate(a) == base[a] = Len(remote)

Publish(a) ==
  /\ phase[a] \in {"push", "unlock"}
  /\ UpToDate(a)
  /\ remote' = remote \o local[a]
  /\ base' = [base EXCEPT ![a] = Len(remote')]
  /\ local' = [local EXCEPT ![a] = <<>>]
  /\ UNCHANGED <<todo, made, now>>

Push(a) == Publish(a) /\ Returns(a, Newest(a))

(* "except git.GitCommandError": accepted, but the answer does not arrive; *)
(* after an unlock that is only logged.                                    *)
PushLost(a) ==
  /\ \/ phase[a] = "push" /\ Goto(a, "settle", attempt[a])
     \/ phase[a] = "unlock" /\ Idle(a)
  /\ Publish(a)
  /\ UNCHANGED held

(* The same: rejected, or the remote is unreachable.                       *)
PushRaises(a) ==
  /\ \/ phase[a] = "push" /\ Goto(a, "pull", attempt[a])
     \/ phase[a] = "unlock" /\ Idle(a)
  /\ UNCHANGED <<remote, base, local, todo, held, made, now>>

(* The rejection is in the result of push(), which nobody reads.           *)
PushIgnored(a) ==
  /\ QuietRejections
  /\ phase[a] \in {"push", "unlock"}
  /\ ~UpToDate(a)
  /\ Returns(a, Newest(a))
  /\ UNCHANGED <<remote, base, local, todo, made, now>>

(* "for attempt in range(3)", else: the failure is logged and the call     *)
(* returns as if the commit were published.                                *)
TryAgain(a, commit) ==
  IF attempt[a] < 3 THEN Goto(a, "push", attempt[a] + 1) /\ UNCHANGED held
                    ELSE Returns(a, commit)

(* pull(rebase=True) fetches and, if that brought anything, takes the      *)
(* unpublished commits off ...                                             *)
Rebase(a) ==
  /\ phase[a] = "pull"
  /\ IF UpToDate(a)
       THEN TryAgain(a, Newest(a)) /\ UNCHANGED <<base, local, todo>>
       ELSE /\ Goto(a, "replay", attempt[a])
            /\ base' = [base EXCEPT ![a] = Len(remote)]
            /\ todo' = [todo EXCEPT ![a] = local[a]]
            /\ local' = [local EXCEPT ![a] = <<>>]
            /\ UNCHANGED held
  /\ UNCHANGED <<remote, made, now>>

(* The push was accepted: the pull brings at most what others have pushed  *)
(* since, and the push after it fails again or has nothing to publish.     *)
Settle(a) ==
  /\ phase[a] = "settle"
  /\ base' = [base EXCEPT ![a] = Len(remote)]
  /\ \/ attempt[a] < 3 /\ Goto(a, "settle", attempt[a] + 1) /\ UNCHANGED held
     \/ \E i \in DOMAIN remote :
          /\ remote[i].author = a /\ \A j \in DOMAIN remote : j > i => remote[j].author # a
          /\ Returns(a, remote[i])
  /\ UNCHANGED <<remote, local, todo, made, now>>

(* Any pull may raise inside the handler, out of the call.                 *)
PullRaises(a) ==
  /\ phase[a] \in {"pull", "settle"}
  /\ Idle(a)
  /\ UNCHANGED <<remote, base, local, todo, held, made, now>>

Replay(a) ==
  /\ phase[a] = "replay"
  /\ LET commit == Head(todo[a])
         theirs == Content(Clone(a), commit.path)
         applied == [commit EXCEPT !.replayed = TRUE]
     IN IF theirs \in {commit.over, Written(commit)}
          THEN /\ local' = [local EXCEPT ![a] = IF theirs = commit.over
                                                 THEN Append(@, applied) ELSE @]
               /\ todo' = [todo EXCEPT ![a] = Tail(@)]
               /\ IF Len(todo[a]) = 1 THEN TryAgain(a, commit)
                                      ELSE UNCHANGED <<phase, attempt, held>>
          ELSE /\ Goto(a, "conflict", attempt[a])
               /\ UNCHANGED <<local, todo, held>>
  /\ UNCHANGED <<remote, base, made, now>>

(* pull(): a merge, which git refuses when both sides have commits.        *)
Pull(a) ==
  /\ phase[a] = "idle"
  /\ local[a] = <<>>
  /\ base' = [base EXCEPT ![a] = Len(remote)]
  /\ UNCHANGED <<remote, local, todo, phase, attempt, held, made, now>>

(* The agent dies and comes back: its clone is opened as it was left.      *)
Crash(a) ==
  /\ phase[a] \notin {"conflict", "aborted"}
  /\ IF phase[a] = "replay" THEN Goto(a, "aborted", 0) ELSE Idle(a)
  /\ held' = [held EXCEPT ![a] = 0]
  /\ UNCHANGED <<remote, base, local, todo, made, now>>

Tick ==
  /\ now < MaxTime
  /\ now' = now + 1
  /\ UNCHANGED <<remote, base, local, todo, phase, attempt, held, made>>

Call(a) == AppendLog(a) \/ WriteArtifact(a, Shared) \/ AcquireLock(a) \/ ReleaseLock(a) \/ Pull(a)
GitStep(a) ==
  \/ Push(a) \/ PushLost(a) \/ PushRaises(a) \/ PushIgnored(a)
  \/ Rebase(a) \/ PullRaises(a) \/ Replay(a) \/ Settle(a)

Next == Tick \/ \E a \in Agents : Call(a) \/ GitStep(a) \/ Crash(a)

(* A git command returns, or fails.                                        *)
Spec == Init /\ [][Next]_vars /\ \A a \in Agents : WF_vars(GitStep(a))
-----------------------------------------------------------------------------
(* A published lock replaces no lock that was in force when it was taken:  *)
(* the check reads a clone that may be behind, and what makes up for it is *)
(* that a rebase takes a commit only onto the file it was made for.  A     *)
(* lock is taken out by its owner or by a late release, that of one whose  *)
(* own had expired.  Only who has lost a lock in this way may take out one *)
(* of somebody else while he still believes that his own is in force.      *)
Before(i) == SubSeq(remote, 1, i - 1)
LockBefore(i) == Before(i)[Last(Before(i), Lock)]
TakesOut(i, a) ==
  /\ remote[i].op = "remove" /\ Exists(Before(i), Lock)
  /\ LockBefore(i).author = a /\ remote[i].author # a

LockHistoryHonest == \A i \in Touching(remote, Lock) : Exists(Before(i), Lock) =>
  LET commit == remote[i]
  IN \/ commit.op = "put" /\ commit.at >= LockBefore(i).until
     \/ /\ commit.op = "remove"
        /\ \/ commit.author = LockBefore(i).author \/ commit.at >= commit.until
           \/ \E j \in Touching(remote, Lock) : j < i /\ TakesOut(j, commit.author)

(* An agent that keeps to its own paths never ends up in a conflict: only  *)
(* files that several agents write can stop a clone for good.              *)
ConflictsOnlyOnSharedPaths == \A a \in Agents :
  phase[a] = "conflict" => Head(todo[a]).path \notin Agents

(* Every write and every release comes to an end, even with the remote out *)
(* of reach for ever: it is published, given up, or the clone is stuck.    *)
WritesEnd == \A a \in Agents :
  phase[a] \in {"push", "unlock"} ~> phase[a] \in {"idle", "conflict", "aborted"}

(* What is published stays, and everything an agent writes is published    *)
(* once and in the order written, however often it was rejected, rebased   *)
(* and left behind in between.                                             *)
Entry(commit) == [id |-> commit.id, op |-> commit.op]
EntriesOf(commits) == [i \in DOMAIN commits |-> Entry(commits[i])]
AbstractLog == INSTANCE SharedLog WITH
  log <- EntriesOf(remote),
  outbox <- [a \in Agents |-> EntriesOf(local[a] \o todo[a])],
  Entries <- [id : 1..MaxCommits, op : {"put", "remove"}],
  Removals <- [id : 1..MaxCommits, op : {"remove"}]
ImplementsSharedLog == AbstractLog!Spec

(* The SHA in the artifact reference that write_artifact returns when its  *)
(* push has gone through is that of a commit in the repository, where the  *)
(* receiver of the reference looks for it; a replayed commit has another.  *)
RefsResolve == [][\A a \in Agents : Push(a) /\ Newest(a).path = Shared =>
  \E i \in DOMAIN remote' : remote'[i] = [Newest(a) EXCEPT !.replayed = FALSE]]_vars
=============================================================================
