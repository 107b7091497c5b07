----------------------------- MODULE SharedLog -------------------------------
(***************************************************************************)
(* What OrgMemory (src/hive/org_memory.py) is for, said without git: one   *)
(* log that only grows.  What an agent writes waits in its outbox until it *)
(* is published, together with everything it wrote before and in the order *)
(* it was written; nothing is published twice, changed, or lost.  Only the *)
(* removal of a file that somebody else has removed may be dropped.        *)
(***************************************************************************)
EXTENDS Naturals, Sequences

CONSTANTS Agents, Entries, Removals

VARIABLES
  log,          \* the entries published, oldest first
  outbox        \* outbox[a]: what a has written and not yet published

vars == <<log, outbox>>

Elements(s) == {s[i] : i \in DOMAIN s}
Known == Elements(log) \cup UNION {Elements(outbox[a]) : a \in Agents}
Without(s, i) == SubSeq(s, 1, i - 1) \o SubSeq(s, i + 1, Len(s))

Init ==
  /\ log = <<>>
  /\ outbox = [a \in Agents |-> <<>>]

Write(a, entry) ==
  /\ entry \notin Known
  /\ outbox' = [outbox EXCEPT ![a] = Append(@, entry)]
  /\ UNCHANGED log

Publish(a) ==
  /\ log' = log \o outbox[a]
  /\ outbox' = [outbox EXCEPT ![a] = <<>>]

Drop(a, i) ==
  /\ outbox[a][i] \in Removals
  /\ outbox' = [outbox EXCEPT ![a] = Without(@, i)]
  /\ UNCHANGED log

Next == \E a \in Agents :
  \/ \E entry \in Entries : Write(a, entry)
  \/ Publish(a)
  \/ \E i \in DOMAIN outbox[a] : Drop(a, i)

Spec == Init /\ [][Next]_vars
=============================================================================
