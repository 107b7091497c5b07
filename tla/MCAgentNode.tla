---------------------------- MODULE MCAgentNode ------------------------------
(* An agent with three messages: one of its superior, one escalation and   *)
(* one broadcast.                                                          *)
EXTENDS AgentNode

CONSTANTS c1, c2, c3, t1, t2, t3, boss, peer

\* Three tasks; a task with a follow-up, and another.
MCTaskOf == [c \in Calls |-> CASE c = c1 -> t1 [] c = c2 -> t2 [] c = c3 -> t3]
MCFollowUp == [c \in Calls |-> IF c = c3 THEN t2 ELSE t1]
MCMetadataOf ==
  [c \in Calls |->
     CASE c = c1 -> [priority |-> "normal", from_agent |-> boss]
       [] c = c2 -> [priority |-> "escalation", from_agent |-> peer]
       [] c = c3 -> [priority |-> "broadcast", from_agent |-> peer]]
=============================================================================
