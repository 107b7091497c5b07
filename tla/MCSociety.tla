----------------------------- MODULE MCSociety -------------------------------
(* An agent and its superior, who delegate to each other and to themselves *)
(* with room for one waiting request each.                                 *)
EXTENDS Society

CONSTANTS boss, dev

DevReportsToBoss == [a \in {boss, dev} |-> IF a = dev THEN boss ELSE Nobody]
=============================================================================
