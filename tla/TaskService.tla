----------------------------- MODULE TaskService -----------------------------
(***************************************************************************)
(* What an agent promises whoever sends it a message (docs/plans, "Task    *)
(* queue", and ClaudeExecutor in src/hive/executor.py), without queue,     *)
(* worker, budget or peers: every message is either refused at once or     *)
(* accepted, every accepted message is answered, and answered once.        *)
(***************************************************************************)
CONSTANT Calls      \* the messages

VARIABLE answer     \* answer[c]: what the sender of c has been told

Answers == {"completed", "working"}

Init == answer = [c \in Calls |-> "nothing"]

Accept(c) == answer[c] = "nothing" /\ answer' = [answer EXCEPT ![c] = "accepted"]
Refuse(c) == answer[c] = "nothing" /\ answer' = [answer EXCEPT ![c] = "failed"]
Answer(c) == answer[c] = "accepted" /\ \E a \in Answers : answer' = [answer EXCEPT ![c] = a]

Next == \E c \in Calls : Accept(c) \/ Refuse(c) \/ Answer(c)

Spec == Init /\ [][Next]_answer /\ \A c \in Calls : WF_answer(Answer(c))
=============================================================================
