------------------------------ MODULE Spending -------------------------------
(***************************************************************************)
(* The three coroutines of one agent that share its BudgetManager:         *)
(*   the task worker    checks the budget, calls Claude with a cap taken   *)
(*                      from it, and records the cost when the call ends   *)
(*                      (ClaudeExecutor._execute_task, executor.py);       *)
(*   the initiative     looks at the status, calls Claude without a cap    *)
(*   loop               and records the cost (InitiativeLoop.tick);        *)
(*   the reset loop     zeroes the amounts at midnight UTC                 *)
(*                      (_budget_reset_loop, server.py).                   *)
(* The event loop switches between them only at an await, so each action   *)
(* is the code between two awaits: a call of Claude is two actions, and    *)
(* the other coroutines run in between.                                    *)
(*                                                                         *)
(* Claude is external: a capped call costs at most its cap; a call without *)
(* a cap costs up to InitiativeMax; a call may raise, and then no cost is  *)
(* recorded.                                                               *)
(***************************************************************************)
EXTENDS BudgetManager

CONSTANTS
  HasObjectives,  \* the initiative loop runs only if the agent has objectives
  InitiativeMax   \* bound: the most one uncapped evaluation costs

ASSUME InitiativeAssumption ==
  HasObjectives \in BOOLEAN /\ InitiativeMax \in Nat

VARIABLES
  worker,         \* "claude" while a Claude call of the worker is under way ...
  cap,            \* ... with this max_budget_usd
  initiative,     \* "claude" while a Claude call of the initiative loop is
  weekday,        \* of the current day, Monday = 0
  notices,        \* vacation notices sent to the superior in this vacation
  \* History variables: what the uncapped calls have spent, of the amounts above.
  initiative_today,
  initiative_week

callVars == <<worker, cap, initiative>>
historyVars == <<initiative_today, initiative_week>>
vars == <<budgetVars, callVars, weekday, notices, historyVars>>

TypeOK ==
  /\ BudgetTypeOK
  /\ worker \in {"idle", "claude"}
  /\ cap \in Nat
  /\ initiative \in {"idle", "claude"}
  /\ weekday \in 0..6
  /\ notices \in Nat
  /\ initiative_today \in Nat
  /\ initiative_week \in Nat

Init ==
  /\ BudgetInit
  /\ worker = "idle"
  /\ cap = 0
  /\ initiative = "idle"
  /\ weekday \in 0..6
  /\ notices = 0
  /\ initiative_today = 0
  /\ initiative_week = 0
-----------------------------------------------------------------------------
\* Mutants.
TaskCallStarts_Uncapped ==
  /\ worker = "idle"
  /\ Allowed
  /\ worker' = "claude"
  /\ cap' = PerTaskMax
  /\ UNCHANGED <<budgetVars, initiative, weekday, notices, historyVars>>
NoticeAfter_AnyChange == notices' = IF status' # status THEN notices + 1 ELSE notices
InitiativeStarts_WarningOnly ==
  /\ HasObjectives
  /\ initiative = "idle"
  /\ status # "warning"
  /\ initiative' = "claude"
  /\ UNCHANGED <<budgetVars, worker, cap, weekday, notices, historyVars>>
Midnight_NoWeekly ==
  /\ weekday' = (weekday + 1) % 7
  /\ ResetDaily
  /\ initiative_today' = 0
  /\ notices' = IF status' = "vacation" THEN notices ELSE 0
  /\ UNCHANGED <<callVars, initiative_week>>
-----------------------------------------------------------------------------
(* The budget guard of _execute_task lets a task through; one it refuses   *)
(* is answered and leaves the budget as it is.                             *)
TaskCallStarts ==
  /\ worker = "idle"
  /\ Allowed
  /\ worker' = "claude"
  /\ cap' = TaskCap
  /\ UNCHANGED <<budgetVars, initiative, weekday, notices, historyVars>>

(* "new_status != prev_status and new_status == vacation"; the notice is   *)
(* sent at once, and an error in sending it is logged and forgotten.       *)
NoticeAfter == notices' = IF status # "vacation" /\ status' = "vacation"
                          THEN notices + 1 ELSE notices

TaskCallReturns(cost) ==
  /\ worker = "claude"
  /\ cost \in 0..cap
  /\ RecordCost(cost)
  /\ NoticeAfter
  /\ worker' = "idle"
  /\ UNCHANGED <<cap, initiative, weekday, historyVars>>

TaskCallRaises ==
  /\ worker = "claude"
  /\ worker' = "idle"
  /\ UNCHANGED <<budgetVars, cap, initiative, weekday, notices, historyVars>>

(* tick() skips if the status is warning or vacation.                      *)
InitiativeStarts ==
  /\ HasObjectives
  /\ initiative = "idle"
  /\ status \notin {"warning", "vacation"}
  /\ initiative' = "claude"
  /\ UNCHANGED <<budgetVars, worker, cap, weekday, notices, historyVars>>

InitiativeReturns(cost) ==
  /\ initiative = "claude"
  /\ RecordCost(cost)
  /\ initiative_today' = initiative_today + cost
  /\ initiative_week' = initiative_week + cost
  /\ initiative' = "idle"
  /\ UNCHANGED <<worker, cap, weekday, notices>>

InitiativeRaises ==
  /\ initiative = "claude"
  /\ initiative' = "idle"
  /\ UNCHANGED <<budgetVars, worker, cap, weekday, notices, historyVars>>

(* One turn of _budget_reset_loop: the daily reset and, when the new day   *)
(* is a Monday, the weekly one, without an await in between.               *)
Midnight ==
  /\ weekday' = (weekday + 1) % 7
  /\ IF weekday' = 0
       THEN ResetWeekly /\ initiative_week' = 0
       ELSE ResetDaily /\ UNCHANGED initiative_week
  /\ initiative_today' = 0
  /\ notices' = IF status' = "vacation" THEN notices ELSE 0
  /\ UNCHANGED callVars

Next ==
  \/ TaskCallStarts
  \/ \E cost \in 0..PerTaskMax : TaskCallReturns(cost)
  \/ TaskCallRaises
  \/ InitiativeStarts
  \/ \E cost \in 0..InitiativeMax : InitiativeReturns(cost)
  \/ InitiativeRaises
  \/ Midnight

(* Midnight comes, whatever the other coroutines do.                       *)
Spec == Init /\ [][Next]_vars /\ WF_vars(Midnight)
-----------------------------------------------------------------------------
InFlight == IF worker = "claude" THEN cap ELSE 0

(* What tasks have cost, with what the one under way may still cost, stays *)
(* within the daily and the weekly limit: the cap is computed before the   *)
(* call and used after it, with initiative calls and resets in between.    *)
TaskSpendWithinLimits ==
  /\ spent_today - initiative_today + InFlight <= DailyMax
  /\ spent_week - initiative_week + InFlight <= WeeklyMax

(* The agent as a whole stays within its limits.                           *)
SpendWithinLimits ==
  /\ spent_today <= DailyMax
  /\ spent_week <= WeeklyMax

(* The cached status says vacation exactly when the guard of tasks, which  *)
(* computes its own answer, refuses: the dashboard, the registry and the   *)
(* initiative loop see the state the worker acts on.                       *)
StatusMatchesGuard == status = "vacation" <=> ~Allowed

(* No coroutine starts a Claude call when nothing is left to spend.        *)
CallsNeedBudget ==
  [][(worker = "idle" /\ worker' = "claude") \/ (initiative = "idle" /\ initiative' = "claude")
       => Remaining > 0]_vars

(* A vacation is left only through a reset, and one forced by the weekly   *)
(* limit only through the reset of a Monday.                               *)
VacationLeftByReset ==
  [][status = "vacation" /\ status' # "vacation" =>
       /\ spent_today' = 0
       /\ spent_week >= WeeklyMax => weekday' = 0]_vars

(* An agent on vacation comes back: it does not stay there for ever.       *)
VacationEnds == status = "vacation" ~> status # "vacation"

(* The superior is told of a vacation at most once, and always when tasks  *)
(* alone used the budget up: only the worker sends the notice, so a        *)
(* vacation that the initiative loop brings about goes unannounced.        *)
VacationAnnounced ==
  /\ notices <= IF status = "vacation" THEN 1 ELSE 0
  /\ status = "vacation" /\ initiative_week = 0 => notices = 1
=============================================================================
