---------------------------- MODULE BudgetManager ----------------------------
(***************************************************************************)
(* BudgetManager of src/hive/budget.py: what an agent has spent today and  *)
(* this week, and the circuit breaker state derived from it.  Amounts are  *)
(* natural numbers of one small unit of money, so that a float comparison  *)
(* against 80 % or 100 % of a limit is the exact one.                      *)
(***************************************************************************)
EXTENDS Integers

CONSTANTS
  DailyMax,     \* daily_max_usd
  WeeklyMax,    \* weekly_max_usd
  PerTaskMax    \* per_task_max_usd

ASSUME LimitsAssumption ==
  DailyMax \in Nat /\ WeeklyMax \in Nat /\ PerTaskMax \in Nat

VARIABLES
  spent_today,
  spent_week,
  status        \* _status, evaluated when an amount changes, read in between

budgetVars == <<spent_today, spent_week, status>>

BudgetStatus == {"active", "warning", "vacation"}

BudgetTypeOK ==
  /\ spent_today \in Nat
  /\ spent_week \in Nat
  /\ status \in BudgetStatus

(* The constructor does not evaluate: even a zero budget starts "active".  *)
BudgetInit ==
  /\ spent_today = 0
  /\ spent_week = 0
  /\ status = "active"

SmallerOf(a, b) == IF a <= b THEN a ELSE b
Left(limit, spent) == IF spent < limit THEN limit - spent ELSE 0
-----------------------------------------------------------------------------
\* Mutants.
RecordCost_StaleStatus(cost) ==
  /\ spent_today' = spent_today + cost
  /\ spent_week' = spent_week + cost
  /\ UNCHANGED status
ResetDaily_AlwaysActive == spent_today' = 0 /\ status' = "active" /\ UNCHANGED spent_week
ResetDaily_CarriesOver ==
  /\ spent_today' = spent_today - DailyMax
  /\ UNCHANGED <<spent_week, status>>
-----------------------------------------------------------------------------
(* min(remaining_today, remaining_week)                                    *)
Remaining == SmallerOf(Left(DailyMax, spent_today), Left(WeeklyMax, spent_week))

(* check_before_execution                                                  *)
Allowed == Remaining > 0
TaskCap == SmallerOf(PerTaskMax, Remaining)

(* spent / limit >= percent, where a limit of zero counts as used up.      *)
Reached(spent, percent, limit) == limit = 0 \/ 100 * spent >= percent * limit

EvaluateStatus(day, week) ==
  IF Reached(day, 100, DailyMax) \/ Reached(week, 100, WeeklyMax) THEN "vacation"
  ELSE IF Reached(day, 80, DailyMax) THEN "warning"
  ELSE "active"

Account(day, week) ==
  /\ spent_today' = day
  /\ spent_week' = week
  /\ status' = EvaluateStatus(day, week)

RecordCost(cost) == Account(spent_today + cost, spent_week + cost)
ResetDaily == Account(0, spent_week)
ResetWeekly == Account(0, 0)
=============================================================================
