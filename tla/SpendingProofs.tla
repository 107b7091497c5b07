---------------------------- MODULE SpendingProofs ---------------------------
(***************************************************************************)
(* Theorems about Spending, for all limits and all costs.  The inductive   *)
(* invariant is SpendingInv: the properties of Spending relate the amounts *)
(* at different moments, and what carries them over a midnight that falls  *)
(* between the start and the end of a call is that the cap of the call is  *)
(* itself within both limits.                                              *)
(***************************************************************************)
EXTENDS Spending, TLAPS

CapInv == worker = "claude" => cap <= DailyMax /\ cap <= WeeklyMax
VacationInv == status = "vacation" => EvaluateStatus(spent_today, spent_week) = "vacation"
SpendingInv == TypeOK /\ CapInv /\ TaskSpendWithinLimits /\ VacationInv

Positive == DailyMax > 0 /\ WeeklyMax > 0
StatusInSync == status = EvaluateStatus(spent_today, spent_week)

(* What check_before_execution returns: a cap within both remainders.      *)
LEMMA TaskCapBounds ==
  ASSUME TypeOK, Allowed
  PROVE  /\ TaskCap \in Nat
         /\ TaskCap <= DailyMax
         /\ TaskCap <= WeeklyMax
         /\ spent_today - initiative_today + TaskCap <= DailyMax
         /\ spent_week - initiative_week + TaskCap <= WeeklyMax
BY LimitsAssumption
   DEF TypeOK, BudgetTypeOK, Allowed, TaskCap, Remaining, SmallerOf, Left

LEMMA StatusType ==
  ASSUME NEW day, NEW week PROVE EvaluateStatus(day, week) \in BudgetStatus
BY DEF EvaluateStatus, BudgetStatus

LEMMA NoticesType ==
  ASSUME notices \in Nat, NoticeAfter PROVE notices' \in Nat
BY DEF NoticeAfter

(* Every amount stays a natural number, the status one of the three.       *)
THEOREM TypeCorrect == Spec => []TypeOK
<1>1. Init => TypeOK
  BY DEF Init, BudgetInit, TypeOK, BudgetTypeOK, BudgetStatus
<1>2. TypeOK /\ [Next]_vars => TypeOK'
  <2> SUFFICES ASSUME TypeOK, [Next]_vars PROVE TypeOK'
    OBVIOUS
  <2> USE DEF TypeOK, BudgetTypeOK, budgetVars, historyVars, callVars
  <2>1. CASE TaskCallStarts
    BY <2>1, TaskCapBounds DEF TaskCallStarts
  <2>2. ASSUME NEW cost \in 0..PerTaskMax, TaskCallReturns(cost) PROVE TypeOK'
    <3>1. cost \in Nat  BY LimitsAssumption
    <3>2. spent_today' \in Nat /\ spent_week' \in Nat /\ status' \in BudgetStatus
      BY <2>2, <3>1, StatusType DEF TaskCallReturns, RecordCost, Account
    <3>3. notices' \in Nat  BY <2>2, NoticesType DEF TaskCallReturns
    <3> QED  BY <2>2, <3>2, <3>3 DEF TaskCallReturns
  <2>3. CASE TaskCallRaises
    BY <2>3 DEF TaskCallRaises
  <2>4. CASE InitiativeStarts
    BY <2>4 DEF InitiativeStarts
  <2>5. ASSUME NEW cost \in 0..InitiativeMax, InitiativeReturns(cost) PROVE TypeOK'
    <3>1. cost \in Nat  BY InitiativeAssumption
    <3>2. spent_today' \in Nat /\ spent_week' \in Nat /\ status' \in BudgetStatus
      BY <2>5, <3>1, StatusType DEF InitiativeReturns, RecordCost, Account
    <3> QED  BY <2>5, <3>1, <3>2 DEF InitiativeReturns
  <2>6. CASE Midnight
    <3>1. spent_today' \in Nat /\ spent_week' \in Nat /\ status' \in BudgetStatus
      BY <2>6, StatusType DEF Midnight, ResetDaily, ResetWeekly, Account
    <3>2. weekday' \in 0..6  BY <2>6 DEF Midnight
    <3>3. initiative_today' \in Nat /\ initiative_week' \in Nat /\ notices' \in Nat
      BY <2>6 DEF Midnight
    <3> QED  BY <2>6, <3>1, <3>2, <3>3 DEF Midnight
  <2>7. CASE InitiativeRaises
    BY <2>7 DEF InitiativeRaises
  <2>8. CASE UNCHANGED vars
    BY <2>8 DEF vars
  <2> QED  BY <2>1, <2>2, <2>3, <2>4, <2>5, <2>6, <2>7, <2>8 DEF Next
<1> QED  BY <1>1, <1>2, PTL DEF Spec

(* An amount that has reached a limit still has reached it when it grows.  *)
LEMMA VacationGrows ==
  ASSUME NEW day \in Nat, NEW week \in Nat, NEW cost \in Nat,
         EvaluateStatus(day, week) = "vacation"
  PROVE  EvaluateStatus(day + cost, week + cost) = "vacation"
<1>1. Reached(day, 100, DailyMax) \/ Reached(week, 100, WeeklyMax)
  BY DEF EvaluateStatus
<1>2. Reached(day + cost, 100, DailyMax) \/ Reached(week + cost, 100, WeeklyMax)
  BY <1>1, LimitsAssumption DEF Reached
<1> QED  BY <1>2 DEF EvaluateStatus

LEMMA SpendingInvInit == Init => SpendingInv
<1> SUFFICES ASSUME Init PROVE SpendingInv
  OBVIOUS
<1>1. TypeOK  BY DEF Init, BudgetInit, TypeOK, BudgetTypeOK, BudgetStatus
<1>2. TaskSpendWithinLimits
  BY LimitsAssumption DEF Init, BudgetInit, TaskSpendWithinLimits, InFlight
<1> QED  BY <1>1, <1>2 DEF SpendingInv, Init, BudgetInit, CapInv, VacationInv

LEMMA SpendingInvNext == SpendingInv /\ TypeOK' /\ [Next]_vars => SpendingInv'
<1> SUFFICES ASSUME SpendingInv, TypeOK', [Next]_vars
             PROVE  CapInv' /\ TaskSpendWithinLimits' /\ VacationInv'
  BY DEF SpendingInv
<1>l. DailyMax \in Nat /\ WeeklyMax \in Nat /\ PerTaskMax \in Nat
  BY LimitsAssumption
<1>t. TypeOK /\ CapInv /\ TaskSpendWithinLimits /\ VacationInv
  BY DEF SpendingInv
<1>n. /\ spent_today \in Nat /\ spent_week \in Nat /\ cap \in Nat
      /\ initiative_today \in Nat /\ initiative_week \in Nat
  BY <1>t DEF TypeOK, BudgetTypeOK
<1>1. CASE TaskCallStarts
  <2>1. /\ cap' <= DailyMax /\ cap' <= WeeklyMax
        /\ spent_today - initiative_today + cap' <= DailyMax
        /\ spent_week - initiative_week + cap' <= WeeklyMax
    <3>1. Allowed /\ cap' = TaskCap  BY <1>1 DEF TaskCallStarts
    <3> QED  BY <3>1, <1>t, TaskCapBounds
  <2>2. /\ UNCHANGED <<spent_today, spent_week, status, initiative_today, initiative_week>>
        /\ worker' = "claude"
    BY <1>1 DEF TaskCallStarts, budgetVars, historyVars
  <2>3. CapInv'  BY <2>1 DEF CapInv
  <2>4. TaskSpendWithinLimits'
    BY <2>1, <2>2 DEF TaskSpendWithinLimits, InFlight
  <2> QED  BY <2>2, <2>3, <2>4, <1>t DEF VacationInv
<1>2. ASSUME NEW cost \in 0..PerTaskMax, TaskCallReturns(cost)
      PROVE  CapInv' /\ TaskSpendWithinLimits' /\ VacationInv'
  <2>1. cost \in Nat /\ cost <= cap /\ worker = "claude" /\ worker' = "idle"
    BY <1>2, <1>l, <1>n DEF TaskCallReturns
  <2>2. /\ spent_today' = spent_today + cost
        /\ spent_week' = spent_week + cost
        /\ status' = EvaluateStatus(spent_today', spent_week')
        /\ UNCHANGED <<initiative_today, initiative_week>>
    BY <1>2 DEF TaskCallReturns, RecordCost, Account, historyVars
  <2>3. TaskSpendWithinLimits'
    BY <2>1, <2>2, <1>l, <1>n, <1>t DEF TaskSpendWithinLimits, InFlight
  <2>4. CapInv'  BY <2>1 DEF CapInv
  <2>5. VacationInv'  BY <2>2 DEF VacationInv
  <2> QED  BY <2>3, <2>4, <2>5
<1>3. CASE TaskCallRaises
  <2>1. /\ UNCHANGED <<spent_today, spent_week, status, initiative_today, initiative_week>>
        /\ worker = "claude" /\ worker' = "idle"
    BY <1>3 DEF TaskCallRaises, budgetVars, historyVars
  <2>2. /\ spent_today - initiative_today + 0 <= DailyMax
        /\ spent_week - initiative_week + 0 <= WeeklyMax
    BY <2>1, <1>l, <1>n, <1>t DEF TaskSpendWithinLimits, InFlight
  <2>3. TaskSpendWithinLimits'
    BY <2>1, <2>2 DEF TaskSpendWithinLimits, InFlight
  <2> QED  BY <2>1, <2>3, <1>t DEF CapInv, VacationInv
<1>4. CASE InitiativeStarts
  BY <1>4, <1>t DEF InitiativeStarts, budgetVars, historyVars, CapInv,
                    TaskSpendWithinLimits, InFlight, VacationInv
<1>5. ASSUME NEW cost \in 0..InitiativeMax, InitiativeReturns(cost)
      PROVE  CapInv' /\ TaskSpendWithinLimits' /\ VacationInv'
  <2>1. cost \in Nat  BY InitiativeAssumption
  <2>2. /\ spent_today' = spent_today + cost
        /\ spent_week' = spent_week + cost
        /\ initiative_today' = initiative_today + cost
        /\ initiative_week' = initiative_week + cost
        /\ status' = EvaluateStatus(spent_today', spent_week')
        /\ UNCHANGED <<worker, cap>>
    BY <1>5 DEF InitiativeReturns, RecordCost, Account
  <2>3. TaskSpendWithinLimits'
    BY <2>1, <2>2, <1>l, <1>n, <1>t DEF TaskSpendWithinLimits, InFlight
  <2> QED  BY <2>2, <2>3, <1>t DEF CapInv, VacationInv
<1>6. CASE Midnight
  <2>1. /\ spent_today' = 0 /\ initiative_today' = 0
        /\ UNCHANGED <<worker, cap>>
        /\ status' = EvaluateStatus(spent_today', spent_week')
        /\ \/ spent_week' = 0 /\ initiative_week' = 0
           \/ UNCHANGED <<spent_week, initiative_week>>
    BY <1>6 DEF Midnight, ResetWeekly, ResetDaily, Account, callVars
  <2>2. TaskSpendWithinLimits'
    BY <2>1, <1>l, <1>n, <1>t DEF TaskSpendWithinLimits, InFlight, CapInv
  <2> QED  BY <2>1, <2>2, <1>t DEF CapInv, VacationInv
<1>7. CASE InitiativeRaises
  BY <1>7, <1>t DEF InitiativeRaises, budgetVars, historyVars, CapInv,
                    TaskSpendWithinLimits, InFlight, VacationInv
<1>8. CASE UNCHANGED vars
  BY <1>8, <1>t DEF vars, budgetVars, callVars, historyVars, CapInv,
                    TaskSpendWithinLimits, InFlight, VacationInv
<1> QED  BY <1>1, <1>2, <1>3, <1>4, <1>5, <1>6, <1>7, <1>8 DEF Next

THEOREM SpendingInvariant == Spec => []SpendingInv
<1> QED  BY SpendingInvInit, SpendingInvNext, TypeCorrect, PTL DEF Spec

(* The cost of tasks respects both limits, whatever the initiative loop    *)
(* spends meanwhile and whenever midnight strikes.                         *)
THEOREM TaskSpendBounded == Spec => []TaskSpendWithinLimits
<1>1. SpendingInv => TaskSpendWithinLimits  BY DEF SpendingInv
<1> QED  BY <1>1, SpendingInvariant, PTL

(* Without objectives nothing but tasks spends, so the limits bound the    *)
(* agent as a whole.                                                       *)
THEOREM SpendBounded ==
  ASSUME HasObjectives = FALSE
  PROVE  Spec => []SpendWithinLimits
<1> DEFINE Quiet == initiative = "idle" /\ initiative_today = 0 /\ initiative_week = 0
<1>1. Init => Quiet
  BY DEF Init
<1>2. Quiet /\ [Next]_vars => Quiet'
  BY DEF Next, vars, callVars, historyVars, TaskCallStarts, TaskCallReturns, TaskCallRaises,
         InitiativeStarts, InitiativeReturns, InitiativeRaises, Midnight
<1>3. SpendingInv /\ Quiet => SpendWithinLimits
  BY LimitsAssumption DEF SpendingInv, TypeOK, BudgetTypeOK, TaskSpendWithinLimits,
                          InFlight, SpendWithinLimits
<1> QED  BY <1>1, <1>2, <1>3, SpendingInvariant, PTL DEF Spec

(* A vacation ends only at a reset, and a weekly one only on a Monday.     *)
THEOREM VacationLeft == Spec => VacationLeftByReset
<1> DEFINE Leaves == status = "vacation" /\ status' # "vacation"
<1>1. SpendingInv /\ [Next]_vars =>
        (Leaves => spent_today' = 0 /\ (spent_week >= WeeklyMax => weekday' = 0))
  <2> SUFFICES ASSUME SpendingInv, [Next]_vars, Leaves
               PROVE  spent_today' = 0 /\ (spent_week >= WeeklyMax => weekday' = 0)
    OBVIOUS
  <2>t. /\ spent_today \in Nat /\ spent_week \in Nat
        /\ EvaluateStatus(spent_today, spent_week) = "vacation"
    BY DEF SpendingInv, TypeOK, BudgetTypeOK, VacationInv
  <2>1. ASSUME NEW cost \in Nat, RecordCost(cost) PROVE FALSE
    BY <2>1, <2>t, VacationGrows DEF RecordCost, Account
  <2>2. ASSUME NEW cost \in 0..PerTaskMax PROVE ~TaskCallReturns(cost)
    BY <2>1, <2>2, LimitsAssumption DEF TaskCallReturns
  <2>3. ASSUME NEW cost \in 0..InitiativeMax PROVE ~InitiativeReturns(cost)
    BY <2>1, <2>3, InitiativeAssumption DEF InitiativeReturns
  <2>4. CASE Midnight
    <3>1. spent_today' = 0
      BY <2>4 DEF Midnight, ResetWeekly, ResetDaily, Account
    <3>2. ASSUME spent_week >= WeeklyMax, weekday' # 0 PROVE FALSE
      <4>1. status' = EvaluateStatus(0, spent_week)
        BY <2>4, <3>2 DEF Midnight, ResetDaily, Account
      <4>2. Reached(spent_week, 100, WeeklyMax)
        BY <3>2, <2>t, LimitsAssumption DEF Reached
      <4> QED  BY <4>1, <4>2 DEF EvaluateStatus
    <3> QED  BY <3>1, <3>2
  <2> QED
    BY <2>2, <2>3, <2>4 DEF Next, vars, budgetVars, TaskCallStarts, TaskCallRaises,
                            InitiativeStarts, InitiativeRaises
<1> QED  BY <1>1, SpendingInvariant, PTL DEF Spec, VacationLeftByReset

(* With positive limits the cached status is always the current one ...    *)
THEOREM StatusCurrent ==
  ASSUME Positive
  PROVE  Spec => []StatusInSync
<1>1. Init => StatusInSync
  BY LimitsAssumption DEF Positive, Init, BudgetInit, StatusInSync, EvaluateStatus, Reached
<1>2. StatusInSync /\ [Next]_vars => StatusInSync'
  BY DEF StatusInSync, Next, vars, budgetVars, TaskCallStarts, TaskCallReturns, TaskCallRaises,
         InitiativeStarts, InitiativeReturns, InitiativeRaises, Midnight,
         RecordCost, ResetDaily, ResetWeekly, Account
<1> QED  BY <1>1, <1>2, PTL DEF Spec

(* ... and says vacation exactly when the guard of tasks refuses.          *)
THEOREM StatusAndGuardAgree ==
  ASSUME Positive
  PROVE  Spec => []StatusMatchesGuard
<1>1. TypeOK /\ StatusInSync => StatusMatchesGuard
  BY LimitsAssumption
     DEF Positive, TypeOK, BudgetTypeOK, StatusInSync, StatusMatchesGuard, EvaluateStatus,
         Reached, Allowed, Remaining, SmallerOf, Left
<1> QED  BY <1>1, TypeCorrect, StatusCurrent, PTL

(* With positive limits no coroutine calls Claude on an empty budget.      *)
THEOREM NoCallWithoutBudget ==
  ASSUME Positive
  PROVE  Spec => CallsNeedBudget
<1>1. StatusMatchesGuard /\ [Next]_vars =>
        ((worker = "idle" /\ worker' = "claude") \/ (initiative = "idle" /\ initiative' = "claude")
           => Remaining > 0)
  BY DEF StatusMatchesGuard, Allowed, Next, vars, callVars, TaskCallStarts, TaskCallReturns,
         TaskCallRaises, InitiativeStarts, InitiativeReturns, InitiativeRaises, Midnight
<1> QED  BY <1>1, StatusAndGuardAgree, PTL DEF Spec, CallsNeedBudget

(* A vacation is announced at most once, and one that tasks alone brought  *)
(* about is announced.                                                     *)
THEOREM VacationsAnnounced ==
  ASSUME Positive
  PROVE  Spec => []VacationAnnounced
<1>1. Init => VacationAnnounced
  BY DEF Init, BudgetInit, VacationAnnounced
<1>2. SpendingInv /\ StatusInSync /\ VacationAnnounced /\ [Next]_vars => VacationAnnounced'
  <2> SUFFICES ASSUME SpendingInv, StatusInSync, VacationAnnounced, [Next]_vars
               PROVE  VacationAnnounced'
    OBVIOUS
  <2>t. /\ spent_today \in Nat /\ spent_week \in Nat
        /\ status = EvaluateStatus(spent_today, spent_week)
        /\ initiative_week \in Nat /\ notices \in Nat
    BY DEF SpendingInv, TypeOK, BudgetTypeOK, StatusInSync
  <2>1. ASSUME NEW cost \in 0..PerTaskMax, TaskCallReturns(cost) PROVE VacationAnnounced'
    <3>1. cost \in Nat  BY LimitsAssumption
    <3>2. status = "vacation" => status' = "vacation"
      BY <2>1, <2>t, <3>1, VacationGrows DEF TaskCallReturns, RecordCost, Account
    <3>3. UNCHANGED initiative_week  BY <2>1 DEF TaskCallReturns, historyVars
    <3> QED  BY <2>1, <2>t, <3>2, <3>3 DEF TaskCallReturns, NoticeAfter, VacationAnnounced
  <2>2. ASSUME NEW cost \in 0..InitiativeMax, InitiativeReturns(cost) PROVE VacationAnnounced'
    <3>1. cost \in Nat  BY InitiativeAssumption
    <3>2. /\ status' = EvaluateStatus(spent_today + cost, spent_week + cost)
          /\ initiative_week' = initiative_week + cost
          /\ notices' = notices
      BY <2>2 DEF InitiativeReturns, RecordCost, Account
    <3>3. status = "vacation" => status' = "vacation"
      BY <2>t, <3>1, <3>2, VacationGrows
    <3>4. initiative_week' = 0 => initiative_week = 0 /\ status' = status
      <4> SUFFICES ASSUME initiative_week + cost = 0
                   PROVE  initiative_week = 0 /\ status' = status
        BY <3>2
      <4>1. initiative_week = 0 /\ cost = 0  BY <2>t, <3>1
      <4>2. spent_today + cost = spent_today /\ spent_week + cost = spent_week
        BY <4>1, <2>t
      <4> QED  BY <4>1, <4>2, <3>2, <2>t
    <3> QED  BY <2>t, <3>2, <3>3, <3>4 DEF VacationAnnounced
  <2>3. CASE Midnight
    <3>1. status' = EvaluateStatus(0, spent_week) \/ status' = EvaluateStatus(0, 0)
      BY <2>3 DEF Midnight, ResetDaily, ResetWeekly, Account
    <3>2. ~Reached(0, 100, DailyMax) /\ ~Reached(0, 100, WeeklyMax)
      BY LimitsAssumption DEF Positive, Reached
    <3>3. status' = "vacation" => status = "vacation" /\ status' = EvaluateStatus(0, spent_week)
      BY <3>1, <3>2, <2>t DEF EvaluateStatus
    <3>4. status' = "vacation" => UNCHANGED initiative_week
      BY <2>3, <3>2 DEF Midnight, ResetWeekly, Account, EvaluateStatus
    <3> QED  BY <2>3, <2>t, <3>3, <3>4 DEF Midnight, VacationAnnounced
  <2>4. CASE UNCHANGED <<status, notices, initiative_week>>
    BY <2>4 DEF VacationAnnounced
  <2> QED
    BY <2>1, <2>2, <2>3, <2>4 DEF Next, vars, budgetVars, historyVars, TaskCallStarts,
                                  TaskCallRaises, InitiativeStarts, InitiativeRaises
<1> QED  BY <1>1, <1>2, SpendingInvariant, StatusCurrent, PTL DEF Spec
=============================================================================
