--------------------------- MODULE ReportingProofs ---------------------------
(***************************************************************************)
(* Theorems about Reporting, for every period and any number of crashes.   *)
(* The inductive invariant is ReportingInv: that no unasked report comes   *)
(* early rests on what was remembered when the report was found due, which *)
(* only grows until the report is sent (DueInv), and on the date in the    *)
(* file never being older than the last report (SentIsRemembered).         *)
(***************************************************************************)
EXTENDS Reporting, TLAPS

DueInv == step = "writing" /\ ~decided => last = Period
ReportingInv == TypeOK /\ FileCurrent /\ SentIsRemembered /\ DueInv

(* Ages stay ages and keep their order when an hour passes.                *)
LEMMA OlderIsAge == ASSUME NEW age \in Ages PROVE Older(age) \in Ages
BY ReportingAssumption DEF Ages, Older

LEMMA OlderMonotone ==
  ASSUME NEW a \in Ages, NEW b \in Ages, a <= b PROVE Older(a) <= Older(b)
BY ReportingAssumption DEF Ages, Older

LEMMA OldestAges == 0 \in Ages /\ Period \in Ages /\ Older(Period) = Period
BY ReportingAssumption DEF Ages, Older

LEMMA TypeInit == Init => TypeOK
<1> SUFFICES ASSUME Init PROVE TypeOK
  OBVIOUS
<1>1. last \in Ages /\ file \in Ages /\ sent \in Ages  BY OldestAges DEF Init
<1>2. crashes \in 0..MaxCrashes  BY ReportingAssumption DEF Init
<1>3. step \in Steps /\ decided \in BOOLEAN /\ interrupted \in BOOLEAN
  BY DEF Init, Steps
<1> QED  BY <1>1, <1>2, <1>3 DEF TypeOK

(* The date, the file and the step of the loop stay well-typed.            *)
THEOREM TypeCorrect == Spec => []TypeOK
<1>2. TypeOK /\ [Next]_vars => TypeOK'
  <2> SUFFICES ASSUME TypeOK, [Next]_vars PROVE TypeOK'
    OBVIOUS
  <2> USE DEF TypeOK, Steps, Goto
  <2>1. CASE Hour  BY <2>1, OlderIsAge DEF Hour
  <2>2. CASE Wakes  BY <2>2 DEF Wakes
  <2>3. CASE EvaluationFails  BY <2>3 DEF EvaluationFails
  <2>4. ASSUME NEW report \in BOOLEAN, Evaluated(report) PROVE TypeOK'
    BY <2>4 DEF Evaluated
  <2>5. CASE WritingFails  BY <2>5 DEF WritingFails
  <2>6. CASE Written  BY <2>6, OldestAges DEF Written
  <2>7. CASE RepositoryFails  BY <2>7 DEF RepositoryFails
  <2>8. CASE Sent  BY <2>8 DEF Sent
  <2>9. CASE Saved  BY <2>9, OldestAges DEF Saved
  <2>10. CASE Crash
    <3>1. crashes' \in 0..MaxCrashes  BY <2>10, ReportingAssumption DEF Crash
    <3>2. file' \in Ages  BY <2>10, OldestAges DEF Crash
    <3>3. interrupted' \in BOOLEAN  BY <2>10 DEF Crash
    <3> QED  BY <2>10, <3>1, <3>2, <3>3 DEF Crash
  <2>11. CASE Restart  BY <2>11 DEF Restart
  <2>12. CASE UNCHANGED vars  BY <2>12 DEF vars
  <2> QED
    BY <2>1, <2>2, <2>3, <2>4, <2>5, <2>6, <2>7, <2>8, <2>9, <2>10, <2>11, <2>12 DEF Next
<1> QED  BY TypeInit, <1>2, PTL DEF Spec

LEMMA ReportingInvInit == Init => ReportingInv
<1> SUFFICES ASSUME Init PROVE ReportingInv
  OBVIOUS
<1>1. TypeOK  BY TypeInit
<1>2. file <= sent  BY ReportingAssumption DEF Init
<1> QED  BY <1>1, <1>2 DEF Init, ReportingInv, FileCurrent, SentIsRemembered, DueInv

LEMMA ReportingInvNext == ReportingInv /\ TypeOK' /\ [Next]_vars => ReportingInv'
<1> SUFFICES ASSUME ReportingInv, TypeOK', [Next]_vars
             PROVE  FileCurrent' /\ SentIsRemembered' /\ DueInv'
  BY DEF ReportingInv
<1>t. last \in Ages /\ file \in Ages /\ sent \in Ages
  BY DEF ReportingInv, TypeOK
<1>z. \A age \in Ages : 0 <= age
  BY DEF Ages
<1> USE DEF ReportingInv, FileCurrent, SentIsRemembered, DueInv, Goto
<1>1. CASE Hour
  <2>1. SentIsRemembered'  BY <1>1, <1>t, OlderMonotone DEF Hour
  <2> QED  BY <1>1, <2>1, OldestAges DEF Hour
<1>2. CASE Wakes  BY <1>2 DEF Wakes
<1>3. CASE EvaluationFails  BY <1>3 DEF EvaluationFails
<1>4. ASSUME NEW report \in BOOLEAN, Evaluated(report)
      PROVE  FileCurrent' /\ SentIsRemembered' /\ DueInv'
  <2>1. ShouldReport => last = Period
    BY <1>t, ReportingAssumption DEF ShouldReport, Ages
  <2> QED  BY <1>4, <2>1 DEF Evaluated
<1>5. CASE WritingFails  BY <1>5 DEF WritingFails
<1>6. CASE Written  BY <1>6 DEF Written
<1>7. CASE RepositoryFails  BY <1>7 DEF RepositoryFails
<1>8. CASE Sent  BY <1>8 DEF Sent
<1>9. CASE Saved  BY <1>9, <1>t, <1>z DEF Saved
<1>10. CASE Crash
  <2>1. step \in {"sending", "saving"} \/ interrupted => interrupted'
    BY <1>10 DEF Crash
  <2>2. step \notin {"sending", "saving"} => file' = file  BY <1>10 DEF Crash
  <2>3. interrupted => interrupted'  BY <2>1
  <2> QED  BY <1>10, <2>1, <2>2, <2>3 DEF Crash
<1>11. CASE Restart  BY <1>11 DEF Restart
<1>12. CASE UNCHANGED vars  BY <1>12 DEF vars
<1> QED
  BY <1>1, <1>2, <1>3, <1>4, <1>5, <1>6, <1>7, <1>8, <1>9, <1>10, <1>11, <1>12 DEF Next

THEOREM ReportingInvariant == Spec => []ReportingInv
<1> QED  BY ReportingInvInit, ReportingInvNext, TypeCorrect, PTL DEF Spec

(* A restart takes up the schedule where the process left it.              *)
THEOREM ScheduleSurvives == Spec => [](FileCurrent /\ SentIsRemembered)
<1>1. ReportingInv => FileCurrent /\ SentIsRemembered  BY DEF ReportingInv
<1> QED  BY <1>1, ReportingInvariant, PTL

(* Reports that nobody asked for keep the period, whatever it is; only a   *)
(* death between sending and saving may bring one forward.                 *)
THEOREM PeriodKept == Spec => NoEarlyReport
<1>1. ReportingInv => (Written /\ ~decided => sent >= Period \/ interrupted)
  <2> SUFFICES ASSUME ReportingInv, Written, ~decided, ~interrupted PROVE sent >= Period
    OBVIOUS
  <2>1. file = Period /\ file <= sent
    BY DEF ReportingInv, DueInv, FileCurrent, SentIsRemembered, Written
  <2>2. sent \in Ages  BY DEF ReportingInv, TypeOK
  <2> QED  BY <2>1, <2>2, ReportingAssumption DEF Ages
<1> QED  BY <1>1, ReportingInvariant, PTL DEF NoEarlyReport
=============================================================================
