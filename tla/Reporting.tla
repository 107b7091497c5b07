------------------------------ MODULE Reporting ------------------------------
(***************************************************************************)
(* ReportGenerator of src/hive/reporting.py, driven by the initiative loop *)
(* (tick in initiative.py): a status report is written when Claude decides *)
(* so, or when the reporting period has passed since the last one.  The    *)
(* date of the last report is kept in memory and in a state file, so that  *)
(* it outlives the process.                                                *)
(*                                                                         *)
(* A date is modelled by its age in hours, up to Period; no date at all    *)
(* (no file, or one that does not parse) makes a report due just as one of *)
(* age Period does, and is not told apart from it.  Claude, the superior   *)
(* and the repository are external and may fail.                           *)
(***************************************************************************)
EXTENDS Naturals

CONSTANTS
  Period,       \* should_report's delta: 1 h, 24 h or 7 d
  MaxCrashes    \* bound: times the process dies

ASSUME ReportingAssumption == Period \in Nat \ {0} /\ MaxCrashes \in Nat

VARIABLES
  step,         \* what the loop is doing
  decided,      \* whether the report under way is one Claude decided on
  last,         \* age of _last_report
  file,         \* age of the date in the state file
  crashes,
  \* History variables.
  sent,         \* age of the report that was last on its way to the superior
  interrupted   \* the process died before it had saved that one's date

vars == <<step, decided, last, file, crashes, sent, interrupted>>

Ages == 0..Period
Steps == {"asleep", "evaluating", "writing", "sending", "saving", "over", "down"}

TypeOK ==
  /\ step \in Steps
  /\ decided \in BOOLEAN
  /\ last \in Ages
  /\ file \in Ages
  /\ crashes \in 0..MaxCrashes
  /\ sent \in Ages
  /\ interrupted \in BOOLEAN

Init ==
  /\ step = "asleep"
  /\ decided = FALSE
  /\ last = Period
  /\ file = Period
  /\ crashes = 0
  /\ sent = Period
  /\ interrupted = FALSE

\* Mutants.
ShouldReport_Early == last + 1 >= Period
Evaluated_OnlyDecided(report) ==
  /\ step = "evaluating"
  /\ decided' = report
  /\ step' = IF report THEN "writing" ELSE "asleep"
  /\ UNCHANGED <<last, file, crashes, sent, interrupted>>
Saved_MemoryOnly ==
  /\ step = "saving"
  /\ last' = 0
  /\ step' = "asleep"
  /\ UNCHANGED <<decided, file, crashes, sent, interrupted>>
-----------------------------------------------------------------------------
Older(age) == IF age < Period THEN age + 1 ELSE Period

Goto(next) == step' = next

(* An hour passes.                                                         *)
Hour ==
  /\ last' = Older(last)
  /\ file' = Older(file)
  /\ sent' = Older(sent)
  /\ UNCHANGED <<step, decided, crashes, interrupted>>

(* tick: the evaluation begins; with too little budget the tick is over    *)
(* at once, without a look at the date.                                    *)
Wakes ==
  /\ step = "asleep"
  /\ Goto("evaluating")
  /\ UNCHANGED <<decided, last, file, crashes, sent, interrupted>>

(* Claude raises, or there is no decision to be read: likewise.  What only *)
(* looks like JSON raises out of tick: the loop has ended.                 *)
EvaluationFails ==
  /\ step = "evaluating"
  /\ Goto("asleep") \/ Goto("over")
  /\ UNCHANGED <<decided, last, file, crashes, sent, interrupted>>

ShouldReport == last >= Period

(* Any decision but to report is followed by the look at the date; if it   *)
(* is a task for itself and its queue is full, the loop ends before that.  *)
Evaluated(report) ==
  /\ step = "evaluating"
  /\ decided' = report
  /\ \/ Goto(IF report \/ ShouldReport THEN "writing" ELSE "asleep")
     \/ ~report /\ Goto("over")
  /\ UNCHANGED <<last, file, crashes, sent, interrupted>>

(* generate_and_send: the text comes from Claude; without it there is no   *)
(* report, and the next tick tries again.                                  *)
WritingFails ==
  /\ step = "writing"
  /\ Goto("asleep")
  /\ UNCHANGED <<decided, last, file, crashes, sent, interrupted>>

(* The text is committed to org-memory and goes to the superior.           *)
Written ==
  /\ step = "writing"
  /\ Goto("sending")
  /\ sent' = 0
  /\ interrupted' = FALSE
  /\ UNCHANGED <<decided, last, file, crashes>>

(* pull, before Claude is asked, and write_artifact, after it, are outside *)
(* the try blocks: an error there ends the loop.                           *)
RepositoryFails ==
  /\ step = "writing"
  /\ Goto("over")
  /\ UNCHANGED <<decided, last, file, crashes, sent, interrupted>>

(* Sent, or not: an error is logged and the report counts as sent.         *)
Sent ==
  /\ step = "sending"
  /\ Goto("saving")
  /\ UNCHANGED <<decided, last, file, crashes, sent, interrupted>>

Saved ==
  /\ step = "saving"
  /\ last' = 0
  /\ file' = 0
  /\ Goto("asleep")
  /\ UNCHANGED <<decided, crashes, sent, interrupted>>

(* The process dies; in the middle of write_text the file is left without  *)
(* a date.                                                                 *)
Crash ==
  /\ step # "down"
  /\ crashes < MaxCrashes
  /\ crashes' = crashes + 1
  /\ interrupted' = (interrupted \/ step \in {"sending", "saving"})
  /\ file' \in {file} \cup (IF step = "saving" THEN {0, Period} ELSE {})
  /\ Goto("down")
  /\ UNCHANGED <<decided, last, sent>>

(* _load_last_report                                                       *)
Restart ==
  /\ step = "down"
  /\ last' = file
  /\ Goto("asleep")
  /\ UNCHANGED <<decided, file, crashes, sent, interrupted>>

Next ==
  \/ Hour \/ Wakes
  \/ EvaluationFails \/ \E report \in BOOLEAN : Evaluated(report)
  \/ WritingFails \/ Written \/ RepositoryFails \/ Sent \/ Saved
  \/ Crash \/ Restart

(* Time passes, the loop sleeps, sends and saves in finite time, a dead    *)
(* process is started again, and Claude answers again and again.           *)
Spec ==
  /\ Init /\ [][Next]_vars
  /\ WF_vars(Hour) /\ WF_vars(Wakes) /\ WF_vars(Sent) /\ WF_vars(Saved) /\ WF_vars(Restart)
  /\ SF_vars(\E report \in BOOLEAN : Evaluated(report)) /\ SF_vars(Written)
-----------------------------------------------------------------------------
(* The superior gets no unasked report before the period has passed since  *)
(* the last one it was sent, unless the process died between sending that  *)
(* one and saving its date: one crash costs at most one report too many.   *)
NoEarlyReport == [][Written /\ ~decided => sent >= Period \/ interrupted]_vars

(* Memory and file agree while the process runs: a restart forgets nothing *)
(* that was saved.                                                         *)
FileCurrent == step # "down" => last = file

(* Between two reports the date remembered is not older than the report    *)
(* the superior got last.                                                  *)
SentIsRemembered == step \notin {"sending", "saving"} /\ ~interrupted => file <= sent

(* A superior hears of its agent for ever: whatever fails or dies in       *)
(* between, and whatever Claude decides, there will be another report.     *)
(* Only a loop that has ended in a process that lives on ends the reports. *)
ReportsGoOn == []<>(step = "saving") \/ <>[](step = "over")
=============================================================================
