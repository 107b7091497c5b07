----------------------------- MODULE MCSpending ------------------------------
(* Limits small enough to be used up in a few calls, the weekly one within *)
(* two days: vacations of both kinds happen, begun by a task or by the     *)
(* initiative loop.                                                        *)
EXTENDS Spending
=============================================================================
