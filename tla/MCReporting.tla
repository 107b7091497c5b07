---------------------------- MODULE MCReporting ------------------------------
(* A period of a few ticks of the clock, and two crashes, so that the      *)
(* second may come while what the first has broken is being made good.     *)
EXTENDS Reporting
=============================================================================
