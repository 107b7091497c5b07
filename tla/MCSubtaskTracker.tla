-------------------------- MODULE MCSubtaskTracker ---------------------------
(* Two parents and four subtasks: a parent may wait for several, and both  *)
(* may wait at a time.                                                     *)
EXTENDS SubtaskTracker
=============================================================================
