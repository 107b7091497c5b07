----------------------------- MODULE MCTaskQueue -----------------------------
(* A small TaskQueue: three readers, so that a notified one can be overtaken  *)
(* by a second and a third, and room for three entries.                    *)
EXTENDS TaskQueue
=============================================================================
