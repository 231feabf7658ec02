---------------------------- MODULE MCThreadPool ----------------------------
(* ThreadPool on a small instance; the tasks and the callers are model values. *)
EXTENDS ThreadPool
=============================================================================
