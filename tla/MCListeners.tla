---------------------------- MODULE MCListeners -----------------------------
(* Listeners on a small instance; workers and connections are model values. *)
EXTENDS Listeners

=============================================================================
