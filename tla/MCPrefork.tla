----------------------------- MODULE MCPrefork ------------------------------
(* Prefork on a small instance; the pids are model values. *)
EXTENDS Prefork

=============================================================================
