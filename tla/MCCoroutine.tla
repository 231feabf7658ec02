---------------------------- MODULE MCCoroutine ----------------------------
(* Instance: slot array of one that doubles twice (to 2 and to 4), frames  *)
(* of two depths (so two frames), at most three live coroutines.            *)
EXTENDS Coroutine
=============================================================================
