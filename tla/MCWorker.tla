------------------------------ MODULE MCWorker ------------------------------
(* Two connections, so that a batch can hold the events of both, an id can *)
(* be taken over by a new connection while an old event for it waits, and  *)
(* one timer can outlive another.                                          *)
EXTENDS Worker, TLC

\* Every client sends twice; or one of them connects and never asks for anything.
EachTwice == [c \in Conns |-> 2]
Silent == CHOOSE c \in Conns : TRUE
OneSilent == [c \in Conns |-> IF c = Silent THEN 0 ELSE 2]

Symmetry == Permutations(Conns) \cup Permutations(Reqs) \cup Permutations(Timers)
=============================================================================
