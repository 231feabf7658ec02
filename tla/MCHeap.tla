------------------------------- MODULE MCHeap -------------------------------
(* Heap on a small instance: seven items, of which two and two have the same key. *)
EXTENDS Heap

MCItems == 1..7
MCKey   == [x \in MCItems |-> IF x = 2 THEN 1 ELSE IF x = 6 THEN 5 ELSE x]
=============================================================================
