--------------------------- MODULE PriorityQueue ----------------------------
(***************************************************************************)
(* What heap.h promises its user, the timer queue: a set of items of which *)
(* heap_deltop removes one that no other precedes.                         *)
(***************************************************************************)
EXTENDS Naturals

CONSTANTS Items,    \* the void* pointers that are inserted
          Key       \* what the comparison function looks at

VARIABLE queue

pqTypeOK == queue \subseteq Items

First(x) == x \in queue /\ \A y \in queue : Key[x] <= Key[y]

heap_insert == \E x \in Items \ queue : queue' = queue \cup {x}
heap_deltop == \E x \in queue : First(x) /\ queue' = queue \ {x}

pqInit == queue = {}
pqSpec == pqInit /\ [][heap_insert \/ heap_deltop]_queue
=============================================================================
