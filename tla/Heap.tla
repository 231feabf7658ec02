-------------------------------- MODULE Heap --------------------------------
(***************************************************************************)
(* The array heap of heap.c: an array of cap pointers of which the first   *)
(* size are in use.  Each pass of the loops of swim and sink is a step, so *)
(* that what holds between two swaps can be stated.  malloc succeeds.      *)
(***************************************************************************)
EXTENDS Integers

CONSTANTS Items, Key,
          HEAP_DEFAULT_SIZE,
          SIZE_MAX,         \* the largest size_t
          Junk              \* an array element that was never assigned

ASSUME KeyAssumption  == Key \in [Items -> Nat] /\ Junk \notin Items

\* The longest array of pointers there can be
CapMax == SIZE_MAX \div 8

ASSUME SizeAssumption ==
  SIZE_MAX \in Nat /\ HEAP_DEFAULT_SIZE \in Nat \ {0} /\ HEAP_DEFAULT_SIZE <= CapMax

VARIABLES contptr, size, cap,
          pc,       \* "idle", in the loop of swim or sink, or "closed"
          k         \* the index the loop is at

vars == <<contptr, size, cap, pc, k>>

\* The comparison function, for the timers timer_comp
Comp(x, y) == Key[x] < Key[y]

Parent(n) == (n - 1) \div 2

TypeOK ==
  /\ size \in Nat /\ cap \in Nat /\ size <= cap
  /\ contptr \in [0..(cap - 1) -> Items \cup {Junk}]
  /\ \A n \in 0..(size - 1) : contptr[n] \in Items
  /\ pc \in {"idle", "swim", "sink", "closed"}
  /\ k \in Nat
  /\ pc \in {"swim", "sink"} => k < size

Init ==
  /\ contptr = [n \in 0..(HEAP_DEFAULT_SIZE - 1) |-> Junk]
  /\ size = 0 /\ cap = HEAP_DEFAULT_SIZE
  /\ pc = "idle" /\ k = 0

\* The array with its elements i and j swapped
swap(a, i, j) == [a EXCEPT ![i] = a[j], ![j] = a[i]]

\* The array with room for new elements: only the used part is copied
resize(a, used, room) ==
  [n \in 0..(room - 1) |-> IF n < used THEN a[n] ELSE Junk]

-----------------------------------------------------------------------------
(* heap_insert *)

Room == IF size = cap THEN cap * 2 ELSE cap

\* The caller inserts nothing that is already there: add_timer allocates a node
Insert(x) ==
  /\ pc = "idle" /\ Room <= CapMax
  /\ \A n \in 0..(size - 1) : contptr[n] # x
  /\ cap' = Room
  /\ contptr' = [(IF Room # cap THEN resize(contptr, size, Room) ELSE contptr)
                   EXCEPT ![size] = x]
  /\ size' = size + 1
  /\ pc' = "swim" /\ k' = size

\* Mutation: the parent is computed as if the array began at 1
ParentFrom1 == k \div 2

SwimTo == Parent(k)

Swim ==
  /\ pc = "swim"
  /\ IF k > 0 /\ Comp(contptr[k], contptr[SwimTo])
     THEN contptr' = swap(contptr, k, SwimTo) /\ k' = SwimTo /\ UNCHANGED pc
     ELSE pc' = "idle" /\ UNCHANGED <<contptr, k>>
  /\ UNCHANGED <<size, cap>>

-----------------------------------------------------------------------------
(* heap_deltop *)

\* Mutation: the loop starts although nothing is left
Always(used) == TRUE

MustSink(used) == used > 0

DelTop ==
  /\ pc = "idle" /\ size > 0
  /\ contptr' = swap(contptr, 0, size - 1)
  /\ size' = size - 1
  /\ pc' = IF MustSink(size') THEN "sink" ELSE "idle"
  /\ k' = 0
  /\ UNCHANGED cap

\* size - 1 in size_t
endi == (size - 1) % (SIZE_MAX + 1)

\* Mutation: the left child is taken without a look at the right one
LeftChild == 2 * k + 1

Child == IF 2 * k + 1 < endi /\ Comp(contptr[2 * k + 2], contptr[2 * k + 1])
         THEN 2 * k + 2 ELSE 2 * k + 1

SinkOn == 2 * k + 1 <= endi /\ Comp(contptr[Child], contptr[k])

Sink ==
  /\ pc = "sink" /\ SinkOn
  /\ contptr' = swap(contptr, Child, k)
  /\ k' = Child
  /\ UNCHANGED <<size, cap, pc>>

\* The size of the smaller array
Half == cap \div 2

\* The loop ends; an array that is a quarter full is halved
SinkEnds ==
  /\ pc = "sink" /\ ~SinkOn
  /\ pc' = "idle"
  /\ IF size > 0 /\ size <= (cap - 1) \div 4
     THEN contptr' = resize(contptr, size, Half) /\ cap' = Half
     ELSE UNCHANGED <<contptr, cap>>
  /\ UNCHANGED <<size, k>>

-----------------------------------------------------------------------------

\* heap_close refuses a heap that is not empty
Close ==
  /\ pc = "idle" /\ size = 0 /\ pc' = "closed"
  /\ UNCHANGED <<contptr, size, cap, k>>

Next == (\E x \in Items : Insert(x)) \/ Swim \/ DelTop \/ Sink \/ SinkEnds \/ Close

Spec == Init /\ [][Next]_vars
-----------------------------------------------------------------------------
(* Properties *)

\* Whenever no call is in progress every element but the first has a parent
\* that does not come after it; while swim or sink runs, all but the element
\* it is moving.
Ordered(n) == ~Comp(contptr[n], contptr[Parent(n)])

HeapOrder ==
  /\ pc \in {"idle", "closed"} => \A n \in 1..(size - 1) : Ordered(n)
  /\ pc = "swim" => \A n \in 1..(size - 1) : n # k => Ordered(n)
  /\ pc = "sink" => \A n \in 1..(size - 1) : Parent(n) # k => Ordered(n)

\* No item is in the array twice, through all the swaps and copies.
Distinct == \A m, n \in 0..(size - 1) : contptr[m] = contptr[n] => m = n

\* heap.c is a priority queue: an item that was inserted is there until
\* heap_deltop removes it, and it removes one that comes first.
Queue == INSTANCE PriorityQueue WITH queue <- {contptr[n] : n \in 0..(size - 1)}
IsPriorityQueue == Queue!pqSpec
=============================================================================
