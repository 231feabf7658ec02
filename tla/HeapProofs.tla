----------------------------- MODULE HeapProofs -----------------------------
(***************************************************************************)
(* Proofs about module Heap, for every set of items, every key and every   *)
(* initial capacity.  HeapOrder alone is not inductive: when swim or sink  *)
(* moves an element past position k, the children of k get the parent of   *)
(* k as their parent.  Moving says that they never precede it.             *)
(***************************************************************************)
EXTENDS Heap, WellFoundedInduction, TLAPS

\* While an element is moved, the children of its position do not precede
\* the parent of its position.
Moving ==
  pc \in {"swim", "sink"} =>
    \A n \in 1..(size - 1) :
      k > 0 /\ Parent(n) = k => ~Comp(contptr[n], contptr[Parent(k)])

CapBound == cap > 0 /\ cap <= CapMax

IInv == TypeOK /\ HeapOrder /\ Distinct /\ Moving /\ CapBound

-----------------------------------------------------------------------------
(* Facts about indices and arrays *)

\* The parent of a position comes before it and is not the parent of others
\* than 2 * p + 1 and 2 * p + 2.
LEMMA ParentIs ==
  ASSUME NEW n \in Nat \ {0}
  PROVE  /\ Parent(n) \in Nat /\ Parent(n) < n
         /\ n = 2 * Parent(n) + 1 \/ n = 2 * Parent(n) + 2
BY DEF Parent

\* Both children of a position have it as their parent.
LEMMA ParentOfChild ==
  ASSUME NEW n \in Nat
  PROVE  Parent(2 * n + 1) = n /\ Parent(2 * n + 2) = n
BY DEF Parent

\* The greatest size_t does not get in the way of an array that fits in memory.
LEMMA EndIs ==
  ASSUME TypeOK, CapBound, size > 0
  PROVE  endi = size - 1
<1>1. SIZE_MAX \in Nat /\ CapMax \in Nat /\ CapMax <= SIZE_MAX
  BY SizeAssumption DEF CapMax
<1>2. size - 1 \in 0..SIZE_MAX
  BY <1>1 DEF TypeOK, CapBound
<1>3. \A m \in Nat : \A x \in 0..m : x % (m + 1) = x
  OBVIOUS
<1> QED BY <1>1, <1>2, <1>3 DEF endi

\* What resize returns.
LEMMA ResizeIs ==
  ASSUME NEW room \in Nat, NEW used \in Nat, NEW dom \in Nat, used <= room, used <= dom,
         NEW a \in [0..(dom - 1) -> Items \cup {Junk}]
  PROVE  /\ resize(a, used, room) \in [0..(room - 1) -> Items \cup {Junk}]
         /\ \A n \in 0..(used - 1) : resize(a, used, room)[n] = a[n]
<1>1. \A n \in 0..(room - 1) : n < used => n \in 0..(dom - 1)
  OBVIOUS
<1> QED BY <1>1 DEF resize

\* A non-empty set of naturals has a least element.
LEMMA LeastNat ==
  ASSUME NEW T, T \subseteq Nat, T # {}
  PROVE  \E x \in T : \A y \in T : x <= y
<1>1. PICK x \in T : \A y \in T : ~ (<<y, x>> \in OpToRel(<, Nat))
  BY NatLessThanWellFounded, WFMin
<1>2. \A y \in T : ~ (y < x)
  BY <1>1, Zenon DEF OpToRel
<1> QED BY <1>2

\* Comp compares two numbers.
LEMMA CompIs ==
  ASSUME NEW x \in Items, NEW y \in Items
  PROVE  Key[x] \in Nat /\ Key[y] \in Nat /\ (Comp(x, y) <=> Key[x] < Key[y])
BY KeyAssumption DEF Comp

\* Of an array in heap order the first element comes first.
LEMMA TopComesFirst ==
  ASSUME TypeOK, pc = "idle", HeapOrder, size > 0, NEW m \in 0..(size - 1)
  PROVE  Key[contptr[0]] <= Key[contptr[m]]
<1> DEFINE T == {n \in 0..(size - 1) : Key[contptr[n]] < Key[contptr[0]]}
<1>1. \A n \in 0..(size - 1) : contptr[n] \in Items /\ Key[contptr[n]] \in Nat
  BY KeyAssumption DEF TypeOK
<1>2. 0 \in 0..(size - 1)
  BY DEF TypeOK
<1>3. SUFFICES T = {}
  BY <1>1, <1>2
<1>4. SUFFICES ASSUME T # {} PROVE FALSE
  OBVIOUS
<1>5. PICK n \in T : \A y \in T : n <= y
  <2>1. T \subseteq Nat
    BY DEF TypeOK
  <2> HIDE DEF T
  <2> QED BY <1>4, <2>1, LeastNat
<1>6. n \in 1..(size - 1) /\ Key[contptr[n]] < Key[contptr[0]]
  BY <1>1, <1>2, <1>5
<1>7. Parent(n) \in 0..(size - 1) /\ Parent(n) < n
  BY <1>6, ParentIs DEF TypeOK
<1>8. ~Comp(contptr[n], contptr[Parent(n)])
  BY <1>6 DEF HeapOrder, Ordered
<1>9. Key[contptr[Parent(n)]] <= Key[contptr[n]]
  BY <1>1, <1>6, <1>7, <1>8, CompIs
<1>10. Parent(n) \in T
  BY <1>1, <1>2, <1>6, <1>7, <1>9
<1> QED BY <1>5, <1>7, <1>10

-----------------------------------------------------------------------------
(* The invariant, action by action *)

\* heap_create: an empty heap.
LEMMA InitInv == Init => IInv
<1> SUFFICES ASSUME Init PROVE IInv
  OBVIOUS
<1>1. TypeOK /\ CapBound
  BY SizeAssumption DEF Init, TypeOK, CapBound
<1>2. HeapOrder /\ Distinct /\ Moving
  BY DEF Init, HeapOrder, Distinct, Moving
<1> QED BY <1>1, <1>2 DEF IInv

\* heap_insert up to swim: the new element is the only one out of order.
LEMMA InsertInv ==
  ASSUME IInv, NEW x \in Items, Insert(x)
  PROVE  IInv'
<1> USE DEF IInv
<1>1. /\ size \in Nat /\ Room \in Nat /\ size < Room /\ Room <= CapMax
      /\ size' = size + 1 /\ cap' = Room /\ pc' = "swim" /\ k' = size
  BY DEF Insert, Room, TypeOK, CapBound
<1> DEFINE base == IF Room # cap THEN resize(contptr, size, Room) ELSE contptr
<1>2. base \in [0..(Room - 1) -> Items \cup {Junk}] /\ \A n \in 0..(size - 1) : base[n] = contptr[n]
  <2>1. CASE Room # cap
    BY <1>1, <2>1, ResizeIs DEF TypeOK
  <2>2. CASE Room = cap
    BY <2>2 DEF TypeOK
  <2> QED BY <2>1, <2>2
<1>3. contptr' = [base EXCEPT ![size] = x]
  BY DEF Insert
<1>4. /\ contptr' \in [0..(Room - 1) -> Items \cup {Junk}]
      /\ contptr'[size] = x
      /\ \A n \in 0..(size - 1) : contptr'[n] = contptr[n]
  BY <1>1, <1>2, <1>3
<1>5. TypeOK' /\ CapBound'
  BY <1>1, <1>4 DEF TypeOK, CapBound
<1>6. HeapOrder'
  <2>1. SUFFICES ASSUME NEW n \in 1..(size - 1) PROVE Ordered(n)'
    BY <1>1 DEF HeapOrder
  <2>2. Parent(n) \in 0..(size - 1)
    BY <1>1, ParentIs
  <2>3. Ordered(n)
    BY DEF HeapOrder, Insert
  <2> QED BY <1>1, <1>4, <2>2, <2>3 DEF Ordered, Comp
<1>7. Distinct'
  BY <1>1, <1>4 DEF Distinct, Insert
<1>8. Moving'
  <2>1. \A n \in 1..size : Parent(n) # size
    BY <1>1, ParentIs
  <2> QED BY <1>1, <2>1 DEF Moving
<1> QED BY <1>5, <1>6, <1>7, <1>8

\* What a swap inside the array does.
LEMMA SwapTypes ==
  ASSUME TypeOK, NEW i \in 0..(size - 1), NEW j \in 0..(size - 1),
         contptr' = swap(contptr, i, j)
  PROVE  /\ contptr' \in [0..(cap - 1) -> Items \cup {Junk}]
         /\ \A n \in 0..(size - 1) : contptr'[n] \in Items
         /\ contptr'[i] = contptr[j] /\ contptr'[j] = contptr[i]
         /\ \A n \in 0..(size - 1) : n # i /\ n # j => contptr'[n] = contptr[n]
<1>1. /\ i \in 0..(cap - 1) /\ j \in 0..(cap - 1)
      /\ \A n \in 0..(size - 1) : n \in 0..(cap - 1) /\ contptr[n] \in Items
      /\ contptr \in [0..(cap - 1) -> Items \cup {Junk}]
  BY DEF TypeOK
<1>2. /\ contptr' = [contptr EXCEPT ![i] = contptr[j], ![j] = contptr[i]]
  BY DEF swap
<1>3. /\ contptr' \in [0..(cap - 1) -> Items \cup {Junk}]
      /\ contptr'[i] = contptr[j] /\ contptr'[j] = contptr[i]
      /\ \A n \in 0..(cap - 1) : n # i /\ n # j => contptr'[n] = contptr[n]
  BY <1>1, <1>2
<1> QED BY <1>1, <1>3

\* No swap makes an item appear twice.
LEMMA SwapDistinct ==
  ASSUME TypeOK, Distinct, NEW i \in 0..(size - 1), NEW j \in 0..(size - 1),
         contptr' = swap(contptr, i, j), size' \in Nat, size' <= size
  PROVE  Distinct'
<1>1. /\ contptr'[i] = contptr[j] /\ contptr'[j] = contptr[i]
      /\ \A n \in 0..(size - 1) : n # i /\ n # j => contptr'[n] = contptr[n]
  BY SwapTypes
<1>2. \A s, t \in Nat : s <= t => \A n \in 0..(s - 1) : n \in 0..(t - 1)
  OBVIOUS
<1>3. \A n \in 0..(size' - 1) : n \in 0..(size - 1)
  BY <1>2, Zenon DEF TypeOK
<1>4. \A m, n \in 0..(size - 1) : contptr[m] = contptr[n] => m = n
  BY DEF Distinct
<1>5. \A m, n \in 0..(size - 1) : contptr'[m] = contptr'[n] => m = n
  BY <1>1, <1>4
<1> QED BY <1>3, <1>5 DEF Distinct

\* A turn of swim moves the element that is out of order up, or ends.
LEMMA SwimInv ==
  ASSUME IInv, Swim
  PROVE  IInv'
<1> USE DEF IInv
<1> DEFINE p == Parent(k)
<1>0. k \in Nat /\ size \in Nat /\ k < size /\ size' = size /\ cap' = cap
  BY DEF TypeOK, Swim
<1>1. CASE k > 0 /\ Comp(contptr[k], contptr[SwimTo])
  <2>1. p \in Nat /\ p < k
    BY <1>0, <1>1, ParentIs
  <2>2. contptr' = swap(contptr, k, p) /\ k' = p /\ pc' = "swim" /\ pc = "swim"
    BY <1>1 DEF Swim, SwimTo
  <2>3. /\ contptr' \in [0..(cap - 1) -> Items \cup {Junk}]
        /\ \A n \in 0..(size - 1) : contptr'[n] \in Items
        /\ contptr'[k] = contptr[p] /\ contptr'[p] = contptr[k]
        /\ \A n \in 0..(size - 1) : n # k /\ n # p => contptr'[n] = contptr[n]
    BY <1>0, <2>1, <2>2, SwapTypes
  <2>4. \A n \in 0..(size - 1) : contptr[n] \in Items /\ Key[contptr[n]] \in Nat
    BY KeyAssumption DEF TypeOK
  <2>5. Key[contptr[k]] < Key[contptr[p]]
    BY <1>1 DEF Comp, SwimTo
  <2>6. \A n \in 1..(size - 1) : n # k => Key[contptr[Parent(n)]] <= Key[contptr[n]]
    <3>1. TAKE n \in 1..(size - 1)
    <3>2. HAVE n # k
    <3>3. ~Comp(contptr[n], contptr[Parent(n)])
      BY <2>2, <3>2 DEF HeapOrder, Ordered
    <3>4. Parent(n) \in 0..(size - 1) /\ n \in 0..(size - 1)
      BY <1>0, ParentIs
    <3> QED BY <2>4, <3>3, <3>4 DEF Comp
  <2>7. \A n \in 1..(size - 1) : Parent(n) = k => Key[contptr[p]] <= Key[contptr[n]]
    <3>1. TAKE n \in 1..(size - 1)
    <3>2. HAVE Parent(n) = k
    <3>3. ~Comp(contptr[n], contptr[p])
      BY <1>0, <1>1, <2>2, <3>2 DEF Moving
    <3>4. p \in 0..(size - 1) /\ n \in 0..(size - 1)
      BY <1>0, <2>1
    <3> QED BY <2>4, <3>3, <3>4 DEF Comp
  <2>8. TypeOK' /\ CapBound'
    BY <1>0, <2>1, <2>2, <2>3 DEF TypeOK, CapBound
  <2>9. HeapOrder'
    <3>1. SUFFICES ASSUME NEW n \in 1..(size - 1), n # p PROVE Ordered(n)'
      BY <1>0, <2>2 DEF HeapOrder
    <3>2. n \in 0..(size - 1) /\ Parent(n) \in 0..(size - 1) /\ Parent(n) < n
      BY <1>0, ParentIs
    <3>3. SUFFICES Key[contptr'[Parent(n)]] <= Key[contptr'[n]]
      BY <2>3, <3>2, KeyAssumption DEF Ordered, Comp
    <3>4. CASE n = k
      BY <1>0, <2>1, <2>3, <2>4, <2>5, <3>4
    <3>5. CASE n # k /\ Parent(n) = k
      BY <1>0, <2>3, <2>7, <3>1, <3>2, <3>5
    <3>6. CASE n # k /\ Parent(n) = p
      <4>1. contptr'[n] = contptr[n] /\ contptr'[p] = contptr[k]
        BY <2>3, <3>1, <3>2, <3>6
      <4>2. Key[contptr[p]] <= Key[contptr[n]]
        BY <2>6, <3>6
      <4> QED BY <1>0, <2>1, <2>4, <2>5, <3>2, <3>6, <4>1, <4>2
    <3>7. CASE n # k /\ Parent(n) # k /\ Parent(n) # p
      BY <2>3, <2>6, <3>1, <3>2, <3>7
    <3> QED BY <3>4, <3>5, <3>6, <3>7
  <2>10. Distinct'
    <3>1. k \in 0..(size - 1) /\ p \in 0..(size - 1) /\ size' \in Nat /\ size' <= size
      BY <1>0, <2>1
    <3> QED BY <2>2, <3>1, SwapDistinct
  <2>11. Moving'
    <3>1. SUFFICES ASSUME NEW n \in 1..(size - 1), p > 0, Parent(n) = p
                   PROVE  ~Comp(contptr'[n], contptr'[Parent(p)])
      BY <1>0, <2>2 DEF Moving
    <3>2. /\ n \in 0..(size - 1) /\ p < n /\ p \in 1..(size - 1)
          /\ Parent(p) \in 0..(size - 1) /\ Parent(p) < p
      BY <1>0, <2>1, <3>1, ParentIs
    <3>3. contptr'[Parent(p)] = contptr[Parent(p)]
      BY <2>1, <2>3, <3>2
    <3>4. Key[contptr[Parent(p)]] <= Key[contptr[p]]
      BY <2>1, <2>6, <3>2
    <3>5. Key[contptr[p]] <= Key[contptr'[n]]
      <4>1. CASE n = k
        BY <1>0, <2>1, <2>3, <2>4, <4>1
      <4>2. CASE n # k
        BY <2>3, <2>6, <3>1, <3>2, <4>2
      <4> QED BY <4>1, <4>2
    <3>6. Key[contptr'[n]] \in Nat
      BY <2>3, <3>2, KeyAssumption
    <3> QED BY <2>4, <3>2, <3>3, <3>4, <3>5, <3>6 DEF Comp
  <2> QED BY <2>8, <2>9, <2>10, <2>11
<1>2. CASE ~(k > 0 /\ Comp(contptr[k], contptr[SwimTo]))
  <2>1. pc' = "idle" /\ contptr' = contptr /\ k' = k /\ pc = "swim"
    BY <1>2 DEF Swim
  <2>2. TypeOK' /\ CapBound'
    BY <1>0, <2>1 DEF TypeOK, CapBound
  <2>3. \A n \in 1..(size - 1) : Ordered(n)
    BY <1>0, <1>2, <2>1 DEF HeapOrder, Ordered, SwimTo
  <2>4. HeapOrder' /\ Distinct' /\ Moving'
    BY <1>0, <2>1, <2>3 DEF HeapOrder, Ordered, Distinct, Moving
  <2> QED BY <2>2, <2>4
<1> QED BY <1>1, <1>2

\* Child is the child of k that comes first.
LEMMA ChildIs ==
  ASSUME IInv, pc = "sink", 2 * k + 1 <= size - 1
  PROVE  /\ Child \in 0..(size - 1) /\ k < Child /\ Parent(Child) = k
         /\ \A n \in 1..(size - 1) :
              Parent(n) = k => Key[contptr[Child]] <= Key[contptr[n]]
<1>1. k \in Nat /\ size \in Nat /\ k < size /\ endi = size - 1
  BY EndIs DEF IInv, TypeOK
<1>2. \A n \in 0..(size - 1) : contptr[n] \in Items /\ Key[contptr[n]] \in Nat
  BY KeyAssumption DEF TypeOK, IInv
<1>3. /\ Child = 2 * k + 1 \/ Child = 2 * k + 2
      /\ Child \in 0..(size - 1) /\ k < Child
  BY <1>1 DEF Child
<1>4. Parent(Child) = k
  BY <1>1, <1>3, ParentOfChild
<1>5. ASSUME NEW n \in 1..(size - 1), Parent(n) = k
      PROVE  Key[contptr[Child]] <= Key[contptr[n]]
  <2>1. n = 2 * k + 1 \/ n = 2 * k + 2
    BY <1>1, <1>5, ParentIs
  <2>2. CASE 2 * k + 1 < size - 1
    <3>1. 2 * k + 1 \in 0..(size - 1) /\ 2 * k + 2 \in 0..(size - 1)
      BY <1>1, <2>2
    <3>2. CASE Comp(contptr[2 * k + 2], contptr[2 * k + 1])
      <4>1. Child = 2 * k + 2
        BY <1>1, <2>2, <3>2 DEF Child
      <4> QED BY <1>2, <2>1, <3>1, <3>2, <4>1 DEF Comp
    <3>3. CASE ~Comp(contptr[2 * k + 2], contptr[2 * k + 1])
      <4>1. Child = 2 * k + 1
        BY <1>1, <2>2, <3>3 DEF Child
      <4> QED BY <1>2, <2>1, <3>1, <3>3, <4>1 DEF Comp
    <3> QED BY <3>2, <3>3
  <2>3. CASE ~(2 * k + 1 < size - 1)
    <3>1. Child = 2 * k + 1 /\ n = 2 * k + 1
      BY <1>1, <2>1, <2>3 DEF Child
    <3>2. Key[contptr[n]] \in Nat
      BY <1>2, <1>1
    <3> QED BY <3>1, <3>2
  <2> QED BY <2>2, <2>3
<1> QED BY <1>3, <1>4, <1>5

\* heap_deltop up to sink: the last element, now first, is out of order.
LEMMA DelTopInv ==
  ASSUME IInv, DelTop
  PROVE  IInv'
<1> USE DEF IInv
<1>1. /\ size \in Nat /\ size > 0 /\ size' = size - 1 /\ cap' = cap /\ k' = 0
      /\ pc = "idle" /\ contptr' = swap(contptr, 0, size - 1)
      /\ pc' = IF size' > 0 THEN "sink" ELSE "idle"
  BY DEF DelTop, MustSink, TypeOK
<1>2. /\ contptr' \in [0..(cap - 1) -> Items \cup {Junk}]
      /\ \A n \in 0..(size - 1) : contptr'[n] \in Items
      /\ \A n \in 0..(size - 1) : n # 0 /\ n # size - 1 => contptr'[n] = contptr[n]
  BY <1>1, SwapTypes
<1>3. TypeOK' /\ CapBound'
  BY <1>1, <1>2 DEF TypeOK, CapBound
<1>4. HeapOrder'
  <2>1. SUFFICES ASSUME NEW n \in 1..(size - 2), Parent(n) # 0 PROVE Ordered(n)'
    BY <1>1 DEF HeapOrder
  <2>2. /\ n \in 1..(size - 1) /\ n # size - 1
        /\ Parent(n) \in 0..(size - 1) /\ Parent(n) # size - 1
    BY <1>1, ParentIs
  <2>3. Ordered(n)
    BY <1>1, <2>2 DEF HeapOrder
  <2> QED BY <1>1, <1>2, <2>1, <2>2, <2>3 DEF Ordered, Comp
<1>5. Distinct'
  <2>1. 0 \in 0..(size - 1) /\ size - 1 \in 0..(size - 1) /\ size' \in Nat /\ size' <= size
    BY <1>1
  <2> QED BY <1>1, <2>1, SwapDistinct
<1>6. Moving'
  BY <1>1 DEF Moving
<1> QED BY <1>3, <1>4, <1>5, <1>6

\* A turn of sink moves it down, below the child that comes first.
LEMMA SinkInv ==
  ASSUME IInv, Sink
  PROVE  IInv'
<1> USE DEF IInv
<1> DEFINE j == Child
<1>0. k \in Nat /\ size \in Nat /\ k < size /\ size' = size /\ cap' = cap /\ endi = size - 1
  BY EndIs DEF TypeOK, Sink
<1>1. /\ pc = "sink" /\ pc' = "sink" /\ contptr' = swap(contptr, j, k) /\ k' = j
      /\ Comp(contptr[j], contptr[k]) /\ 2 * k + 1 <= size - 1
  BY <1>0 DEF Sink, SinkOn
<1>2. /\ j \in 0..(size - 1) /\ k \in 0..(size - 1) /\ k < j /\ Parent(j) = k
      /\ \A n \in 1..(size - 1) : Parent(n) = k => Key[contptr[j]] <= Key[contptr[n]]
  BY <1>0, <1>1, ChildIs
<1> HIDE DEF j
<1>3. /\ contptr' \in [0..(cap - 1) -> Items \cup {Junk}]
      /\ \A n \in 0..(size - 1) : contptr'[n] \in Items
      /\ contptr'[j] = contptr[k] /\ contptr'[k] = contptr[j]
      /\ \A n \in 0..(size - 1) : n # j /\ n # k => contptr'[n] = contptr[n]
  BY <1>1, <1>2, SwapTypes
<1>4. \A n \in 0..(size - 1) : contptr[n] \in Items /\ Key[contptr[n]] \in Nat
  BY KeyAssumption DEF TypeOK
<1>5. Key[contptr[j]] < Key[contptr[k]]
  BY <1>1 DEF Comp
<1>6. \A n \in 1..(size - 1) : Parent(n) # k => Key[contptr[Parent(n)]] <= Key[contptr[n]]
  <2>1. TAKE n \in 1..(size - 1)
  <2>2. HAVE Parent(n) # k
  <2>3. ~Comp(contptr[n], contptr[Parent(n)])
    BY <1>1, <2>2 DEF HeapOrder, Ordered
  <2>4. Parent(n) \in 0..(size - 1) /\ n \in 0..(size - 1)
    BY <1>0, ParentIs
  <2> QED BY <1>4, <2>3, <2>4 DEF Comp
<1>7. TypeOK' /\ CapBound'
  BY <1>0, <1>1, <1>2, <1>3 DEF TypeOK, CapBound
<1>8. HeapOrder'
  <2>1. SUFFICES ASSUME NEW n \in 1..(size - 1), Parent(n) # j PROVE Ordered(n)'
    BY <1>0, <1>1 DEF HeapOrder
  <2>2. n \in 0..(size - 1) /\ Parent(n) \in 0..(size - 1) /\ Parent(n) < n
    BY <1>0, ParentIs
  <2>3. SUFFICES Key[contptr'[Parent(n)]] <= Key[contptr'[n]]
    BY <1>3, <2>2, KeyAssumption DEF Ordered, Comp
  <2>4. CASE n = j
    BY <1>2, <1>3, <1>4, <1>5, <2>4
  <2>5. CASE n # j /\ Parent(n) = k
    BY <1>0, <1>2, <1>3, <2>2, <2>5
  <2>6. CASE n = k
    <3>1. k > 0 /\ j \in 1..(size - 1)
      BY <1>0, <1>2, <2>6
    <3>2. ~Comp(contptr[j], contptr[Parent(k)])
      BY <1>1, <1>2, <3>1 DEF Moving
    <3>3. contptr'[Parent(k)] = contptr[Parent(k)]
      BY <1>3, <2>1, <2>2, <2>6
    <3> QED BY <1>3, <1>4, <2>2, <2>6, <3>2, <3>3, <1>2 DEF Comp
  <2>7. CASE n # j /\ n # k /\ Parent(n) # k
    BY <1>3, <1>6, <2>1, <2>2, <2>7
  <2> QED BY <2>4, <2>5, <2>6, <2>7
<1>9. Distinct'
  BY <1>0, <1>1, <1>2, SwapDistinct
<1>10. Moving'
  <2>1. SUFFICES ASSUME NEW n \in 1..(size - 1), j > 0, Parent(n) = j
                 PROVE  ~Comp(contptr'[n], contptr'[Parent(j)])
    BY <1>0, <1>1 DEF Moving
  <2>2. n \in 0..(size - 1) /\ j < n
    BY <1>0, <2>1, ParentIs
  <2>3. contptr'[n] = contptr[n] /\ contptr'[Parent(j)] = contptr[j]
    BY <1>2, <1>3, <2>2
  <2>4. Key[contptr[j]] <= Key[contptr[n]]
    BY <1>2, <1>6, <2>1
  <2> QED BY <1>2, <1>4, <2>2, <2>3, <2>4 DEF Comp
<1> QED BY <1>7, <1>8, <1>9, <1>10

\* Where sink ends the heap is in order, also when the array is halved.
LEMMA SinkEndsInv ==
  ASSUME IInv, SinkEnds
  PROVE  IInv' /\ \A n \in 0..(size - 1) : contptr'[n] = contptr[n]
<1> USE DEF IInv
<1>0. /\ k \in Nat /\ size \in Nat /\ k < size /\ cap \in Nat /\ size <= cap /\ cap > 0
      /\ CapMax \in Nat /\ cap <= CapMax /\ endi = size - 1
      /\ pc = "sink" /\ pc' = "idle" /\ size' = size /\ k' = k
  BY EndIs, SizeAssumption DEF TypeOK, CapBound, SinkEnds, CapMax
<1>1. /\ cap' \in Nat /\ size <= cap' /\ cap' > 0 /\ cap' <= CapMax
      /\ contptr' \in [0..(cap' - 1) -> Items \cup {Junk}]
      /\ \A n \in 0..(size - 1) : contptr'[n] = contptr[n]
  <2>1. CASE size > 0 /\ size <= (cap - 1) \div 4
    <3>1. contptr' = resize(contptr, size, Half) /\ cap' = Half
      BY <2>1 DEF SinkEnds
    <3>2. Half \in Nat /\ size <= Half /\ Half > 0 /\ Half <= CapMax
      BY <1>0, <2>1 DEF Half
    <3>3. contptr \in [0..(cap - 1) -> Items \cup {Junk}]
      BY DEF TypeOK
    <3> QED BY <1>0, <3>1, <3>2, <3>3, ResizeIs
  <2>2. CASE ~(size > 0 /\ size <= (cap - 1) \div 4)
    BY <1>0, <2>2 DEF SinkEnds, TypeOK
  <2> QED BY <2>1, <2>2
<1>2. \A n \in 0..(size - 1) : contptr[n] \in Items /\ Key[contptr[n]] \in Nat
  BY KeyAssumption DEF TypeOK
<1>3. TypeOK' /\ CapBound'
  BY <1>0, <1>1, <1>2 DEF TypeOK, CapBound
<1>4. \A n \in 1..(size - 1) : Ordered(n)
  <2>1. TAKE n \in 1..(size - 1)
  <2>2. CASE Parent(n) # k
    BY <1>0, <2>2 DEF HeapOrder
  <2>3. CASE Parent(n) = k
    <3>1. 2 * k + 1 <= size - 1
      BY <1>0, <2>3, ParentIs
    <3>2. Child \in 0..(size - 1) /\ Key[contptr[Child]] <= Key[contptr[n]]
      BY <1>0, <2>3, <3>1, ChildIs
    <3>3. ~Comp(contptr[Child], contptr[k])
      BY <1>0, <3>1 DEF SinkEnds, SinkOn
    <3> QED BY <1>0, <1>2, <2>3, <3>2, <3>3 DEF Comp, Ordered
  <2> QED BY <2>2, <2>3
<1>5. HeapOrder'
  <2>1. SUFFICES ASSUME NEW n \in 1..(size - 1) PROVE Ordered(n)'
    BY <1>0 DEF HeapOrder
  <2>2. n \in 0..(size - 1) /\ Parent(n) \in 0..(size - 1)
    BY <1>0, ParentIs
  <2> QED BY <1>1, <1>4, <2>2 DEF Ordered, Comp
<1>6. Distinct'
  <2>1. \A m, n \in 0..(size - 1) : contptr[m] = contptr[n] => m = n
    BY DEF Distinct
  <2>2. \A m, n \in 0..(size - 1) : contptr'[m] = contptr'[n] => m = n
    BY <1>1, <2>1
  <2> QED BY <1>0, <2>2 DEF Distinct
<1>7. Moving'
  BY <1>0 DEF Moving
<1> QED BY <1>1, <1>3, <1>5, <1>6, <1>7

\* heap_close closes an empty heap only.
LEMMA CloseInv ==
  ASSUME IInv, Close
  PROVE  IInv'
BY DEF IInv, Close, TypeOK, HeapOrder, Ordered, Distinct, Moving, CapBound

\* Nothing happens to the heap.
LEMMA StutterInv ==
  ASSUME IInv, UNCHANGED vars
  PROVE  IInv'
BY DEF IInv, vars, TypeOK, HeapOrder, Ordered, Distinct, Moving, CapBound, Comp

\* heap.c keeps its array a heap without duplicates, inside its bounds: no
\* pass of swim or sink, no doubling and no halving breaks it.
THEOREM HeapCorrect == Spec => [](TypeOK /\ HeapOrder /\ Distinct)
<1>1. IInv /\ [Next]_vars => IInv'
  BY InsertInv, SwimInv, DelTopInv, SinkInv, SinkEndsInv, CloseInv, StutterInv DEF Next
<1>2. IInv => TypeOK /\ HeapOrder /\ Distinct
  BY DEF IInv
<1> QED BY InitInv, <1>1, <1>2, PTL DEF Spec

-----------------------------------------------------------------------------
(* heap.c implements the priority queue *)

Content == {contptr[n] : n \in 0..(size - 1)}

\* A swap does not change what the array contains.
LEMMA SwapContent ==
  ASSUME TypeOK, NEW i \in 0..(size - 1), NEW j \in 0..(size - 1),
         contptr' = swap(contptr, i, j), size' = size
  PROVE  Content' = Content
<1>1. /\ contptr'[i] = contptr[j] /\ contptr'[j] = contptr[i]
      /\ \A n \in 0..(size - 1) : n # i /\ n # j => contptr'[n] = contptr[n]
  BY SwapTypes
<1>2. Content' = {contptr'[n] : n \in 0..(size - 1)}
  BY DEF Content
<1>3. \A n \in 0..(size - 1) : \E m \in 0..(size - 1) : contptr'[n] = contptr[m]
  BY <1>1
<1>4. \A n \in 0..(size - 1) : \E m \in 0..(size - 1) : contptr[n] = contptr'[m]
  BY <1>1
<1> QED BY <1>2, <1>3, <1>4 DEF Content

\* heap_insert adds the item.
LEMMA InsertContent ==
  ASSUME IInv, NEW x \in Items, Insert(x)
  PROVE  x \notin Content /\ Content' = Content \cup {x}
<1>1. size \in Nat /\ size' = size + 1 /\ size < Room /\ Room \in Nat
  BY DEF Insert, Room, TypeOK, CapBound, IInv
<1> DEFINE base == IF Room # cap THEN resize(contptr, size, Room) ELSE contptr
<1>2. base \in [0..(Room - 1) -> Items \cup {Junk}] /\ \A n \in 0..(size - 1) : base[n] = contptr[n]
  <2>1. CASE Room # cap
    BY <1>1, <2>1, ResizeIs DEF TypeOK, IInv
  <2>2. CASE Room = cap
    BY <2>2 DEF TypeOK, IInv
  <2> QED BY <2>1, <2>2
<1>3. contptr' = [base EXCEPT ![size] = x]
  BY DEF Insert
<1>4. contptr'[size] = x /\ \A n \in 0..(size - 1) : contptr'[n] = contptr[n]
  BY <1>1, <1>2, <1>3
<1>5. x \notin Content
  BY DEF Insert, Content
<1>6. Content' = {contptr'[n] : n \in 0..size}
  BY <1>1 DEF Content
<1>7. 0..size = (0..(size - 1)) \cup {size}
  BY <1>1
<1> QED BY <1>4, <1>5, <1>6, <1>7 DEF Content

\* heap_deltop removes the first element and nothing else.
LEMMA DelTopContent ==
  ASSUME IInv, DelTop
  PROVE  contptr[0] \in Content /\ Content' = Content \ {contptr[0]}
<1>1. size \in Nat /\ size > 0 /\ size' = size - 1 /\ contptr' = swap(contptr, 0, size - 1)
  BY DEF DelTop, IInv, TypeOK
<1>2. 0 \in 0..(size - 1) /\ size - 1 \in 0..(size - 1)
  BY <1>1
<1>3. /\ contptr'[0] = contptr[size - 1]
      /\ \A n \in 0..(size - 1) : n # 0 /\ n # size - 1 => contptr'[n] = contptr[n]
  BY <1>1, <1>2, SwapTypes DEF IInv
<1>4. Content' = {contptr'[n] : n \in 0..(size - 2)}
  BY <1>1 DEF Content
<1>5. \A m, n \in 0..(size - 1) : contptr[m] = contptr[n] => m = n
  BY DEF IInv, Distinct
<1>6. \A n \in 0..(size - 2) : \E m \in 1..(size - 1) : contptr'[n] = contptr[m]
  BY <1>1, <1>3
<1>7. \A m \in 1..(size - 1) : \E n \in 0..(size - 2) : contptr'[n] = contptr[m]
  <2>1. TAKE m \in 1..(size - 1)
  <2>2. CASE m = size - 1
    BY <1>1, <1>3, <2>2
  <2>3. CASE m # size - 1
    BY <1>1, <1>3, <2>3
  <2> QED BY <2>2, <2>3
<1>8. Content \ {contptr[0]} = {contptr[m] : m \in 1..(size - 1)}
  BY <1>1, <1>2, <1>5 DEF Content
<1>9. Content' = {contptr[m] : m \in 1..(size - 1)}
  BY <1>4, <1>6, <1>7
<1> QED BY <1>2, <1>8, <1>9 DEF Content

\* heap.c is a priority queue: what add_timer inserts stays until heap_deltop
\* removes it, and the element removed is one that no other precedes.
THEOREM HeapIsPriorityQueue == Spec => IsPriorityQueue
<1> DEFINE A == Queue!heap_insert \/ Queue!heap_deltop
<1>1. Init => Queue!pqInit
  BY DEF Init, Queue!pqInit
<1>2. ASSUME IInv, [Next]_vars
      PROVE  A \/ Content' = Content
  <2>1. ASSUME NEW x \in Items, Insert(x) PROVE A
    <3>1. x \notin Content /\ Content' = Content \cup {x}
      BY <1>2, <2>1, InsertContent
    <3> QED BY <3>1 DEF Queue!heap_insert, Content
  <2>2. CASE DelTop
    <3>1. contptr[0] \in Content /\ Content' = Content \ {contptr[0]}
      BY <1>2, <2>2, DelTopContent
    <3>2. \A y \in Content : Key[contptr[0]] <= Key[y]
      BY <1>2, <2>2, TopComesFirst DEF Content, DelTop, IInv
    <3>3. Queue!First(contptr[0])
      BY <3>1, <3>2 DEF Queue!First, Content
    <3> QED BY <3>1, <3>3 DEF Queue!heap_deltop, Content
  <2>3. CASE Swim
    <3>1. CASE k > 0 /\ Comp(contptr[k], contptr[SwimTo])
      <4>1. k \in 0..(size - 1) /\ Parent(k) \in 0..(size - 1)
        BY <1>2, <2>3, <3>1, ParentIs DEF IInv, TypeOK, Swim
      <4>2. contptr' = swap(contptr, k, Parent(k)) /\ size' = size
        BY <2>3, <3>1 DEF Swim, SwimTo
      <4> QED BY <1>2, <4>1, <4>2, SwapContent DEF IInv
    <3>2. CASE ~(k > 0 /\ Comp(contptr[k], contptr[SwimTo]))
      BY <2>3, <3>2 DEF Swim, Content
    <3> QED BY <3>1, <3>2
  <2>4. CASE Sink
    <3>1. endi = size - 1 /\ pc = "sink" /\ k \in Nat /\ size \in Nat /\ k < size
      BY <1>2, <2>4, EndIs DEF IInv, TypeOK, Sink
    <3>2. k \in 0..(size - 1) /\ Child \in 0..(size - 1)
      BY <1>2, <2>4, <3>1, ChildIs DEF Sink, SinkOn
    <3>3. contptr' = swap(contptr, Child, k) /\ size' = size
      BY <2>4 DEF Sink
    <3> QED BY <1>2, <3>2, <3>3, SwapContent DEF IInv
  <2>5. CASE SinkEnds
    <3>1. size' = size /\ \A n \in 0..(size - 1) : contptr'[n] = contptr[n]
      BY <1>2, <2>5, SinkEndsInv DEF SinkEnds
    <3> QED BY <3>1 DEF Content
  <2>6. CASE Close
    BY <2>6 DEF Close, Content
  <2>7. CASE UNCHANGED vars
    BY <2>7 DEF vars, Content
  <2> QED BY <1>2, <2>1, <2>2, <2>3, <2>4, <2>5, <2>6, <2>7 DEF Next
<1>3. IInv /\ [Next]_vars => IInv'
  BY InsertInv, SwimInv, DelTopInv, SinkInv, SinkEndsInv, CloseInv, StutterInv DEF Next
<1>4. IInv /\ [Next]_vars => [A]_{contptr[n] : n \in 0..(size - 1)}
  BY <1>2 DEF Content
<1> QED BY InitInv, <1>1, <1>3, <1>4, PTL DEF Spec, IsPriorityQueue, Queue!pqSpec
=============================================================================
