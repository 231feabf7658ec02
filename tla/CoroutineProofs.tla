-------------------------- MODULE CoroutineProofs --------------------------
(***************************************************************************)
(* Proofs about module Coroutine, for every capacity, stack size and       *)
(* number of coroutines.  The heart of the matter is NewFindsFreeSlot:     *)
(* because nco counts the occupied slots (NcoCountsUsed), the probing loop *)
(* of coroutine_new ends at a slot inside the array that is empty.         *)
(***************************************************************************)
EXTENDS Coroutine, FiniteSetTheorems, WellFoundedInduction, TLAPS

----------------------------------------------------------------------------
(* Arithmetic and set facts the search relies on.                          *)

(* The two residues that a probe (i + nco) % cap with i < cap can meet.    *)
LEMMA ModSmall ==
    ASSUME NEW c \in Nat \ {0}, NEW x \in 0..(c - 1)
    PROVE  /\ x % c = x
           /\ (x + c) % c = x
<1>1. x % c = x
    BY SMT
<1>2. (x + c) % c = x
    BY SMT
<1>. QED BY <1>1, <1>2

(* A non-empty set of naturals has a least element.                        *)
LEMMA LeastNat ==
    ASSUME NEW T, T \subseteq Nat, T # {}
    PROVE  \E x \in T : \A y \in T : x <= y
<1>1. PICK x \in T : \A y \in T : ~ (<<y, x>> \in OpToRel(<, Nat))
    BY NatLessThanWellFounded, WFMin
<1>2. \A y \in T : ~ (y < x)
    BY <1>1, Zenon DEF OpToRel
<1>. QED BY <1>2

(* A set of slots smaller than the array leaves one slot out.              *)
LEMMA SomeSlotLeft ==
    ASSUME NEW c \in Nat \ {0}, NEW U \in SUBSET (0..(c - 1)),
           Cardinality(U) < c
    PROVE  \E s \in 0..(c - 1) : s \notin U
<1>1. Cardinality(0..(c - 1)) = c
    BY FS_Interval
<1>2. U # 0..(c - 1)
    BY <1>1
<1>. QED BY <1>2

----------------------------------------------------------------------------
(* The slot search of coroutine_new.                                       *)

(* Every slot is some probe's.                                             *)
LEMMA ProbeReaches ==
    ASSUME TypeOK, nco < cap, NEW s \in Slots
    PROVE  \E i \in Slots : Probe(i) = s
<1>1. CASE s >= nco
    <2>1. s - nco \in Slots /\ Probe(s - nco) = s % cap
        BY <1>1 DEF TypeOK, Slots, Probe
    <2>2. s % cap = s
        BY ModSmall DEF TypeOK, Slots
    <2>. QED BY <2>1, <2>2
<1>2. CASE s < nco
    <2>1. s - nco + cap \in Slots /\ Probe(s - nco + cap) = (s + cap) % cap
        BY <1>2 DEF TypeOK, Slots, Probe
    <2>2. (s + cap) % cap = s
        BY ModSmall DEF TypeOK, Slots
    <2>. QED BY <2>1, <2>2
<1>. QED BY <1>1, <1>2 DEF TypeOK, Slots

(* The search finds an empty slot of the array: assert(0) is unreachable   *)
(* and no live coroutine is overwritten.                                   *)
LEMMA NewFindsFreeSlot ==
    ASSUME TypeOK, NcoCountsUsed, nco < cap
    PROVE  FreeSlot \in Slots /\ co[FreeSlot] = NULL
<1> DEFINE Hit == {i \in Slots : co[Probe(i)] = NULL}
<1>1. PICK s \in Slots : s \notin Used
    <2>1. Used \in SUBSET (0..(cap - 1)) /\ cap \in Nat \ {0}
        BY DEF Used, Slots, TypeOK
    <2>. QED BY <2>1, SomeSlotLeft DEF NcoCountsUsed, Slots
<1>2. PICK i \in Slots : Probe(i) = s
    BY ProbeReaches
<1>3. Hit # {}
    BY <1>1, <1>2 DEF Used
<1>4. Hit \subseteq Nat
    BY DEF Slots, TypeOK
<1>5. PICK m \in Hit : \A y \in Hit : m <= y
    <2>. HIDE DEF Hit
    <2>. QED BY <1>3, <1>4, LeastNat
<1>6. \A j \in 0..(m - 1) : co[Probe(j)] # NULL
    <2>1. SUFFICES ASSUME NEW j \in 0..(m - 1) PROVE co[Probe(j)] # NULL
        OBVIOUS
    <2>2. j \in Slots /\ ~ (m <= j)
        BY DEF Slots, TypeOK
    <2>. QED BY <1>5, <2>2
<1>7. \E k \in Slots : /\ co[Probe(k)] = NULL
                       /\ \A j \in 0..(k - 1) : co[Probe(j)] # NULL
    BY <1>6
<1>8. \A k \in Slots : Probe(k) \in Slots
    BY DEF Probe, Slots, TypeOK
<1>. QED BY <1>7, <1>8 DEF FreeSlot

----------------------------------------------------------------------------
(* The inductive invariant.                                                *)

\* The array grows only when MaxCo coroutines do not fit.
CapBounded == cap <= DEFAULT_COROUTINE + 2 * MaxCo

\* What a yield saved is a frame, never the empty buffer of a new coroutine.
SavedIsFrame ==
    \A id \in Used : co[id].status = "SUSPEND" => co[id].stack \in Frames

IInv ==
    /\ TypeOK
    /\ NcoCountsUsed
    /\ OneRunning
    /\ SaveAreaHoldsFrame
    /\ SavedIsFrame
    /\ CapBounded

(* What each conjunct says of one slot, in the form the steps use.         *)
LEMMA SlotFacts ==
    ASSUME TypeOK
    PROVE  /\ Used \subseteq Slots
           /\ IsFiniteSet(Used)
           /\ \A id \in Used : co[id] \in CoroutineT /\ co[id] # NULL
           /\ \A id \in Slots : id \notin Used => co[id] = NULL
           /\ NULL \notin CoroutineT
           /\ NULL.status \notin {"READY", "RUNNING", "SUSPEND"}
<1>1. IsFiniteSet(Slots)
    BY FS_Interval DEF Slots, TypeOK
<1>2. Used \subseteq Slots
    BY DEF Used
<1>3. IsFiniteSet(Used)
    BY <1>1, <1>2, FS_Subset
<1>4. NULL \notin CoroutineT /\ NULL.status \notin {"READY", "RUNNING", "SUSPEND"}
    BY DEF NULL, CoroutineT
<1>. QED BY <1>2, <1>3, <1>4 DEF Used, TypeOK

(* A coroutine that has never run.                                         *)
LEMMA CoNewType ==
    ASSUME CoroutineAssumption, NEW f \in Frames
    PROVE  CoNew(f) \in CoroutineT /\ CoNew(f).status = "READY" /\ CoNew(f).ptr = f
    BY DEF CoNew, CoroutineT, Frames, Fit, CoroutineAssumption

(* coroutine_new occupies exactly one slot, empty until then, whether the  *)
(* array is enlarged or searched, and moves no other coroutine.            *)
LEMMA NewEffect ==
    ASSUME CoroutineAssumption, TypeOK, NcoCountsUsed, NEW f \in Frames, coroutine_new(f)
    PROVE  \E id \in Slots' :
               /\ id \notin Used
               /\ Slots \subseteq Slots'
               /\ co' = [i \in Slots' |-> IF i = id THEN CoNew(f)
                                         ELSE IF i \in Slots THEN co[i] ELSE NULL]
<1>1. CASE nco >= cap
    <2>1. cap \in Slots' /\ Slots \subseteq Slots' /\ cap \notin Used
        BY <1>1 DEF coroutine_new, Slots, TypeOK, Used
    <2>2. co' = [i \in Slots' |-> IF i = cap THEN CoNew(f)
                                 ELSE IF i \in Slots THEN co[i] ELSE NULL]
        BY <1>1, <2>1 DEF coroutine_new, Doubled, Slots, TypeOK
    <2>. QED BY <2>1, <2>2
<1>2. CASE ~ (nco >= cap)
    <2>1. FreeSlot \in Slots /\ FreeSlot \notin Used
        BY <1>2, NewFindsFreeSlot DEF TypeOK, Used
    <2>2. Slots' = Slots
        BY <1>2 DEF coroutine_new, Slots
    <2>3. co' = [i \in Slots |-> IF i = FreeSlot THEN CoNew(f) ELSE co[i]]
        BY <1>2, <2>1 DEF coroutine_new, TypeOK
    <2>. QED BY <2>1, <2>2, <2>3
<1>. QED BY <1>1, <1>2

----------------------------------------------------------------------------
(* One lemma per action: the inductive invariant is preserved.             *)

(* coroutine_new takes a free slot, and grows the array first if there is none. *)
LEMMA NewInv ==
    ASSUME CoroutineAssumption, IInv, nco < MaxCo, NEW f \in Frames, coroutine_new(f)
    PROVE  IInv'
<1>1. PICK id \in Slots' :
          /\ id \notin Used
          /\ Slots \subseteq Slots'
          /\ co' = [i \in Slots' |-> IF i = id THEN CoNew(f)
                                    ELSE IF i \in Slots THEN co[i] ELSE NULL]
    BY NewEffect DEF IInv
<1>2. CoNew(f) \in CoroutineT /\ CoNew(f).status = "READY"
    BY CoNewType
<1>3. cap' \in Nat \ {0} /\ cap' >= cap /\ CapBounded'
    BY DEF IInv, coroutine_new, TypeOK, CapBounded, CoroutineAssumption
<1>4. TypeOK'
    <2>1. co' \in [Slots' -> CoroutineT \cup {NULL}]
        BY <1>1, <1>2 DEF IInv, TypeOK
    <2>2. running' \in Slots' \cup {NoCo}
        BY <1>1 DEF IInv, TypeOK, coroutine_new
    <2>3. nco' \in Nat /\ stack' \in Frames
        BY DEF IInv, TypeOK, coroutine_new
    <2>. QED BY <1>3, <2>1, <2>2, <2>3 DEF TypeOK
<1>5. Used' = Used \cup {id}
    BY <1>1, <1>2, SlotFacts DEF Used, IInv
<1>6. NcoCountsUsed'
    <2>1. Cardinality(Used \cup {id}) = Cardinality(Used) + 1
        BY <1>1, SlotFacts, FS_AddElement DEF IInv
    <2>. QED BY <1>5, <2>1 DEF IInv, NcoCountsUsed, coroutine_new
<1>7. OneRunning'
    <2>1. id # running
        BY <1>1, SlotFacts DEF IInv, OneRunning, TypeOK, Used, NoCo, Slots
    <2>2. running' = running
        BY DEF coroutine_new
    <2>3. \A i \in Slots' : i # id /\ i \notin Slots => co'[i] = NULL /\ i # running
        BY <1>1 DEF IInv, TypeOK, NoCo, Slots
    <2>. QED BY <1>1, <1>2, <2>1, <2>2, <2>3 DEF IInv, OneRunning
<1>8. SaveAreaHoldsFrame' /\ SavedIsFrame'
    <2>1. \A i \in Used : co'[i] = co[i]
        BY <1>1, SlotFacts DEF IInv
    <2>2. co'[id].status # "SUSPEND"
        BY <1>1, <1>2
    <2>. QED BY <1>5, <2>1, <2>2 DEF IInv, SaveAreaHoldsFrame, SavedIsFrame
<1>. QED BY <1>3, <1>4, <1>6, <1>7, <1>8 DEF IInv

(* coroutine_resume makes the one coroutine run, on the frame it left.      *)
LEMMA ResumeInv ==
    ASSUME CoroutineAssumption, IInv, NEW id \in Slots, coroutine_resume(id)
    PROVE  IInv'
<1>. USE DEF IInv
<1>0. Slots' = Slots /\ id \in Used /\ co[id] \in CoroutineT
    BY SlotFacts DEF coroutine_resume, Slots, Used
<1>1. /\ co' = [co EXCEPT ![id] = [co[id] EXCEPT !.status = "RUNNING"]]
      /\ [co[id] EXCEPT !.status = "RUNNING"] \in CoroutineT
      /\ [co[id] EXCEPT !.status = "RUNNING"].status = "RUNNING"
    BY <1>0 DEF coroutine_resume, TypeOK, CoroutineT
<1>2. co[id].status \in {"READY", "SUSPEND"}
    BY <1>0, SlotFacts DEF coroutine_resume, OneRunning, CoroutineT, NoCo, Slots
<1>3. Restored(co[id]) \in Frames
    <2>1. CASE co[id].status = "READY"
        BY <1>0, <2>1 DEF Restored, CoroutineT
    <2>2. CASE co[id].status = "SUSPEND"
        BY <1>0, <2>2 DEF Restored, SavedIsFrame
    <2>. QED BY <1>2, <2>1, <2>2
<1>4. TypeOK'
    BY <1>0, <1>1, <1>3 DEF TypeOK, coroutine_resume
<1>5. Used' = Used /\ \A i \in Slots : i # id => co'[i] = co[i]
    BY <1>0, <1>1, SlotFacts DEF Used, TypeOK
<1>6. NcoCountsUsed'
    BY <1>5 DEF NcoCountsUsed, coroutine_resume
<1>7. OneRunning'
    <2>1. co'[id] # NULL /\ co'[id].status = "RUNNING"
        BY <1>0, <1>1, SlotFacts DEF TypeOK
    <2>2. \A i \in Slots : i # id => ~ (co[i] # NULL /\ co[i].status = "RUNNING")
        BY DEF OneRunning, coroutine_resume, NoCo, Slots
    <2>. QED BY <1>0, <1>5, <2>1, <2>2 DEF OneRunning, coroutine_resume
<1>8. SaveAreaHoldsFrame' /\ SavedIsFrame'
    <2>1. co'[id].status = "RUNNING"
        BY <1>0, <1>1 DEF TypeOK
    <2>. QED BY <1>0, <1>5, <2>1 DEF SaveAreaHoldsFrame, SavedIsFrame, Used
<1>9. CapBounded'
    BY DEF CapBounded, coroutine_resume
<1>. QED BY <1>4, <1>6, <1>7, <1>8, <1>9

(* A running coroutine changes nothing but its own frame.                   *)
LEMMA ComputeInv ==
    ASSUME IInv, NEW f \in Frames, Compute(f)
    PROVE  IInv'
<1>1. UNCHANGED <<nco, cap, running, co>> /\ stack' \in Frames
    BY DEF Compute
<1>. QED
    BY <1>1 DEF IInv, TypeOK, NcoCountsUsed, OneRunning, SaveAreaHoldsFrame,
                SavedIsFrame, CapBounded, Used, Slots

(* The buffer is made large enough before the frame is copied to it.       *)
LEMMA YieldedFrame ==
    ASSUME CoroutineAssumption, NEW c \in CoroutineT, stack \in Frames
    PROVE  /\ BufferCap(c) \in 0..STACK_SIZE
           /\ stack.depth <= BufferCap(c)
           /\ Fit(stack, BufferCap(c)) = stack
    BY DEF CoroutineT, Frames, BufferCap, Fit, CoroutineAssumption

(* coroutine_yield saves the frame where the next resume looks for it.      *)
LEMMA YieldInv ==
    ASSUME CoroutineAssumption, IInv, coroutine_yield
    PROVE  IInv'
<1>. USE DEF IInv
<1> DEFINE Yielded == Suspended(co[running])
<1>0. Slots' = Slots /\ running \in Slots /\ running \in Used /\ co[running] \in CoroutineT
    BY SlotFacts DEF coroutine_yield, Slots, Used, TypeOK, OneRunning
<1>1. /\ co' = [co EXCEPT ![running] = Yielded]
      /\ Yielded \in CoroutineT
      /\ Yielded.status = "SUSPEND"
      /\ Yielded.stack = stack /\ Yielded.size = stack.depth
      /\ Yielded.size <= Yielded.cap
    <2>1. co' = [co EXCEPT ![running] = Yielded]
        BY DEF coroutine_yield
    <2>2. /\ BufferCap(co[running]) \in 0..STACK_SIZE
          /\ stack.depth <= BufferCap(co[running])
          /\ Fit(stack, BufferCap(co[running])) = stack
        BY <1>0, YieldedFrame DEF TypeOK
    <2>3. stack.depth \in 0..STACK_SIZE /\ stack \in [depth : 0..STACK_SIZE, val : Vals]
        BY DEF TypeOK, Frames, CoroutineAssumption
    <2>4. co[running].ptr \in Frames
        BY <1>0 DEF CoroutineT
    <2>. QED
        BY <2>1, <2>2, <2>3, <2>4 DEF Suspended, CoroutineT
<1>. HIDE DEF Yielded
<1>2. TypeOK'
    BY <1>0, <1>1 DEF TypeOK, coroutine_yield
<1>3. Used' = Used /\ \A i \in Slots : i # running => co'[i] = co[i]
    BY <1>0, <1>1, SlotFacts DEF Used, TypeOK
<1>4. NcoCountsUsed'
    BY <1>3 DEF NcoCountsUsed, coroutine_yield
<1>5. co'[running] = Yielded
    BY <1>0, <1>1 DEF TypeOK
<1>6. OneRunning'
    BY <1>0, <1>1, <1>3, <1>5 DEF OneRunning, coroutine_yield, NoCo, Slots
<1>7. SaveAreaHoldsFrame' /\ SavedIsFrame'
    BY <1>0, <1>1, <1>3, <1>5 DEF SaveAreaHoldsFrame, SavedIsFrame, TypeOK, Frames, Used
<1>8. CapBounded'
    BY DEF CapBounded, coroutine_yield
<1>. QED BY <1>2, <1>4, <1>6, <1>7, <1>8

(* A coroutine that ends leaves a free slot and nobody running.             *)
LEMMA ReturnInv ==
    ASSUME CoroutineAssumption, IInv, mainfunc_return
    PROVE  IInv'
<1>. USE DEF IInv
<1>0. Slots' = Slots /\ running \in Used
    BY DEF mainfunc_return, Slots, Used, TypeOK, OneRunning
<1>1. TypeOK' /\ co' = [co EXCEPT ![running] = NULL]
    <2>1. nco - 1 \in Nat
        BY <1>0, SlotFacts, FS_EmptySet, FS_CardinalityType DEF TypeOK, NcoCountsUsed
    <2>. QED
        BY <1>0, <2>1 DEF TypeOK, mainfunc_return, CountAfterReturn, Used
<1>2. Used' = Used \ {running} /\ \A i \in Slots : i # running => co'[i] = co[i]
    BY <1>0, <1>1, SlotFacts DEF Used, TypeOK
<1>3. NcoCountsUsed'
    <2>1. Cardinality(Used \ {running}) = Cardinality(Used) - 1
        BY <1>0, SlotFacts, FS_RemoveElement
    <2>. QED BY <1>2, <2>1 DEF NcoCountsUsed, mainfunc_return, CountAfterReturn
<1>4. OneRunning'
    <2>1. co'[running] = NULL /\ running' = NoCo /\ NoCo \notin Slots
        BY <1>0, <1>1 DEF TypeOK, Used, mainfunc_return, NoCo, Slots
    <2>. QED BY <1>0, <1>2, <2>1 DEF OneRunning
<1>5. SaveAreaHoldsFrame' /\ SavedIsFrame'
    BY <1>0, <1>2 DEF SaveAreaHoldsFrame, SavedIsFrame, Used
<1>6. CapBounded'
    BY DEF CapBounded, mainfunc_return
<1>. QED BY <1>1, <1>3, <1>4, <1>5, <1>6

----------------------------------------------------------------------------
(* The invariant, and what follows from it.                                *)

(* coroutine_open: no slot is used.                                        *)
THEOREM InitInv == ASSUME CoroutineAssumption, Init PROVE IInv
<1>1. /\ Slots = 0..(DEFAULT_COROUTINE - 1)
      /\ Used = {}
    BY DEF Init, Slots, Used
<1>2. TypeOK
    BY <1>1 DEF Init, TypeOK, CoroutineAssumption
<1>3. NcoCountsUsed
    BY <1>1, FS_EmptySet DEF Init, NcoCountsUsed
<1>4. OneRunning
    BY <1>1 DEF Init, OneRunning, NoCo
<1>5. SaveAreaHoldsFrame /\ SavedIsFrame /\ CapBounded
    BY <1>1 DEF Init, SaveAreaHoldsFrame, SavedIsFrame, CapBounded, CoroutineAssumption
<1>. QED BY <1>2, <1>3, <1>4, <1>5 DEF IInv

(* Every call of the scheduler keeps the invariant.                         *)
THEOREM NextInv == ASSUME CoroutineAssumption, IInv, [Next]_vars PROVE IInv'
<1>1. CASE UNCHANGED vars
    BY <1>1 DEF vars, IInv, TypeOK, NcoCountsUsed, OneRunning, SaveAreaHoldsFrame,
                SavedIsFrame, CapBounded, Used, Slots
<1>2. ASSUME nco < MaxCo, NEW f \in Frames, coroutine_new(f) PROVE IInv'
    BY <1>2, NewInv
<1>3. ASSUME NEW id \in Slots, coroutine_resume(id) PROVE IInv'
    BY <1>3, ResumeInv
<1>4. ASSUME NEW f \in Frames, Compute(f) PROVE IInv'
    BY <1>4, ComputeInv
<1>5. CASE coroutine_yield
    BY <1>5, YieldInv
<1>6. CASE mainfunc_return
    BY <1>6, ReturnInv
<1>. QED BY <1>1, <1>2, <1>3, <1>4, <1>5, <1>6 DEF Next

(* In every reachable state of the scheduler the types hold, nco counts    *)
(* the live coroutines, the running one is the one marked so, and every    *)
(* saved frame is whole: coroutine.c's asserts never fail, for every       *)
(* initial capacity, stack size and number of coroutines.                  *)
THEOREM SchedulerSafe ==
    Spec => [](TypeOK /\ NcoCountsUsed /\ OneRunning /\ SaveAreaHoldsFrame)
<1>1. Init => IInv
    BY InitInv, CoroutineAssumption
<1>2. IInv /\ [Next]_vars => IInv'
    BY NextInv, CoroutineAssumption
<1>3. IInv => TypeOK /\ NcoCountsUsed /\ OneRunning /\ SaveAreaHoldsFrame
    BY DEF IInv
<1>. QED BY <1>1, <1>2, <1>3, PTL DEF Spec

----------------------------------------------------------------------------
(* The scheduler implements its contract: one step lemma per action, Task  *)
(* being what the refinement mapping substitutes for the contract's task.  *)

Task == [id \in Used |-> [status |-> co[id].status, frame |-> FrameOf(id)]]

(* A slot of an array within CapBounded is an id of the contract.          *)
LEMMA IdBounded ==
    ASSUME CoroutineAssumption, NEW c \in Nat, c <= DEFAULT_COROUTINE + 2 * MaxCo,
           NEW i \in 0..(c - 1)
    PROVE  i \in Ids
<1>1. DEFAULT_COROUTINE \in Nat /\ MaxCo \in Nat
    BY DEF CoroutineAssumption
<1>2. 0..(c - 1) \subseteq 0..(DEFAULT_COROUTINE + 2 * MaxCo)
    BY <1>1
<1>. QED BY <1>2 DEF Ids

(* coroutine_new starts a coroutine, as the contract says.                  *)
LEMMA NewStep ==
    ASSUME CoroutineAssumption, IInv, nco < MaxCo, NEW f \in Frames, coroutine_new(f)
    PROVE  \E id \in Ids : Contract!New(id, f)
<1>. USE DEF IInv
<1>1. PICK id \in Slots' :
          /\ id \notin Used
          /\ Slots \subseteq Slots'
          /\ co' = [i \in Slots' |-> IF i = id THEN CoNew(f)
                                    ELSE IF i \in Slots THEN co[i] ELSE NULL]
    BY NewEffect
<1>2. CoNew(f) \in CoroutineT /\ CoNew(f).status = "READY" /\ CoNew(f).ptr = f
    BY CoNewType
<1>3. id \in Ids
    <2>1. CapBounded' /\ cap' \in Nat
        BY NewInv DEF TypeOK
    <2>2. id \in 0..(cap' - 1)
        BY <1>1 DEF Slots
    <2>3. cap' <= DEFAULT_COROUTINE + 2 * MaxCo
        BY <2>1 DEF CapBounded
    <2>. QED BY <2>1, <2>2, <2>3, IdBounded
<1>4. Used' = Used \cup {id}
    BY <1>1, <1>2, SlotFacts DEF Used
<1>5. id # running /\ running' = running /\ stack' = stack
    BY <1>1, SlotFacts DEF OneRunning, TypeOK, Used, NoCo, Slots, coroutine_new
<1>6. \A i \in Used : co'[i] = co[i] /\ FrameOf(i)' = FrameOf(i)
    BY <1>1, <1>5, SlotFacts DEF FrameOf
<1>7. co'[id].status = "READY" /\ FrameOf(id)' = f
    BY <1>1, <1>2, <1>5 DEF FrameOf
<1>8. Task' = [i \in Used \cup {id} |->
                 IF i = id THEN [status |-> "READY", frame |-> f] ELSE Task[i]]
    BY <1>1, <1>4, <1>6, <1>7 DEF Task
<1>9. DOMAIN Task = Used
    BY DEF Task
<1>. QED
    BY <1>1, <1>3, <1>5, <1>8, <1>9 DEF Contract!New, Contract!Live, Task

(* coroutine_resume goes on with the frame the contract remembers.         *)
LEMMA ResumeStep ==
    ASSUME CoroutineAssumption, IInv, NEW id \in Slots, coroutine_resume(id)
    PROVE  id \in Contract!Live /\ Contract!Resume(id)
<1>. USE DEF IInv
<1>0. Slots' = Slots /\ id \in Used /\ co[id] \in CoroutineT /\ id # running
    BY SlotFacts DEF coroutine_resume, Slots, Used, NoCo
<1>1. /\ co' = [co EXCEPT ![id] = [co[id] EXCEPT !.status = "RUNNING"]]
      /\ [co[id] EXCEPT !.status = "RUNNING"] \in CoroutineT
      /\ [co[id] EXCEPT !.status = "RUNNING"].status = "RUNNING"
    BY <1>0 DEF coroutine_resume, TypeOK, CoroutineT
<1>2. Used' = Used /\ \A i \in Slots : i # id => co'[i] = co[i]
    BY <1>0, <1>1, SlotFacts DEF Used, TypeOK
<1>3. co'[id].status = "RUNNING" /\ FrameOf(id)' = FrameOf(id)
    BY <1>0, <1>1 DEF FrameOf, coroutine_resume, Restored, TypeOK
<1>4. \A i \in Used : i # id => FrameOf(i)' = FrameOf(i)
    BY <1>2 DEF FrameOf, coroutine_resume, Used, NoCo, Slots
<1>5. Task' = [Task EXCEPT ![id] = [status |-> "RUNNING", frame |-> @.frame]]
    <2>1. Task' = [i \in Used |-> [status |-> co'[i].status, frame |-> FrameOf(i)']]
        BY <1>2 DEF Task
    <2>2. \A i \in Used : i # id => co'[i] = co[i]
        BY <1>2 DEF Used
    <2>3. Task' = [i \in Used |-> IF i = id THEN [status |-> "RUNNING", frame |-> FrameOf(id)]
                                 ELSE Task[i]]
        BY <1>3, <1>4, <2>1, <2>2 DEF Task
    <2>4. Task[id].frame = FrameOf(id)
        BY <1>0 DEF Task
    <2>. QED BY <1>0, <2>3, <2>4 DEF Task
<1>6. DOMAIN Task = Used
    BY DEF Task
<1>. QED
    BY <1>0, <1>5, <1>6 DEF Contract!Resume, Contract!Live, Contract!NoCo, Task,
                            coroutine_resume, NoCo

(* What a coroutine computes is a step of that coroutine in the contract.  *)
LEMMA ComputeStep ==
    ASSUME CoroutineAssumption, IInv, NEW f \in Frames, Compute(f)
    PROVE  Contract!Step(f)
<1>. USE DEF IInv
<1>0. running \in Used /\ running # NoCo /\ Used' = Used /\ co' = co /\ running' = running
    BY DEF Compute, Used, Slots, OneRunning, TypeOK
<1>1. PICK r \in Used : r = running
    BY <1>0
<1>2. FrameOf(r)' = f /\ \A i \in Used : i # r => FrameOf(i)' = FrameOf(i)
    BY <1>0, <1>1 DEF FrameOf, Compute
<1>3. co[r].status = "RUNNING"
    BY <1>1 DEF OneRunning, Used
<1>4. Task' = [Task EXCEPT ![r] = [status |-> "RUNNING", frame |-> f]]
    <2>1. Task' = [i \in Used |-> [status |-> co[i].status, frame |-> FrameOf(i)']]
        BY <1>0 DEF Task
    <2>2. Task' = [i \in Used |-> IF i = r THEN [status |-> "RUNNING", frame |-> f]
                                 ELSE Task[i]]
        BY <1>2, <1>3, <2>1 DEF Task
    <2>. QED BY <1>1, <2>2 DEF Task
<1>. QED
    BY <1>0, <1>1, <1>4 DEF Contract!Step, Contract!NoCo, NoCo, Task

(* coroutine_yield is the contract's: the frame is remembered.              *)
LEMMA YieldStep ==
    ASSUME CoroutineAssumption, IInv, coroutine_yield
    PROVE  \E f \in Frames : Contract!Yield(f)
<1>. USE DEF IInv
<1>0. /\ Slots' = Slots /\ running \in Used /\ running # NoCo
      /\ co[running] \in CoroutineT /\ running' = NoCo
    BY SlotFacts DEF coroutine_yield, Slots, Used, TypeOK, OneRunning
<1>1. /\ Suspended(co[running]).status = "SUSPEND"
      /\ Suspended(co[running]).stack = stack
      /\ Suspended(co[running]) # NULL
    BY <1>0, YieldedFrame DEF Suspended, TypeOK, NULL
<1>2. PICK r \in Used : r = running
    BY <1>0
<1>3. co'[r] = Suspended(co[running]) /\ \A i \in Slots : i # r => co'[i] = co[i]
    BY <1>0, <1>2 DEF coroutine_yield, TypeOK, Used
<1>4. Used' = Used
    BY <1>0, <1>1, <1>2, <1>3, SlotFacts DEF Used
<1>5. FrameOf(r)' = stack /\ \A i \in Used : i # r => FrameOf(i)' = FrameOf(i)
    BY <1>0, <1>1, <1>2, <1>3 DEF FrameOf, Used, NoCo, Slots
<1>6. Task' = [Task EXCEPT ![r] = [status |-> "SUSPEND", frame |-> stack]]
    <2>1. \A i \in Used : i # r => co'[i] = co[i]
        BY <1>3 DEF Used
    <2>2. Task' = [i \in Used |-> [status |-> co'[i].status, frame |-> FrameOf(i)']]
        BY <1>4 DEF Task
    <2>3. Task' = [i \in Used |-> IF i = r THEN [status |-> "SUSPEND", frame |-> stack]
                                 ELSE Task[i]]
        BY <1>1, <1>3, <1>5, <2>1, <2>2 DEF Task
    <2>. QED BY <1>2, <2>3 DEF Task
<1>7. PICK f \in Frames : f = stack
    BY DEF TypeOK
<1>8. Contract!Yield(f)
    BY <1>0, <1>2, <1>6, <1>7 DEF Contract!Yield, Contract!NoCo, NoCo, Task
<1>. QED BY <1>8

(* A coroutine that returns is over in the contract too.                    *)
LEMMA ReturnStep ==
    ASSUME CoroutineAssumption, IInv, mainfunc_return
    PROVE  Contract!Return
<1>. USE DEF IInv
<1>0. Slots' = Slots /\ running \in Used /\ running # NoCo /\ running' = NoCo /\ stack' = stack
    BY DEF mainfunc_return, Slots, Used, TypeOK, OneRunning
<1>1. Used' = Used \ {running} /\ \A i \in Used : i # running => co'[i] = co[i]
    BY <1>0, SlotFacts DEF Used, TypeOK, mainfunc_return
<1>2. \A i \in Used : i # running => FrameOf(i)' = FrameOf(i)
    BY <1>0, <1>1 DEF FrameOf, Used, NoCo, Slots
<1>3. Task' = [i \in Used \ {running} |-> Task[i]]
    BY <1>1, <1>2 DEF Task
<1>4. DOMAIN Task = Used
    BY DEF Task
<1>. QED
    BY <1>0, <1>3, <1>4 DEF Contract!Return, Contract!Live, Contract!NoCo, NoCo, Task

(* No caller can tell the shared stack from a private one: every behaviour *)
(* of the scheduler is one of the contract, for every capacity, stack size *)
(* and number of coroutines.                                               *)
THEOREM SchedulerImplementsContract == Spec => ImplementsContract
<1>. USE CoroutineAssumption
<1>1. Init => Contract!CoInit
    <2>1. SUFFICES ASSUME Init PROVE Contract!CoInit
        OBVIOUS
    <2>2. Used = {} /\ running = NoCo
        BY <2>1 DEF Init, Used, Slots
    <2>. QED BY <2>2 DEF Contract!CoInit, Contract!NoCo, NoCo
<1>2. IInv /\ [Next]_vars => [Contract!CoNext]_(Contract!coVars)
    <2>1. SUFFICES ASSUME IInv, [Next]_vars
                   PROVE  [Contract!CoNext]_(Contract!coVars)
        OBVIOUS
    <2>2. ASSUME nco < MaxCo, NEW f \in Frames, coroutine_new(f) PROVE Contract!CoNext
        BY <2>1, <2>2, NewStep DEF Contract!CoNext
    <2>3. ASSUME NEW id \in Slots, coroutine_resume(id) PROVE Contract!CoNext
        BY <2>1, <2>3, ResumeStep DEF Contract!CoNext
    <2>4. ASSUME NEW f \in Frames, Compute(f) PROVE Contract!CoNext
        BY <2>1, <2>4, ComputeStep DEF Contract!CoNext
    <2>5. CASE coroutine_yield
        BY <2>1, <2>5, YieldStep DEF Contract!CoNext
    <2>6. CASE mainfunc_return
        BY <2>1, <2>6, ReturnStep DEF Contract!CoNext
    <2>7. CASE UNCHANGED vars
        BY <2>7 DEF vars, Contract!coVars, Used, Slots, FrameOf
    <2>. QED BY <2>1, <2>2, <2>3, <2>4, <2>5, <2>6, <2>7 DEF Next
<1>3. Init => IInv
    BY InitInv
<1>4. IInv /\ [Next]_vars => IInv'
    BY NextInv
<1>. QED BY <1>1, <1>2, <1>3, <1>4, PTL DEF Spec, ImplementsContract, Contract!CoSpec
=============================================================================
