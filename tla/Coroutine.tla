----------------------------- MODULE Coroutine -----------------------------
(***************************************************************************)
(* The scheduler of coroutine.c: the slot array S->co with its capacity    *)
(* and its live counter, and the single stack S->stack on which every      *)
(* coroutine runs.  A coroutine's frame is on that stack only while it     *)
(* runs: coroutine_yield copies it to a buffer the coroutine owns and      *)
(* coroutine_resume copies it back.  A frame is abstracted to its depth    *)
(* and one value; a copy moves the whole frame, or only the part that      *)
(* fits in the buffer when the buffer is too small.                        *)
(***************************************************************************)
EXTENDS Integers, FiniteSets

CONSTANTS
    DEFAULT_COROUTINE,  \* initial capacity of the slot array
    STACK_SIZE,         \* the greatest depth of the shared stack
    Vals,               \* what a frame may hold
    MaxCo               \* bound: coroutines that may be live at once

ASSUME CoroutineAssumption ==
    /\ DEFAULT_COROUTINE \in Nat \ {0}
    /\ STACK_SIZE \in Nat \ {0}
    /\ MaxCo \in Nat

VARIABLES
    nco,        \* S->nco
    cap,        \* S->cap
    running,    \* S->running
    co,         \* S->co: NULL or a coroutine_t, for every slot
    stack       \* the frame on S->stack (garbage while running = NoCo)

vars == <<nco, cap, running, co, stack>>

NoCo == -1
NULL == [status |-> "DEAD"]     \* what coroutine_status says of an empty slot

Frames == [depth : 1..STACK_SIZE, val : Vals]
Slots == 0..(cap - 1)

Used == {id \in Slots : co[id] # NULL}

\* The part of frame f that a buffer of capacity c can hold.
Fit(f, c) == [f EXCEPT !.depth = IF @ <= c THEN @ ELSE c]

CoroutineT == [status : {"READY", "RUNNING", "SUSPEND"}, ptr : Frames,
               cap : 0..STACK_SIZE, size : 0..STACK_SIZE,
               stack : [depth : 0..STACK_SIZE, val : Vals]]

TypeOK ==
    /\ nco \in Nat
    /\ cap \in Nat \ {0}
    /\ running \in Slots \cup {NoCo}
    /\ co \in [Slots -> CoroutineT \cup {NULL}]
    /\ stack \in Frames

\* _co_new: a coroutine with argument ptr, and no stack buffer yet.
CoNew(f) == [status |-> "READY", ptr |-> f, cap |-> 0, size |-> 0,
             stack |-> Fit(f, 0)]

\* coroutine_open, coroutine_open_stack.
Init ==
    /\ nco = 0
    /\ cap = DEFAULT_COROUTINE
    /\ running = NoCo
    /\ co = [id \in 0..(DEFAULT_COROUTINE - 1) |-> NULL]
    /\ stack \in Frames

----------------------------------------------------------------------------

\* Where coroutine_new looks at its i-th attempt.
Probe(i) == (i + nco) % cap

\* The slot coroutine_new takes: the first empty one in probing order.
FreeSlot ==
    Probe(CHOOSE i \in Slots : /\ co[Probe(i)] = NULL
                               /\ \A j \in 0..(i - 1) : co[Probe(j)] # NULL)

\* The slot array after realloc doubled it and cleared its upper half.
Doubled == [id \in 0..(2 * cap - 1) |-> IF id \in Slots THEN co[id] ELSE NULL]

coroutine_new(f) ==
    /\ IF nco >= cap
       THEN /\ co' = [Doubled EXCEPT ![cap] = CoNew(f)]
            /\ cap' = 2 * cap
       ELSE /\ co' = [co EXCEPT ![FreeSlot] = CoNew(f)]
            /\ UNCHANGED cap
    /\ nco' = nco + 1
    /\ UNCHANGED <<running, stack>>

\* Mutation: a suspended coroutine runs on whatever the stack holds.
NoRestore(c) == IF c.status = "READY" THEN c.ptr ELSE stack

\* What is on the stack once coroutine c has the processor: makecontext
\* starts its function on its argument, memcpy restores what was saved.
Restored(c) == IF c.status = "READY" THEN c.ptr ELSE c.stack

\* A resume of an empty slot returns at once, and so changes nothing.
coroutine_resume(id) ==
    /\ running = NoCo
    /\ co[id] # NULL
    /\ stack' = Restored(co[id])
    /\ running' = id
    /\ co' = [co EXCEPT ![id].status = "RUNNING"]
    /\ UNCHANGED <<nco, cap>>

\* The running coroutine computes, on S->stack.
Compute(f) ==
    /\ running # NoCo
    /\ stack' = f
    /\ UNCHANGED <<nco, cap, running, co>>

\* _save_stack's buffer: replaced when it is too small, kept otherwise.
BufferCap(c) == IF c.cap < stack.depth THEN stack.depth ELSE c.cap

\* What the yield leaves in the coroutine's record (_save_stack).
Suspended(c) ==
    [status |-> "SUSPEND", ptr |-> c.ptr, cap |-> BufferCap(c),
     size |-> stack.depth, stack |-> Fit(stack, BufferCap(c))]

coroutine_yield ==
    /\ running # NoCo
    /\ co' = [co EXCEPT ![running] = Suspended(co[running])]
    /\ running' = NoCo
    /\ UNCHANGED <<nco, cap, stack>>

\* Mutation: the finished coroutine stays counted.
StillCounted == nco

CountAfterReturn == nco - 1

\* mainfunc, once the coroutine's function has returned.
mainfunc_return ==
    /\ running # NoCo
    /\ co' = [co EXCEPT ![running] = NULL]
    /\ nco' = CountAfterReturn
    /\ running' = NoCo
    /\ UNCHANGED <<cap, stack>>

Next ==
    \/ nco < MaxCo /\ \E f \in Frames : coroutine_new(f)
    \/ \E id \in Slots : coroutine_resume(id)
    \/ \E f \in Frames : Compute(f)
    \/ coroutine_yield
    \/ mainfunc_return

Spec == Init /\ [][Next]_vars

----------------------------------------------------------------------------

(* nco counts the occupied slots, so that the search of coroutine_new,     *)
(* entered only when nco < cap, ends at an empty slot and never reaches    *)
(* assert(0) (coroutine.c:84), however coroutines came and went.           *)
NcoCountsUsed == nco = Cardinality(Used)

(* The coroutine that runs is the one slot marked RUNNING: coroutine_resume *)
(* meets no other status than READY and SUSPEND (the assert at line 126),   *)
(* and coroutine_yield finds its own record in S->co[running].              *)
OneRunning ==
    \A id \in Slots : id = running <=> co[id] # NULL /\ co[id].status = "RUNNING"

(* A suspended coroutine's buffer holds all of its frame, whatever the     *)
(* depths at which it yielded before (_save_stack, coroutine.c:130-140).   *)
SaveAreaHoldsFrame ==
    \A id \in Used : co[id].status = "SUSPEND" =>
        co[id].size <= co[id].cap /\ co[id].stack.depth = co[id].size

\* The private frame of each live coroutine.
FrameOf(id) ==
    IF id = running THEN stack
    ELSE IF co[id].status = "READY" THEN co[id].ptr ELSE co[id].stack

\* Every id is below the capacity, which doubles only while nco < MaxCo.
Ids == 0..(DEFAULT_COROUTINE + 2 * MaxCo)

(* Shared stack, copies and slot array together implement the contract:    *)
(* ids of live coroutines are distinct, and no coroutine ever sees or      *)
(* loses a frame because others ran on the same stack.                     *)
Contract == INSTANCE CoroutineSpec WITH
    CoIds <- Ids,
    task <- [id \in Used |-> [status |-> co[id].status, frame |-> FrameOf(id)]],
    current <- running

ImplementsContract == Contract!CoSpec
=============================================================================
