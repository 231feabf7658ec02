----------------------------- MODULE ThreadPool -----------------------------
(***************************************************************************)
(* The thread pool of threadpool.c: a LIFO list of tasks, a mutex, a       *)
(* condition variable, and PtNum threads running threadpoolWorker.         *)
(*                                                                         *)
(* A critical section is one action, guarded by the mutex being free; what *)
(* is outside of it, the task itself, the joins and the last decrement of  *)
(* pthreadOnNum, takes steps of its own.  malloc and the pthread calls     *)
(* other than pthread_create succeed.                                      *)
(***************************************************************************)
EXTENDS Integers, Sequences, FiniteSets

CONSTANTS PtNum,        \* the argument of threadpoolInit
          Tasks,        \* the (func, arg) pairs handed over, each one once
          Callers,      \* the threads of the program that use the pool
          Creator,      \* the one of them that calls threadpoolInit
          Types,        \* the destroyType a caller may give
          CreateFails,  \* the calls of pthread_create that may fail
          MaxDestroys,  \* bound on the calls of threadpoolDestroy
          NULL

ASSUME PtNumAssumption == PtNum \in Nat \ {0}
ASSUME NamesAssumption == /\ Creator \in Callers
                          /\ Callers \cap (1..PtNum) = {}
                          /\ NULL \notin Callers \cup Tasks \cup (1..PtNum)
ASSUME TypesAssumption == Types \subseteq {1, 2} /\ MaxDestroys \in Nat

VARIABLES lock,         \* NULL, or the thread that holds tp->lock for good
          queue,        \* the list behind tp->head
          taskNum, pthreadNum, pthreadOnNum, shutdown,
          wpc,          \* where each thread of the pool is
          task,         \* its local variable task
          seen,         \* the pthreadOnNum it has loaded and not yet stored
          cpc,          \* where each caller is
          joined,       \* the threads its threadpoolDestroy has joined
          destroys,     \* the calls of threadpoolDestroy so far
          destroyed,    \* the mutex and the condition variable are gone
          accepted,     \* history: the tasks threadpoolAdd took
          ran           \* history: how often each task was run

vars == <<lock, queue, taskNum, pthreadNum, pthreadOnNum, shutdown, wpc, task,
          seen, cpc, joined, destroys, destroyed, accepted, ran>>

Immediate == 1
Graceful  == 2
Workers   == 1..PtNum
Listed    == {queue[i] : i \in DOMAIN queue}

TypeOK ==
  /\ lock \in Callers \cup Workers \cup {NULL}
  /\ queue \in Seq(Tasks)
  /\ taskNum \in Nat
  /\ pthreadNum \in 0..PtNum
  /\ pthreadOnNum \in Int
  /\ shutdown \in {0, Immediate, Graceful}
  /\ wpc \in [Workers -> {"none", "loop", "wait", "run", "leave", "store", "exited"}]
  /\ task \in [Workers -> Tasks \cup {NULL}]
  /\ seen \in [Workers -> Int]
  /\ cpc \in [Callers -> {"init", "out", "destroy0", "join", "done"}]
  /\ joined \in [Callers -> 0..PtNum]
  /\ destroys \in 0..MaxDestroys
  /\ destroyed \in BOOLEAN
  /\ accepted \subseteq Tasks
  /\ ran \in [Tasks -> Nat]

Init ==
  /\ lock = NULL /\ queue = <<>>
  /\ taskNum = 0 /\ pthreadNum = 0 /\ pthreadOnNum = 0 /\ shutdown = 0
  /\ wpc = [w \in Workers |-> "none"]
  /\ task = [w \in Workers |-> NULL]
  /\ seen = [w \in Workers |-> 0]
  /\ cpc = [c \in Callers |-> IF c = Creator THEN "init" ELSE "out"]
  /\ joined = [c \in Callers |-> 0]
  /\ destroys = 0 /\ destroyed = FALSE
  /\ accepted = {} /\ ran = [t \in Tasks |-> 0]

-----------------------------------------------------------------------------
(* threadpoolInit *)

\* The loop ends
Complete(created) == created = PtNum

Create ==
  /\ cpc[Creator] = "init"
  /\ wpc' = [wpc EXCEPT ![pthreadNum + 1] = "loop"]
  /\ pthreadNum' = pthreadNum + 1
  /\ pthreadOnNum' = pthreadOnNum + 1
  /\ cpc' = [cpc EXCEPT ![Creator] = IF Complete(pthreadNum') THEN "out" ELSE "init"]
  /\ UNCHANGED <<lock, queue, taskNum, shutdown, task, seen, joined, destroys,
                 destroyed, accepted, ran>>

\* pthread_create fails: threadpoolDestroy(tp, 0) follows
CreateFail ==
  /\ cpc[Creator] = "init" /\ pthreadNum + 1 \in CreateFails
  /\ cpc' = [cpc EXCEPT ![Creator] = "destroy0"]
  /\ UNCHANGED <<lock, queue, taskNum, pthreadNum, pthreadOnNum, shutdown, wpc,
                 task, seen, joined, destroys, destroyed, accepted, ran>>

\* A caller has the pool once threadpoolInit has returned it, and does not
\* start a call on a pool that is gone; a call and its taking of the mutex are
\* one step, so nobody is blocked on the mutex while it is destroyed
MayCall(c) == cpc[Creator] # "init" /\ cpc[c] = "out" /\ ~destroyed /\ lock = NULL
                /\ pthreadNum = PtNum

-----------------------------------------------------------------------------
(* threadpoolAdd *)

Push(t) == <<t>> \o queue

\* Mutation: nobody is woken
NoSignal(after) == after = wpc

\* pthread_cond_signal: one of the threads that wait, if there is one, goes on
Signal(after) ==
  LET waiting == {w \in Workers : wpc[w] = "wait"}
  IN  IF waiting = {} THEN after = wpc
      ELSE \E w \in waiting : after = [wpc EXCEPT ![w] = "loop"]

Add(c) ==
  /\ MayCall(c) /\ shutdown = 0
  /\ \E t \in Tasks \ accepted : queue' = Push(t) /\ accepted' = accepted \cup {t}
  /\ taskNum' = taskNum + 1
  /\ Signal(wpc')
  /\ UNCHANGED <<lock, pthreadNum, pthreadOnNum, shutdown, task, seen, cpc,
                 joined, destroys, destroyed, ran>>

-----------------------------------------------------------------------------
(* threadpoolDestroy *)

\* Mutation: the sleeping threads are not told
NoBroadcast == wpc

\* pthread_cond_broadcast
Woken == [w \in Workers |-> IF wpc[w] = "wait" THEN "loop" ELSE wpc[w]]

\* The critical section: the second call leaves it without unlocking
Shut(c, type) ==
  IF shutdown # 0
  THEN /\ lock' = c
       /\ cpc' = [cpc EXCEPT ![c] = "done"]
       /\ UNCHANGED <<shutdown, wpc>>
  ELSE /\ shutdown' = type
       /\ wpc' = Woken
       /\ cpc' = [cpc EXCEPT ![c] = "join"]
       /\ UNCHANGED lock

Destroy(c) ==
  /\ MayCall(c) /\ destroys < MaxDestroys
  /\ destroys' = destroys + 1
  /\ \E type \in Types : Shut(c, type)
  /\ UNCHANGED <<queue, taskNum, pthreadNum, pthreadOnNum, task, seen, joined,
                 destroyed, accepted, ran>>

\* The call threadpoolInit makes
DestroyInit ==
  /\ cpc[Creator] = "destroy0" /\ lock = NULL
  /\ Shut(Creator, 0)
  /\ UNCHANGED <<queue, taskNum, pthreadNum, pthreadOnNum, task, seen, joined,
                 destroys, destroyed, accepted, ran>>

\* Mutation: the threads are not waited for
NeedNotWait(w) == TRUE

\* pthread_join returns when the thread has ended
MayJoin(w) == wpc[w] = "exited"

Join(c) ==
  /\ cpc[c] = "join" /\ joined[c] < pthreadNum
  /\ MayJoin(joined[c] + 1)
  /\ joined' = [joined EXCEPT ![c] = @ + 1]
  /\ UNCHANGED <<lock, queue, taskNum, pthreadNum, pthreadOnNum, shutdown, wpc,
                 task, seen, cpc, destroys, destroyed, accepted, ran>>

\* The mutex and the condition variable are destroyed; threadpoolFree frees
\* the list, unless it takes a thread to be working still
Finish(c) ==
  /\ cpc[c] = "join" /\ joined[c] = pthreadNum
  /\ destroyed' = TRUE
  /\ queue' = IF pthreadOnNum > 0 THEN queue ELSE <<>>
  /\ cpc' = [cpc EXCEPT ![c] = "done"]
  /\ UNCHANGED <<lock, taskNum, pthreadNum, pthreadOnNum, shutdown, wpc, task,
                 seen, joined, destroys, accepted, ran>>

-----------------------------------------------------------------------------
(* threadpoolWorker *)

\* Mutation: an immediate shutdown waits for the list to be empty
LeavesWhenEmpty == shutdown # 0 /\ taskNum = 0

\* Mutation: a graceful shutdown ends the thread as an immediate one does
LeavesEarly == shutdown # 0

\* The thread breaks out of its loop
Leaves == shutdown = Immediate \/ (shutdown = Graceful /\ taskNum = 0)

\* What a thread does once it has the lock; only Take leaves tasks behind it
AtLoop(w) == wpc[w] = "loop" /\ lock = NULL

Wait(w) ==
  /\ AtLoop(w) /\ taskNum = 0 /\ shutdown = 0
  /\ wpc' = [wpc EXCEPT ![w] = "wait"]
  /\ UNCHANGED <<lock, queue, taskNum, pthreadNum, pthreadOnNum, shutdown, task,
                 seen, cpc, joined, destroys, destroyed, accepted, ran>>

\* pthread_cond_wait may return without having been signalled
Spurious(w) ==
  /\ wpc[w] = "wait"
  /\ wpc' = [wpc EXCEPT ![w] = "loop"]
  /\ UNCHANGED <<lock, queue, taskNum, pthreadNum, pthreadOnNum, shutdown, task,
                 seen, cpc, joined, destroys, destroyed, accepted, ran>>

Leave(w) ==
  /\ AtLoop(w) /\ Leaves
  /\ wpc' = [wpc EXCEPT ![w] = "leave"]
  /\ UNCHANGED <<lock, queue, taskNum, pthreadNum, pthreadOnNum, shutdown, task,
                 seen, cpc, joined, destroys, destroyed, accepted, ran>>

\* Mutation: the head of the list is not unlinked
StaysListed == queue

Rest == Tail(queue)

\* With an empty list, "continue" keeps the lock
Take(w) ==
  /\ AtLoop(w) /\ ~(taskNum = 0 /\ shutdown = 0) /\ ~Leaves
  /\ IF queue = <<>>
     THEN lock' = w /\ UNCHANGED <<queue, taskNum, task, wpc>>
     ELSE /\ task' = [task EXCEPT ![w] = Head(queue)]
          /\ queue' = Rest
          /\ taskNum' = taskNum - 1
          /\ wpc' = [wpc EXCEPT ![w] = "run"]
          /\ UNCHANGED lock
  /\ UNCHANGED <<pthreadNum, pthreadOnNum, shutdown, seen, cpc, joined, destroys,
                 destroyed, accepted, ran>>

\* The task runs and is freed
Run(w) ==
  /\ wpc[w] = "run"
  /\ ran' = [ran EXCEPT ![task[w]] = @ + 1]
  /\ task' = [task EXCEPT ![w] = NULL]
  /\ wpc' = [wpc EXCEPT ![w] = "loop"]
  /\ UNCHANGED <<lock, queue, taskNum, pthreadNum, pthreadOnNum, shutdown, seen,
                 cpc, joined, destroys, destroyed, accepted>>

\* tp->pthreadOnNum-- without the lock: a load and a store
LoadOnNum(w) ==
  /\ wpc[w] = "leave"
  /\ seen' = [seen EXCEPT ![w] = pthreadOnNum]
  /\ wpc' = [wpc EXCEPT ![w] = "store"]
  /\ UNCHANGED <<lock, queue, taskNum, pthreadNum, pthreadOnNum, shutdown, task,
                 cpc, joined, destroys, destroyed, accepted, ran>>

StoreOnNum(w) ==
  /\ wpc[w] = "store"
  /\ pthreadOnNum' = seen[w] - 1
  /\ wpc' = [wpc EXCEPT ![w] = "exited"]
  /\ UNCHANGED <<lock, queue, taskNum, pthreadNum, shutdown, task, seen, cpc,
                 joined, destroys, destroyed, accepted, ran>>

Worker(w) == Wait(w) \/ Leave(w) \/ Take(w) \/ Run(w) \/ LoadOnNum(w) \/ StoreOnNum(w)

Caller(c) == Add(c) \/ Destroy(c) \/ Join(c) \/ Finish(c)

Next ==
  \/ Create \/ CreateFail \/ DestroyInit
  \/ \E c \in Callers : Caller(c)
  \/ \E w \in Workers : Worker(w) \/ Spurious(w)

Spec == Init /\ [][Next]_vars

\* A thread that can go on does; nobody is obliged to start a call, nor to let
\* a thread that waits wake up unasked
FairSpec ==
  /\ Spec
  /\ \A w \in Workers : WF_vars(Worker(w))
  /\ \A c \in Callers : WF_vars(Join(c) \/ Finish(c))
  /\ WF_vars(Create \/ DestroyInit)
-----------------------------------------------------------------------------
(* Properties *)

\* Every task threadpoolAdd has accepted is in exactly one place: once in the
\* list, in the hands of one thread, or finished after a single run.  Only
\* threadpoolFree discards what an immediate shutdown has left.
OneCopy ==
  /\ destroyed \/ taskNum = Len(queue)
  /\ \A i, j \in DOMAIN queue : queue[i] = queue[j] => i = j
  /\ \A t \in Listed : t \in accepted /\ ran[t] = 0
  /\ \A w \in Workers : task[w] # NULL =>
        /\ task[w] \in accepted /\ task[w] \notin Listed /\ ran[task[w]] = 0
        /\ \A v \in Workers : task[v] = task[w] => v = w
  /\ \A t \in Tasks : ran[t] <= 1
  /\ destroyed \/ \A t \in accepted :
        t \in Listed \/ ran[t] = 1 \/ \E w \in Workers : task[w] = t

\* A graceful shutdown ends after the last accepted task: when the pool is
\* gone every task has run, although the threads left one at a time and tasks
\* may have been added until the very moment of the call.
GracefulDrains ==
  destroyed /\ shutdown = Graceful => \A t \in accepted : ran[t] = 1

\* The mutex is destroyed only when no thread of the pool can ask for it any
\* more, nor still holds a task.
QuietWhenDestroyed ==
  destroyed => \A w \in Workers : wpc[w] \in {"none", "exited"} /\ task[w] = NULL

\* No wakeup is lost: while a task is listed, and once the pool shuts down,
\* there is a thread awake to see it; after the broadcast nobody sleeps.
NoLostWakeup ==
  pthreadNum = PtNum =>
    /\ queue # <<>> => \E w \in Workers : wpc[w] # "wait"
    /\ shutdown # 0 => \A w \in Workers : wpc[w] # "wait"

\* An immediate shutdown stops the pool: from then on no task leaves the list
\* for a thread to run it.
ImmediateStops ==
  [][shutdown = Immediate => \A w \in Workers : task'[w] \in {NULL, task[w]}]_vars

\* An accepted task is run, unless the pool is told to stop at once, or a
\* second threadpoolDestroy has left with the mutex.
TasksRun ==
  \A t \in Tasks : (t \in accepted) ~> (ran[t] = 1 \/ shutdown = Immediate \/ lock # NULL)

\* threadpoolDestroy returns, whatever the threads were doing; but for the two
\* calls that cannot: the one threadpoolInit makes with type 0, after which the
\* threads go on waiting, and one during which a second call takes the mutex
\* away (DestroyReturns).
ShutdownEnds ==
  \A c \in Callers :
     (cpc[c] = "join" /\ shutdown # 0) ~> (cpc[c] = "done" \/ lock # NULL)

\* threadpoolDestroy returns its "execution status" (threadpool.h:62), also to
\* the caller it tells that the pool was shut down already, and to the caller
\* that came first.
DestroyReturns == \A c \in Callers : (cpc[c] = "join") ~> (cpc[c] = "done")
=============================================================================
