------------------------------ MODULE PoolProofs ------------------------------
(***************************************************************************)
(* The safety of the two pools: of the threads of ThreadPool, for any      *)
(* number of threads, tasks and callers, and of the connections of         *)
(* ConnectionPool, for any number of users and connections.                *)
(***************************************************************************)
EXTENDS ThreadPool, ConnectionPool, TLAPS

\* A task is in the hands of a thread exactly while the thread runs it; the
\* threads exist in the order of their creation; only accepted tasks run
HandsFull ==
  /\ \A w \in Workers : task[w] # NULL <=> wpc[w] = "run"
  /\ \A w \in Workers : wpc[w] = "none" <=> w > pthreadNum
  /\ \A t \in Tasks : ran[t] # 0 => t \in accepted

\* A thread leaves for good: the pool stops at once, or has nothing left
LeftForGood ==
  \A w \in Workers : wpc[w] \in {"leave", "store", "exited"} =>
     \/ shutdown = Immediate
     \/ shutdown = Graceful /\ taskNum = 0

\* Nobody creates threads while the pool is taken down, and the threads that
\* were joined have ended
JoinedEnded ==
  /\ \A c \in Callers : \A w \in Workers : w <= joined[c] => wpc[w] = "exited"
  /\ \A c \in Callers : cpc[c] = "join" \/ destroyed => cpc[Creator] # "init"
  /\ \A c \in Callers : joined[c] <= pthreadNum
  /\ cpc[Creator] = "init" => pthreadNum < PtNum
  /\ shutdown # 0 => pthreadNum = PtNum

IInv == /\ TypeOK /\ OneCopy /\ HandsFull /\ LeftForGood /\ JoinedEnded
        /\ QuietWhenDestroyed /\ NoLostWakeup /\ GracefulDrains

\* What a nonempty list is made of when its head has been taken off
LEMMA TailFacts ==
  ASSUME NEW S, NEW q \in Seq(S), q # <<>>
  PROVE  /\ Len(q) \in Nat \ {0} /\ Tail(q) \in Seq(S) /\ Head(q) = q[1]
         /\ Head(q) \in S /\ Len(Tail(q)) = Len(q) - 1
         /\ DOMAIN q = 1..Len(q) /\ DOMAIN Tail(q) = 1..(Len(q) - 1)
         /\ \A i \in 1..(Len(q) - 1) : Tail(q)[i] = q[i + 1]
  OBVIOUS

\* What a list is made of when a task has been linked before it
LEMMA PushFacts ==
  ASSUME NEW S, NEW q \in Seq(S), NEW t \in S
  PROVE  /\ <<t>> \o q \in Seq(S) /\ Len(<<t>> \o q) = Len(q) + 1
         /\ Len(q) \in Nat /\ DOMAIN q = 1..Len(q)
         /\ DOMAIN (<<t>> \o q) = 1..(Len(q) + 1)
         /\ (<<t>> \o q)[1] = t
         /\ \A i \in 2..(Len(q) + 1) : (<<t>> \o q)[i] = q[i - 1]
  OBVIOUS

\* Before threadpoolInit the pool is empty and nobody has a thread
LEMMA InitIInv == Init => IInv
<1> SUFFICES ASSUME Init PROVE IInv  OBVIOUS
<1> USE PtNumAssumption, NamesAssumption, TypesAssumption
<1>1. TypeOK
  <2>1. /\ cpc \in [Callers -> {"init", "out", "destroy0", "join", "done"}]
        /\ joined \in [Callers -> 0..PtNum]
    BY DEF Init
  <2>2. /\ wpc \in [Workers -> {"none", "loop", "wait", "run", "leave", "store", "exited"}]
        /\ task \in [Workers -> Tasks \cup {NULL}] /\ seen \in [Workers -> Int]
    BY DEF Init
  <2>3. ran \in [Tasks -> Nat] /\ queue \in Seq(Tasks)
    BY DEF Init
  <2>4. /\ lock = NULL /\ taskNum \in Nat /\ pthreadNum \in 0..PtNum
        /\ pthreadOnNum \in Int /\ shutdown = 0 /\ destroys \in 0..MaxDestroys
        /\ accepted = {}
    BY DEF Init
  <2>5. destroyed \in BOOLEAN
    BY Zenon DEF Init
  <2> QED  BY <2>1, <2>2, <2>3, <2>4, <2>5 DEF TypeOK
<1>2. OneCopy /\ QuietWhenDestroyed /\ GracefulDrains
  BY DEF Init, OneCopy, QuietWhenDestroyed, GracefulDrains, Listed
<1>3. HandsFull /\ LeftForGood /\ JoinedEnded
  BY DEF Init, HandsFull, LeftForGood, JoinedEnded, Workers
<1>4. NoLostWakeup
  BY DEF Init, NoLostWakeup
<1> QED  BY <1>1, <1>2, <1>3, <1>4 DEF IInv

\* The critical section of threadpoolDestroy
LEMMA ShutTypes ==
  ASSUME TypeOK, NEW c \in Callers, NEW type \in {0, 1, 2}, Shut(c, type)
  PROVE  /\ lock' \in Callers \cup Workers \cup {NULL}
         /\ shutdown' \in {0, Immediate, Graceful}
         /\ wpc' \in [Workers -> {"none", "loop", "wait", "run", "leave", "store", "exited"}]
         /\ cpc' \in [Callers -> {"init", "out", "destroy0", "join", "done"}]
<1>1. CASE shutdown # 0
  BY <1>1 DEF Shut, TypeOK
<1>2. CASE shutdown = 0
  <2>1. /\ shutdown' = type /\ cpc' = [cpc EXCEPT ![c] = "join"] /\ lock' = lock
        /\ wpc' = [w \in Workers |-> IF wpc[w] = "wait" THEN "loop" ELSE wpc[w]]
    BY <1>2 DEF Shut, Woken
  <2>2. wpc' \in [Workers -> {"none", "loop", "wait", "run", "leave", "store", "exited"}]
    BY <2>1 DEF TypeOK
  <2>3. cpc' \in [Callers -> {"init", "out", "destroy0", "join", "done"}]
    BY <2>1 DEF TypeOK
  <2> QED  BY <2>1, <2>2, <2>3 DEF TypeOK, Immediate, Graceful
<1> QED  BY <1>1, <1>2

\* threadpoolDestroy, whichever way it goes, keeps the types
LEMMA DestroyTypes ==
  ASSUME TypeOK, NEW c \in Callers, Destroy(c)
  PROVE  /\ lock' \in Callers \cup Workers \cup {NULL}
         /\ shutdown' \in {0, Immediate, Graceful}
         /\ wpc' \in [Workers -> {"none", "loop", "wait", "run", "leave", "store", "exited"}]
         /\ cpc' \in [Callers -> {"init", "out", "destroy0", "join", "done"}]
<1>1. PICK type \in Types : Shut(c, type)
  BY DEF Destroy
<1>2. type \in {0, 1, 2}
  BY TypesAssumption
<1> QED  BY <1>1, <1>2, ShutTypes

\* Neither call does more to a thread than waking it up
LEMMA OnlyWakes ==
  ASSUME TypeOK, NEW c \in Callers, Add(c) \/ \E type : Shut(c, type)
  PROVE  \A w \in Workers : wpc'[w] = wpc[w] \/ (wpc[w] = "wait" /\ wpc'[w] = "loop")
<1>1. CASE Add(c)
  <2>1. CASE wpc' = wpc
    BY <2>1
  <2>2. ASSUME NEW v \in Workers, wpc[v] = "wait", wpc' = [wpc EXCEPT ![v] = "loop"]
        PROVE  \A w \in Workers : wpc'[w] = wpc[w] \/ (wpc[w] = "wait" /\ wpc'[w] = "loop")
    BY <2>2 DEF TypeOK
  <2> QED  BY <1>1, <2>1, <2>2 DEF Add, Signal
<1>2. ASSUME NEW type, Shut(c, type)
      PROVE  \A w \in Workers : wpc'[w] = wpc[w] \/ (wpc[w] = "wait" /\ wpc'[w] = "loop")
  <2>1. wpc' = wpc \/ wpc' = Woken
    BY <1>2 DEF Shut
  <2> QED  BY <2>1 DEF Woken
<1> QED  BY <1>1, <1>2

\* The types
LEMMA NextTypeOK ==
  ASSUME IInv, [Next]_vars
  PROVE  TypeOK'
<1> USE PtNumAssumption, NamesAssumption, TypesAssumption
    DEF IInv, TypeOK, Workers, Immediate, Graceful
<1>1. CASE Create
  BY <1>1 DEF Create, Complete, JoinedEnded
<1>2. CASE CreateFail
  BY <1>2 DEF CreateFail
<1>3. CASE DestroyInit
  BY <1>3, ShutTypes DEF DestroyInit
<1>4. ASSUME NEW c \in Callers, Add(c) PROVE TypeOK'
  <2>1. PICK t \in Tasks \ accepted : queue' = <<t>> \o queue /\ accepted' = accepted \cup {t}
    BY <1>4 DEF Add, Push
  <2>2. queue' \in Seq(Tasks)
    BY <2>1, PushFacts
  <2>3. wpc' \in [Workers -> {"none", "loop", "wait", "run", "leave", "store", "exited"}]
    BY <1>4 DEF Add, Signal
  <2> QED  BY <1>4, <2>1, <2>2, <2>3 DEF Add
<1>5. ASSUME NEW c \in Callers, Destroy(c) PROVE TypeOK'
  <2>3. UNCHANGED <<queue, taskNum, pthreadNum, pthreadOnNum, task, seen, joined,
                    destroyed, accepted, ran>>
    BY <1>5 DEF Destroy
  <2>4. destroys' \in 0..MaxDestroys
    BY <1>5 DEF Destroy
  <2>5. /\ lock' \in Callers \cup Workers \cup {NULL}
        /\ shutdown' \in {0, Immediate, Graceful}
        /\ wpc' \in [Workers -> {"none", "loop", "wait", "run", "leave", "store", "exited"}]
        /\ cpc' \in [Callers -> {"init", "out", "destroy0", "join", "done"}]
    BY <1>5, DestroyTypes
  <2> QED  BY <2>3, <2>4, <2>5
<1>6. ASSUME NEW c \in Callers, Join(c) PROVE TypeOK'
  <2>1. joined[c] + 1 \in 0..PtNum
    BY <1>6 DEF Join
  <2>2. joined' \in [Callers -> 0..PtNum]
    BY <1>6, <2>1 DEF Join
  <2> QED  BY <1>6, <2>2 DEF Join
<1>7. ASSUME NEW c \in Callers, Finish(c) PROVE TypeOK'
  BY <1>7 DEF Finish
<1>8. ASSUME NEW w \in Workers, Wait(w) PROVE TypeOK'
  BY <1>8 DEF Wait
<1>9. ASSUME NEW w \in Workers, Spurious(w) PROVE TypeOK'
  BY <1>9 DEF Spurious
<1>10. ASSUME NEW w \in Workers, Leave(w) PROVE TypeOK'
  BY <1>10 DEF Leave
<1>11. ASSUME NEW w \in Workers, Take(w) PROVE TypeOK'
  <2>1. CASE queue = <<>>
    BY <1>11, <2>1 DEF Take
  <2>2. CASE queue # <<>>
    <3>1. ~destroyed
      BY <1>11, HandsFull DEF Take, AtLoop, QuietWhenDestroyed
    <3>2. Tail(queue) \in Seq(Tasks) /\ Head(queue) \in Tasks /\ taskNum - 1 \in Nat
      BY <2>2, <3>1, TailFacts DEF OneCopy
    <3>3. /\ task' = [task EXCEPT ![w] = Head(queue)] /\ queue' = Tail(queue)
          /\ taskNum' = taskNum - 1 /\ wpc' = [wpc EXCEPT ![w] = "run"]
          /\ UNCHANGED <<lock, pthreadNum, pthreadOnNum, shutdown, seen, cpc, joined,
                         destroys, destroyed, accepted, ran>>
      BY <1>11, <2>2 DEF Take, Rest
    <3>4. /\ task' \in [Workers -> Tasks \cup {NULL}]
          /\ wpc' \in [Workers -> {"none", "loop", "wait", "run", "leave", "store", "exited"}]
      BY <3>2, <3>3
    <3> QED  BY <3>2, <3>3, <3>4
  <2> QED  BY <2>1, <2>2
<1>12. ASSUME NEW w \in Workers, Run(w) PROVE TypeOK'
  <2>1. task[w] \in Tasks
    BY <1>12 DEF Run, HandsFull
  <2> QED  BY <1>12, <2>1 DEF Run
<1>13. ASSUME NEW w \in Workers, LoadOnNum(w) PROVE TypeOK'
  BY <1>13 DEF LoadOnNum
<1>14. ASSUME NEW w \in Workers, StoreOnNum(w) PROVE TypeOK'
  BY <1>14 DEF StoreOnNum
<1>15. CASE UNCHANGED vars
  BY <1>15 DEF vars
<1> QED
  BY <1>1, <1>2, <1>3, <1>4, <1>5, <1>6, <1>7, <1>8, <1>9, <1>10, <1>11,
     <1>12, <1>13, <1>14, <1>15 DEF Next, Caller, Worker

\* The tasks
LEMMA NextOneCopy ==
  ASSUME IInv, [Next]_vars
  PROVE  OneCopy'
<1> USE DEF IInv
<1>1. CASE UNCHANGED <<destroyed, taskNum, queue, accepted, ran, task>>
  BY <1>1 DEF OneCopy, Listed
<1>2. ASSUME NEW c \in Callers, Add(c) PROVE OneCopy'
  <2>1. PICK t \in Tasks \ accepted : queue' = <<t>> \o queue /\ accepted' = accepted \cup {t}
    BY <1>2 DEF Add, Push
  <2>2. /\ Len(queue') = Len(queue) + 1 /\ Len(queue) \in Nat
        /\ DOMAIN queue = 1..Len(queue) /\ DOMAIN queue' = 1..(Len(queue) + 1)
        /\ queue'[1] = t
        /\ \A i \in 2..(Len(queue) + 1) : queue'[i] = queue[i - 1]
    BY <2>1, PushFacts DEF TypeOK
  <2>3. Listed' = Listed \cup {t}
    <3>1. ASSUME NEW x \in Listed PROVE x \in Listed'
      <4>1. PICK i \in 1..Len(queue) : x = queue[i]
        BY <2>2 DEF Listed
      <4>2. i + 1 \in 2..(Len(queue) + 1) /\ i = (i + 1) - 1
        BY <2>2
      <4>3. i + 1 \in DOMAIN queue' /\ queue'[i + 1] = x
        BY <2>2, <4>1, <4>2
      <4> QED  BY <4>3 DEF Listed
    <3>2. ASSUME NEW x \in Listed' PROVE x \in Listed \cup {t}
      BY <2>2 DEF Listed
    <3>3. t \in Listed'
      BY <2>2 DEF Listed
    <3> QED  BY <3>1, <3>2, <3>3
  <2>4. t \notin Listed /\ ran[t] = 0 /\ \A w \in Workers : task[w] # t
    <3>1. t \in Tasks /\ t \notin accepted /\ t # NULL
      BY NamesAssumption
    <3>2. t \notin Listed /\ \A w \in Workers : task[w] # t
      BY <3>1 DEF OneCopy
    <3>3. ran[t] = 0
      BY <3>1 DEF HandsFull
    <3> QED  BY <3>2, <3>3
  <2>5. \A i, j \in DOMAIN queue' : queue'[i] = queue'[j] => i = j
    <3> SUFFICES ASSUME NEW i \in DOMAIN queue', NEW j \in DOMAIN queue', queue'[i] = queue'[j]
                 PROVE  i = j
      OBVIOUS
    <3>1. ASSUME NEW k \in DOMAIN queue', k # 1
          PROVE  k - 1 \in DOMAIN queue /\ queue'[k] = queue[k - 1] /\ queue'[k] # t
      <4>1. k \in 2..(Len(queue) + 1) /\ k - 1 \in DOMAIN queue
        BY <2>2, <3>1
      <4> QED  BY <2>2, <2>4, <4>1 DEF Listed
    <3>2. CASE i = 1 \/ j = 1
      BY <2>2, <3>1, <3>2
    <3>3. CASE i # 1 /\ j # 1
      <4>1. i - 1 = j - 1
        BY <3>1, <3>3 DEF OneCopy
      <4> QED  BY <2>2, <4>1
    <3> QED  BY <3>2, <3>3
  <2>6. UNCHANGED <<destroyed, ran, task>> /\ taskNum' = taskNum + 1 /\ ~destroyed
    BY <1>2 DEF Add, MayCall
  <2> QED  BY <2>1, <2>2, <2>3, <2>4, <2>5, <2>6 DEF OneCopy
<1>3. ASSUME NEW c \in Callers, Finish(c) PROVE OneCopy'
  BY <1>3 DEF Finish, OneCopy, Listed
<1>4. ASSUME NEW w \in Workers, Take(w), queue # <<>> PROVE OneCopy'
  <2>1. /\ queue' = Tail(queue) /\ task' = [task EXCEPT ![w] = Head(queue)]
        /\ taskNum' = taskNum - 1 /\ UNCHANGED <<destroyed, accepted, ran>>
        /\ wpc[w] = "loop"
    BY <1>4 DEF Take, Rest, AtLoop
  <2> DEFINE t == Head(queue)
  <2>2. /\ Len(queue) \in Nat \ {0} /\ t = queue[1] /\ t \in Tasks
        /\ Len(queue') = Len(queue) - 1
        /\ DOMAIN queue = 1..Len(queue) /\ DOMAIN queue' = 1..(Len(queue) - 1)
        /\ \A i \in 1..(Len(queue) - 1) : queue'[i] = queue[i + 1]
    BY <1>4, <2>1, TailFacts DEF TypeOK
  <2> HIDE DEF t
  <2>3. t \in Listed /\ t \notin Listed' /\ Listed' \subseteq Listed
    <3>1. ASSUME NEW i \in DOMAIN queue' PROVE queue'[i] # t /\ queue'[i] \in Listed
      <4>1. i \in 1..(Len(queue) - 1) /\ i + 1 \in DOMAIN queue /\ 1 \in DOMAIN queue /\ i + 1 # 1
        BY <2>2
      <4> QED  BY <2>2, <4>1 DEF OneCopy, Listed
    <3> QED  BY <2>2, <3>1 DEF Listed
  <2>4. Listed \subseteq Listed' \cup {t}
    <3> SUFFICES ASSUME NEW i \in DOMAIN queue, i # 1 PROVE queue[i] \in Listed'
      BY <2>2 DEF Listed
    <3>1. i - 1 \in 1..(Len(queue) - 1) /\ (i - 1) + 1 = i
      BY <2>2
    <3> QED  BY <2>2, <3>1 DEF Listed
  <2>5. \A i, j \in DOMAIN queue' : queue'[i] = queue'[j] => i = j
    <3> SUFFICES ASSUME NEW i \in DOMAIN queue', NEW j \in DOMAIN queue', queue'[i] = queue'[j]
                 PROVE  i = j
      OBVIOUS
    <3>1. i + 1 \in DOMAIN queue /\ j + 1 \in DOMAIN queue /\ queue[i + 1] = queue[j + 1]
      BY <2>2
    <3> QED  BY <2>2, <3>1 DEF OneCopy
  <2>6. task[w] = NULL /\ t # NULL /\ \A v \in Workers : task[v] # t
    BY <2>1, <2>2, <2>3, NamesAssumption DEF HandsFull, OneCopy
  <2>7. \A v \in Workers : task'[v] = IF v = w THEN t ELSE task[v]
    BY <2>1 DEF TypeOK, t
  <2>8. destroyed' \/ taskNum' = Len(queue')
    BY <2>1, <2>2 DEF OneCopy, TypeOK
  <2>9. t \in accepted /\ ran[t] = 0
    BY <2>3 DEF OneCopy
  <2>10. \A v \in Workers : task'[v] # NULL =>
            /\ task'[v] \in accepted /\ task'[v] \notin Listed' /\ ran[task'[v]] = 0
            /\ \A u \in Workers : task'[u] = task'[v] => u = v
    BY <2>3, <2>6, <2>7, <2>9 DEF OneCopy
  <2>11. destroyed \/ \A x \in accepted :
            x \in Listed' \/ ran[x] = 1 \/ \E v \in Workers : task'[v] = x
    <3> SUFFICES ASSUME ~destroyed, NEW x \in accepted, x \notin Listed', ran[x] # 1
                 PROVE  \E v \in Workers : task'[v] = x
      OBVIOUS
    <3>1. CASE x = t
      BY <3>1, <2>7
    <3>2. CASE x # t
      <4>1. PICK v \in Workers : task[v] = x
        BY <3>2, <2>4 DEF OneCopy
      <4>2. v # w
        BY <4>1, <2>6, NamesAssumption DEF TypeOK
      <4> QED  BY <4>1, <4>2, <2>7
    <3> QED  BY <3>1, <3>2
  <2> QED  BY <2>1, <2>3, <2>5, <2>8, <2>10, <2>11 DEF OneCopy
<1>5. ASSUME NEW w \in Workers, Run(w) PROVE OneCopy'
  <2>1. task[w] \in Tasks /\ task[w] # NULL
    BY <1>5 DEF Run, HandsFull, TypeOK
  <2> DEFINE t == task[w]
  <2>2. /\ \A v \in Workers : task'[v] = IF v = w THEN NULL ELSE task[v]
        /\ \A x \in Tasks : ran'[x] = IF x = t THEN ran[x] + 1 ELSE ran[x]
        /\ UNCHANGED <<queue, taskNum, destroyed, accepted>>
    BY <1>5 DEF Run, TypeOK
  <2>3. Listed' = Listed /\ t \notin Listed /\ ran[t] = 0 /\ Listed \subseteq Tasks
    BY <2>1, <2>2 DEF Listed, OneCopy, TypeOK
  <2>4. \A v \in Workers : task'[v] # NULL => task'[v] = task[v] /\ task[v] # t /\ task[v] \in Tasks
    BY <2>1, <2>2 DEF OneCopy, TypeOK
  <2> HIDE DEF t
  <2>5. \A x \in Tasks : ran'[x] <= 1
    BY <2>2, <2>3 DEF OneCopy, TypeOK
  <2>6. ran'[t] = 1
    BY <2>1, <2>2, <2>3 DEF t
  <2>7. destroyed \/ \A x \in accepted :
            x \in Listed \/ ran'[x] = 1 \/ \E v \in Workers : task'[v] = x
    <3> SUFFICES ASSUME ~destroyed, NEW x \in accepted, x # t, x \notin Listed, ran[x] # 1
                 PROVE  \E v \in Workers : task'[v] = x
      BY <2>2, <2>6 DEF TypeOK
    <3>1. PICK v \in Workers : task[v] = x
      BY DEF OneCopy
    <3> QED  BY <2>2, <3>1 DEF t
  <2>8. \A x \in Listed : x \in accepted /\ ran'[x] = 0
    BY <2>2, <2>3 DEF OneCopy
  <2>9. \A v \in Workers : task'[v] # NULL =>
            /\ task'[v] \in accepted /\ task'[v] \notin Listed /\ ran'[task'[v]] = 0
            /\ \A u \in Workers : task'[u] = task'[v] => u = v
    BY <2>2, <2>4 DEF OneCopy
  <2> QED  BY <2>2, <2>3, <2>5, <2>7, <2>8, <2>9 DEF OneCopy
<1> QED
  BY <1>1, <1>2, <1>3, <1>4, <1>5
  DEF Next, Caller, Worker, vars, Create, CreateFail, DestroyInit, Destroy, Join,
      Wait, Spurious, Leave, Take, LoadOnNum, StoreOnNum

\* The threads and the tasks they hold
LEMMA NextHandsFull ==
  ASSUME IInv, [Next]_vars
  PROVE  HandsFull'
<1> USE PtNumAssumption, NamesAssumption DEF IInv, Workers
<1>1. CASE Create
  <2>1. /\ pthreadNum + 1 \in Workers /\ pthreadNum' = pthreadNum + 1
        /\ wpc' = [wpc EXCEPT ![pthreadNum + 1] = "loop"]
        /\ UNCHANGED <<task, ran, accepted>>
    BY <1>1 DEF Create, JoinedEnded, TypeOK
  <2>2. \A w \in Workers : wpc'[w] = IF w = pthreadNum + 1 THEN "loop" ELSE wpc[w]
    BY <2>1 DEF TypeOK
  <2>3. wpc[pthreadNum + 1] = "none"
    BY <2>1 DEF HandsFull, TypeOK
  <2> QED  BY <2>1, <2>2, <2>3 DEF HandsFull, TypeOK
<1>2. ASSUME NEW c \in Callers, NEW type, Shut(c, type),
             UNCHANGED <<task, pthreadNum, ran, accepted>>
      PROVE  HandsFull'
  <2>1. \A w \in Workers : wpc'[w] = wpc[w] \/ (wpc[w] = "wait" /\ wpc'[w] = "loop")
    BY <1>2, OnlyWakes
  <2> QED  BY <1>2, <2>1 DEF HandsFull
<1>3. ASSUME NEW c \in Callers, Add(c) PROVE HandsFull'
  <2>1. \A w \in Workers : wpc'[w] = wpc[w] \/ (wpc[w] = "wait" /\ wpc'[w] = "loop")
    BY <1>3, OnlyWakes
  <2>2. accepted \subseteq accepted' /\ UNCHANGED <<task, pthreadNum, ran>>
    BY <1>3 DEF Add
  <2> QED  BY <2>1, <2>2 DEF HandsFull
<1>4. ASSUME NEW w \in Workers, Wait(w) \/ Spurious(w) \/ Leave(w) \/ LoadOnNum(w) \/ StoreOnNum(w)
      PROVE  HandsFull'
  <2>1. /\ wpc[w] \notin {"none", "run"}
        /\ \E at \in {"wait", "loop", "leave", "store", "exited"} : wpc' = [wpc EXCEPT ![w] = at]
        /\ UNCHANGED <<task, pthreadNum, ran, accepted>>
    BY <1>4 DEF Wait, Spurious, Leave, LoadOnNum, StoreOnNum, AtLoop
  <2> QED  BY <2>1 DEF HandsFull, TypeOK
<1>5. ASSUME NEW w \in Workers, Take(w) PROVE HandsFull'
  <2>1. CASE queue = <<>>
    BY <1>5, <2>1 DEF Take, HandsFull
  <2>2. CASE queue # <<>>
    <3>1. /\ task' = [task EXCEPT ![w] = Head(queue)] /\ wpc' = [wpc EXCEPT ![w] = "run"]
          /\ UNCHANGED <<pthreadNum, ran, accepted>> /\ wpc[w] = "loop"
      BY <1>5, <2>2 DEF Take, AtLoop
    <3>2. Head(queue) # NULL
      BY <2>2, TailFacts DEF TypeOK
    <3>3. \A v \in Workers : /\ task'[v] = IF v = w THEN Head(queue) ELSE task[v]
                             /\ wpc'[v] = IF v = w THEN "run" ELSE wpc[v]
      BY <3>1 DEF TypeOK
    <3> QED  BY <3>1, <3>2, <3>3 DEF HandsFull
  <2> QED  BY <2>1, <2>2
<1>6. ASSUME NEW w \in Workers, Run(w) PROVE HandsFull'
  <2>1. task[w] \in accepted
    BY <1>6 DEF Run, OneCopy, HandsFull
  <2> QED  BY <1>6, <2>1 DEF Run, HandsFull, TypeOK
<1>7. CASE UNCHANGED <<wpc, task, pthreadNum, ran, accepted>>
  BY <1>7 DEF HandsFull
<1>8. CASE DestroyInit
  BY <1>2, <1>8, NamesAssumption DEF DestroyInit
<1>9. ASSUME NEW c \in Callers, Destroy(c) PROVE HandsFull'
  BY <1>2, <1>9 DEF Destroy
<1> QED
  BY <1>1, <1>3, <1>4, <1>5, <1>6, <1>7, <1>8, <1>9
  DEF Next, Caller, Worker, vars, CreateFail, Join, Finish

\* The shutdown
LEMMA NextLeft ==
  ASSUME IInv, [Next]_vars
  PROVE  LeftForGood'
<1> USE DEF IInv
<1>1. CASE Create
  BY <1>1 DEF Create, LeftForGood, TypeOK
<1>2. ASSUME NEW c \in Callers, NEW type, Shut(c, type), UNCHANGED taskNum
      PROVE  LeftForGood'
  <2>1. \A w \in Workers : wpc'[w] = wpc[w] \/ wpc'[w] = "loop"
    BY <1>2, OnlyWakes
  <2>2. shutdown' = shutdown \/ shutdown = 0
    BY <1>2 DEF Shut
  <2> QED  BY <1>2, <2>1, <2>2 DEF LeftForGood, Immediate, Graceful
<1>3. ASSUME NEW c \in Callers, Add(c) PROVE LeftForGood'
  <2>1. \A w \in Workers : wpc'[w] = wpc[w] \/ wpc'[w] = "loop"
    BY <1>3, OnlyWakes
  <2>2. UNCHANGED shutdown /\ shutdown = 0
    BY <1>3 DEF Add
  <2> QED  BY <2>1, <2>2 DEF LeftForGood, Immediate, Graceful
<1>4. ASSUME NEW w \in Workers, Wait(w) \/ Spurious(w) \/ LoadOnNum(w) \/ StoreOnNum(w) \/ Run(w)
      PROVE  LeftForGood'
  <2>1. /\ \A v \in Workers \ {w} : wpc'[v] = wpc[v]
        /\ wpc'[w] \in {"wait", "loop"} \/ (wpc[w] \in {"leave", "store"} /\ wpc'[w] \in {"store", "exited"})
        /\ UNCHANGED <<taskNum, shutdown>>
    BY <1>4 DEF Wait, Spurious, LoadOnNum, StoreOnNum, Run, TypeOK
  <2> QED  BY <2>1 DEF LeftForGood
<1>5. ASSUME NEW w \in Workers, Leave(w) PROVE LeftForGood'
  BY <1>5 DEF Leave, Leaves, LeftForGood, TypeOK
<1>6. ASSUME NEW w \in Workers, Take(w) PROVE LeftForGood'
  <2>1. /\ \A v \in Workers : wpc'[v] = wpc[v] \/ wpc'[v] = "run"
        /\ UNCHANGED shutdown /\ ~Leaves
    BY <1>6 DEF Take, TypeOK
  <2> QED  BY <2>1 DEF LeftForGood, Leaves
<1>7. CASE UNCHANGED <<wpc, taskNum, shutdown>>
  BY <1>7 DEF LeftForGood
<1>8. CASE DestroyInit
  BY <1>2, <1>8, NamesAssumption DEF DestroyInit
<1>9. ASSUME NEW c \in Callers, Destroy(c) PROVE LeftForGood'
  BY <1>2, <1>9 DEF Destroy
<1> QED
  BY <1>1, <1>3, <1>4, <1>5, <1>6, <1>7, <1>8, <1>9
  DEF Next, Caller, Worker, vars, CreateFail, Join, Finish

\* The joins
LEMMA NextJoined ==
  ASSUME IInv, [Next]_vars
  PROVE  JoinedEnded'
<1> USE PtNumAssumption, NamesAssumption DEF IInv, Workers
<1>1. CASE Create
  <2>1. /\ \A w \in Workers : wpc[w] = "exited" => wpc'[w] = "exited"
        /\ pthreadNum' = pthreadNum + 1 /\ UNCHANGED <<joined, destroyed>>
        /\ cpc[Creator] = "init" /\ cpc' = [cpc EXCEPT ![Creator] = IF Complete(pthreadNum') THEN "out" ELSE "init"]
    BY <1>1 DEF Create, HandsFull, TypeOK, JoinedEnded
  <2>2. \A c \in Callers : ~(cpc[c] = "join" \/ destroyed)
    BY <2>1 DEF JoinedEnded
  <2>3. \A c \in Callers : cpc'[c] # "join"
    BY <2>1, <2>2 DEF TypeOK
  <2>4. (cpc'[Creator] = "init" => pthreadNum' < PtNum) /\ shutdown' = 0
    BY <1>1, <2>1 DEF Create, TypeOK, Complete, JoinedEnded
  <2> QED  BY <2>1, <2>2, <2>3, <2>4 DEF JoinedEnded, TypeOK
<1>2. CASE CreateFail
  BY <1>2 DEF CreateFail, JoinedEnded, TypeOK
<1>3. ASSUME NEW c \in Callers, NEW type, Shut(c, type), cpc[Creator] # "init",
             type = 0 \/ pthreadNum = PtNum, UNCHANGED <<joined, pthreadNum, destroyed>>
      PROVE  JoinedEnded'
  <2>1. \A w \in Workers : wpc'[w] = wpc[w] \/ (wpc[w] = "wait" /\ wpc'[w] = "loop")
    BY <1>3, OnlyWakes
  <2>2. \A d \in Callers : cpc'[d] = cpc[d] \/ cpc'[d] \in {"join", "done"}
    BY <1>3 DEF Shut, TypeOK
  <2>3. shutdown' = shutdown \/ shutdown' = type
    BY <1>3 DEF Shut
  <2> QED  BY <1>3, <2>1, <2>2, <2>3 DEF JoinedEnded
<1>4. ASSUME NEW c \in Callers, Add(c) PROVE JoinedEnded'
  <2>1. \A w \in Workers : wpc'[w] = wpc[w] \/ (wpc[w] = "wait" /\ wpc'[w] = "loop")
    BY <1>4, OnlyWakes
  <2>2. UNCHANGED <<joined, pthreadNum, destroyed, cpc, shutdown>>
    BY <1>4 DEF Add
  <2> QED  BY <2>1, <2>2 DEF JoinedEnded
<1>5. ASSUME NEW c \in Callers, Join(c) PROVE JoinedEnded'
  <2>1. /\ joined[c] < pthreadNum /\ wpc[joined[c] + 1] = "exited"
        /\ \A d \in Callers : joined'[d] = IF d = c THEN joined[d] + 1 ELSE joined[d]
        /\ UNCHANGED <<wpc, pthreadNum, destroyed, cpc, shutdown>>
    BY <1>5 DEF Join, MayJoin, TypeOK
  <2>2. \A d \in Callers : joined[d] \in Nat /\ joined'[d] <= pthreadNum'
    <3> SUFFICES ASSUME NEW d \in Callers PROVE joined[d] \in Nat /\ joined'[d] <= pthreadNum
      BY <2>1
    <3>1. joined[d] \in 0..PtNum /\ joined[d] <= pthreadNum /\ pthreadNum \in 0..PtNum
      BY DEF TypeOK, JoinedEnded
    <3>2. joined[c] \in 0..PtNum
      BY DEF TypeOK
    <3> QED  BY <2>1, <3>1, <3>2
  <2>3. \A d \in Callers : \A w \in Workers : w <= joined'[d] => wpc'[w] = "exited"
    BY <2>1, <2>2 DEF JoinedEnded
  <2> QED  BY <2>1, <2>2, <2>3 DEF JoinedEnded
<1>6. ASSUME NEW c \in Callers, Finish(c) PROVE JoinedEnded'
  <2>1. /\ cpc[c] = "join" /\ cpc' = [cpc EXCEPT ![c] = "done"]
        /\ UNCHANGED <<joined, pthreadNum, wpc, shutdown>>
    BY <1>6 DEF Finish
  <2>2. cpc[Creator] # "init" /\ \A d \in Callers : cpc'[d] = cpc[d] \/ cpc'[d] = "done"
    BY <2>1 DEF JoinedEnded, TypeOK
  <2> QED  BY <2>1, <2>2 DEF JoinedEnded
<1>7. ASSUME NEW w \in Workers, Worker(w) \/ Spurious(w) PROVE JoinedEnded'
  <2>1. UNCHANGED <<joined, pthreadNum, destroyed, cpc, shutdown>>
    BY <1>7 DEF Worker, Wait, Spurious, Leave, Take, Run, LoadOnNum, StoreOnNum
  <2>2. \A v \in Workers : wpc[v] = "exited" => wpc'[v] = "exited"
    BY <1>7 DEF Worker, Wait, Spurious, Leave, Take, Run, LoadOnNum, StoreOnNum, AtLoop, TypeOK
  <2> QED  BY <2>1, <2>2 DEF JoinedEnded
<1>8. CASE UNCHANGED vars
  BY <1>8 DEF JoinedEnded, vars
<1>9. CASE DestroyInit
  BY <1>3, <1>9 DEF DestroyInit
<1>10. ASSUME NEW c \in Callers, Destroy(c) PROVE JoinedEnded'
  BY <1>3, <1>10 DEF Destroy, MayCall
<1> QED
  BY <1>1, <1>2, <1>4, <1>5, <1>6, <1>7, <1>8, <1>9, <1>10 DEF Next, Caller

\* The pool is quiet when it is gone
LEMMA NextQuiet ==
  ASSUME IInv, [Next]_vars
  PROVE  QuietWhenDestroyed'
<1> USE DEF IInv, Workers
<1>1. ASSUME NEW c \in Callers, Finish(c) PROVE QuietWhenDestroyed'
  <2>1. joined[c] = pthreadNum /\ UNCHANGED <<wpc, task>>
    BY <1>1 DEF Finish
  <2>2. \A w \in Workers : wpc[w] \in {"none", "exited"}
    BY <2>1 DEF JoinedEnded, HandsFull, TypeOK
  <2> QED  BY <2>1, <2>2 DEF QuietWhenDestroyed, HandsFull
<1>2. ASSUME destroyed, UNCHANGED destroyed PROVE QuietWhenDestroyed'
  <2>1. \A w \in Workers : wpc[w] \in {"none", "exited"} /\ task[w] = NULL
    BY <1>2 DEF QuietWhenDestroyed
  <2>2. CASE UNCHANGED <<wpc, task>>
    BY <2>1, <2>2 DEF QuietWhenDestroyed
  <2>3. CASE Create
    BY <1>2, <2>3, NamesAssumption DEF Create, JoinedEnded
  <2>4. CASE DestroyInit
    BY <2>1, <2>4 DEF DestroyInit, Shut, Woken, QuietWhenDestroyed
  <2>5. ASSUME NEW w \in Workers, Worker(w) \/ Spurious(w) PROVE QuietWhenDestroyed'
    BY <2>1, <2>5 DEF Worker, Wait, Spurious, Leave, Take, Run, LoadOnNum, StoreOnNum, AtLoop
  <2> QED
    BY <1>2, <2>2, <2>3, <2>4, <2>5, <1>1
    DEF Next, Caller, vars, CreateFail, Add, Destroy, MayCall, Join
<1>3. CASE ~destroyed /\ UNCHANGED destroyed
  BY <1>3 DEF QuietWhenDestroyed
<1> QED
  BY <1>1, <1>2, <1>3
  DEF Next, Caller, Worker, vars, Create, CreateFail, DestroyInit, Add, Destroy,
      Join, Wait, Spurious, Leave, Take, Run, LoadOnNum, StoreOnNum

\* The wakeups
LEMMA NextWakeup ==
  ASSUME IInv, [Next]_vars
  PROVE  NoLostWakeup'
<1> USE PtNumAssumption, NamesAssumption DEF IInv
<1>1. CASE Create
  <2>1. /\ wpc' = [wpc EXCEPT ![pthreadNum + 1] = "loop"] /\ pthreadNum + 1 \in Workers
        /\ UNCHANGED shutdown /\ ~destroyed /\ pthreadNum < PtNum
    BY <1>1 DEF Create, JoinedEnded, TypeOK, Workers
  <2>2. wpc'[pthreadNum + 1] = "loop"
    BY <2>1 DEF TypeOK
  <2>3. shutdown' = 0
    BY <1>1, <2>1 DEF Create, JoinedEnded
  <2> QED  BY <2>1, <2>2, <2>3 DEF NoLostWakeup
<1>2. ASSUME NEW c \in Callers, Add(c) PROVE NoLostWakeup'
  <2>1. UNCHANGED <<shutdown, pthreadNum>> /\ shutdown = 0
    BY <1>2 DEF Add
  <2>2. \E w \in Workers : wpc'[w] # "wait"
    <3>1. CASE \A w \in Workers : wpc[w] # "wait"
      <4>1. 1 \in Workers /\ wpc' = wpc
        BY <1>2, <3>1 DEF Add, Signal, Workers
      <4> QED  BY <3>1, <4>1
    <3>2. CASE \E w \in Workers : wpc[w] = "wait"
      <4>1. PICK w \in Workers : wpc' = [wpc EXCEPT ![w] = "loop"]
        BY <1>2, <3>2 DEF Add, Signal
      <4> QED  BY <4>1 DEF TypeOK
    <3> QED  BY <3>1, <3>2
  <2> QED  BY <2>1, <2>2 DEF NoLostWakeup
<1>3. ASSUME NEW c \in Callers, NEW type, Shut(c, type), UNCHANGED <<queue, pthreadNum>>
      PROVE  NoLostWakeup'
  <2>1. \A w \in Workers : wpc'[w] = wpc[w] \/ (wpc[w] = "wait" /\ wpc'[w] = "loop")
    BY <1>3, OnlyWakes
  <2>2. shutdown' # 0 => shutdown # 0 \/ \A w \in Workers : wpc'[w] # "wait"
    BY <1>3 DEF Shut, Woken
  <2> QED  BY <1>3, <2>1, <2>2 DEF NoLostWakeup
<1>4. ASSUME NEW w \in Workers, Wait(w) PROVE NoLostWakeup'
  <2>1. /\ ~destroyed /\ taskNum = 0 /\ shutdown = 0 /\ UNCHANGED <<queue, shutdown>>
    BY <1>4 DEF Wait, AtLoop, QuietWhenDestroyed
  <2>2. queue = <<>>
    BY <2>1 DEF OneCopy, TypeOK
  <2> QED  BY <2>1, <2>2 DEF NoLostWakeup
<1>5. ASSUME NEW w \in Workers, Spurious(w) \/ Leave(w) \/ Take(w) \/ Run(w) \/ LoadOnNum(w) \/ StoreOnNum(w)
      PROVE  NoLostWakeup'
  <2>1. /\ wpc'[w] # "wait" /\ \A v \in Workers : wpc'[v] # "wait" \/ wpc'[v] = wpc[v]
        /\ UNCHANGED <<shutdown, pthreadNum>>
    BY <1>5 DEF Spurious, Leave, Take, Run, LoadOnNum, StoreOnNum, AtLoop, TypeOK
  <2> QED  BY <2>1 DEF NoLostWakeup
<1>6. ASSUME NEW c \in Callers, Finish(c) PROVE NoLostWakeup'
  BY <1>6 DEF Finish, NoLostWakeup
<1>7. CASE UNCHANGED <<queue, wpc, shutdown, pthreadNum>>
  BY <1>7 DEF NoLostWakeup
<1>8. CASE DestroyInit
  BY <1>3, <1>8 DEF DestroyInit
<1>9. ASSUME NEW c \in Callers, Destroy(c) PROVE NoLostWakeup'
  BY <1>3, <1>9 DEF Destroy
<1> QED
  BY <1>1, <1>2, <1>4, <1>5, <1>6, <1>7, <1>8, <1>9
  DEF Next, Caller, Worker, vars, CreateFail, Join

\* The tasks of a pool that was shut down gracefully
LEMMA NextDrains ==
  ASSUME IInv, [Next]_vars
  PROVE  GracefulDrains'
<1> USE DEF IInv
<1>1. ASSUME NEW c \in Callers, Finish(c) PROVE GracefulDrains'
  <2> SUFFICES ASSUME shutdown = Graceful, ~destroyed, NEW t \in accepted PROVE ran[t] = 1
    BY <1>1 DEF Finish, GracefulDrains
  <2>1. joined[c] = PtNum
    BY <1>1 DEF Finish, JoinedEnded, Graceful
  <2>2. \A w \in Workers : wpc[w] = "exited"
    BY <2>1 DEF JoinedEnded, Workers
  <2>3. taskNum = 0 /\ \A w \in Workers : task[w] = NULL
    <3>1. 1 \in Workers
      BY PtNumAssumption DEF Workers
    <3> QED  BY <2>2, <3>1 DEF LeftForGood, HandsFull, Immediate, Graceful
  <2>4. Listed = {}
    <3>1. queue = <<>>
      BY <2>3 DEF OneCopy, TypeOK
    <3> QED  BY <3>1 DEF Listed
  <2> QED  BY <2>3, <2>4, NamesAssumption DEF OneCopy, TypeOK
<1>2. ASSUME UNCHANGED destroyed PROVE GracefulDrains'
  <2> SUFFICES ASSUME destroyed, shutdown' = Graceful PROVE \A t \in accepted' : ran'[t] = 1
    BY <1>2 DEF GracefulDrains
  <2>1. \A w \in Workers : wpc[w] # "run"
    BY DEF QuietWhenDestroyed
  <2>2. UNCHANGED <<accepted, ran>>
    BY <2>1
    DEF Next, Caller, Worker, vars, Create, CreateFail, DestroyInit, Add, MayCall, Destroy,
        Join, Finish, Wait, Spurious, Leave, Take, Run, LoadOnNum, StoreOnNum
  <2>3. shutdown = Graceful
    BY DEF Next, Caller, Worker, vars, Create, CreateFail, DestroyInit, Shut, Add, MayCall,
           Destroy, Join, Finish, Wait, Spurious, Leave, Take, Run, LoadOnNum, StoreOnNum, Graceful
  <2> QED  BY <2>2, <2>3 DEF GracefulDrains
<1> QED
  BY <1>1, <1>2
  DEF Next, Caller, Worker, vars, Create, CreateFail, DestroyInit, Add, Destroy,
      Join, Wait, Spurious, Leave, Take, Run, LoadOnNum, StoreOnNum

\* The inductive invariant holds for good
LEMMA Invariance == Spec => []IInv
<1>1. IInv /\ [Next]_vars => IInv'
  BY NextTypeOK, NextOneCopy, NextHandsFull, NextLeft, NextJoined, NextQuiet, NextWakeup,
     NextDrains DEF IInv
<1> QED  BY <1>1, InitIInv, PTL DEF Spec

\* Whatever the number of threads, tasks and callers, however often the pool
\* is destroyed and whichever threads could not be created: every accepted task
\* is in one place and runs at most once, a graceful shutdown ends after all of
\* them have run, the mutex goes when no thread can ask for it any more, and no
\* wakeup is lost.
THEOREM PoolSafe ==
  Spec => [](TypeOK /\ OneCopy /\ GracefulDrains /\ QuietWhenDestroyed /\ NoLostWakeup)
<1>1. IInv => TypeOK /\ OneCopy /\ GracefulDrains /\ QuietWhenDestroyed /\ NoLostWakeup
  BY DEF IInv
<1> QED  BY <1>1, Invariance, PTL

\* From the step that makes it immediate on, a shutdown starts no task.
THEOREM PoolStops == Spec => ImmediateStops
<1>1. ASSUME IInv, Next, shutdown = Immediate, NEW w \in Workers
      PROVE  task'[w] \in {NULL, task[w]}
  <2>1. ASSUME NEW v \in Workers, Run(v) PROVE task'[w] \in {NULL, task[w]}
    BY <2>1 DEF Run, IInv, TypeOK
  <2>2. ASSUME NEW v \in Workers PROVE ~Take(v)
    BY <1>1 DEF Take, Leaves
  <2>3. CASE UNCHANGED task
    BY <2>3
  <2> QED
    BY <1>1, <2>1, <2>2, <2>3
    DEF Next, Caller, Worker, Create, CreateFail, DestroyInit, Add, Destroy,
        Join, Finish, Wait, Spurious, Leave, LoadOnNum, StoreOnNum
<1>2. IInv /\ [Next]_vars =>
        [shutdown = Immediate => \A w \in Workers : task'[w] \in {NULL, task[w]}]_vars
  BY <1>1
<1> QED  BY <1>2, Invariance, PTL DEF Spec, ImmediateStops

-----------------------------------------------------------------------------
(* The pool of connections *)

\* Connections fill the table in the order they are opened
TableInOrder ==
  /\ opened = curConnection /\ usedConnection <= curConnection
  /\ cons = [s \in Slots |-> IF s < curConnection THEN s + 1 ELSE NoConnection]

\* Who holds a connection was lent it
HeldWereLent == \A u \in Users : holds[u] \subseteq lent

LentInv == cpTypeOK /\ TableInOrder /\ HeldWereLent /\ Exclusive /\ FreshUntilFull

\* The slot looked at first, in arithmetic
LEMMA FirstProbe ==
  ASSUME NEW m \in Nat, NEW k \in Nat, k < m
  PROVE  (k + 0) % m = k
BY SMT

\* While fewer were lent than there are, the slot looked at first is free and
\* holds the connection that follows the last one lent
LEMMA FirstIsFree ==
  ASSUME PoolAssumption, LentInv, usedConnection < curConnection
  PROVE  /\ Probe(0) = usedConnection /\ cons[Probe(0)] = usedConnection + 1
         /\ Free(0)
<1>1. usedConnection \in Nat /\ curConnection \in Nat /\ curConnection <= MAXCONNECTION
  BY DEF LentInv, cpTypeOK, PoolAssumption
<1>2. Probe(0) = usedConnection
  BY <1>1, FirstProbe DEF Probe
<1>3. usedConnection \in Slots
  BY <1>1 DEF Slots, PoolAssumption
<1>4. cons[usedConnection] = usedConnection + 1
  BY <1>1, <1>3 DEF LentInv, TableInOrder
<1>5. cons[usedConnection] \notin isused
  BY DEF LentInv, FreshUntilFull
<1>. QED
  BY <1>2, <1>4, <1>5 DEF Free

\* What lending the next connection does, wherever it comes from
LEMMA LendNext ==
  ASSUME PoolAssumption, LentInv, NEW u \in Users, Lend(u, usedConnection + 1),
         usedConnection < MAXCONNECTION,
         curConnection' \in 0..MAXCONNECTION, usedConnection < curConnection',
         opened' = curConnection', opened <= opened',
         cons' = [s \in Slots |-> IF s < curConnection' THEN s + 1 ELSE NoConnection]
  PROVE  LentInv'
<1>0. usedConnection \in Nat /\ usedConnection + 1 \in Connections /\ curConnection' \in Nat
  BY DEF LentInv, cpTypeOK, Connections, PoolAssumption
<1>1. usedConnection + 1 \notin lent
  BY <1>0 DEF LentInv, FreshUntilFull
<1>2. \A v \in Users : holds[v] \subseteq lent /\ holds[v] \in SUBSET Connections
  BY DEF LentInv, HeldWereLent, cpTypeOK
<1>3. holds' \in [Users -> SUBSET Connections]
  BY <1>0 DEF Lend, LentInv, cpTypeOK
<1>4. /\ holds'[u] = holds[u] \cup {usedConnection + 1}
      /\ \A v \in Users : v # u => holds'[v] = holds[v]
  BY DEF Lend, LentInv, cpTypeOK
<1>5. cpTypeOK'
  <2>1. cons' \in [Slots -> Connections \cup {NoConnection}]
    BY <1>0 DEF Slots, Connections, PoolAssumption
  <2>2. usedConnection' \in 0..MAXCONNECTION /\ opened' \in Nat
    BY <1>0 DEF Lend, PoolAssumption
  <2>3. /\ isused' \subseteq Connections /\ closed' \subseteq Connections
        /\ lent' \subseteq Connections /\ refused' \in BOOLEAN
    BY <1>0 DEF Lend, LentInv, cpTypeOK
  <2>. QED BY <1>3, <2>1, <2>2, <2>3 DEF cpTypeOK
<1>6. TableInOrder'
  BY <1>0 DEF TableInOrder, Lend
<1>7. HeldWereLent'
  BY <1>2, <1>4 DEF HeldWereLent, Lend
<1>8. Exclusive'
  <2>1. \A v, w \in Users : v # w => holds'[v] \cap holds'[w] = {}
    BY <1>1, <1>2, <1>4 DEF LentInv, Exclusive
  <2>2. isused' = UNION {holds'[v] : v \in Users}
    BY <1>4 DEF LentInv, Exclusive, Lend
  <2>3. \A c \in 1..opened' : c - 1 \in Slots /\ cons'[c - 1] = c
    BY <1>0 DEF Slots, PoolAssumption
  <2>. QED BY <2>1, <2>2, <2>3 DEF Exclusive
<1>9. FreshUntilFull'
  <2>1. usedConnection' = usedConnection + 1 /\ lent' = lent \cup {usedConnection + 1}
    BY DEF Lend
  <2>2. lent' = 1..usedConnection'
    BY <1>0, <2>1 DEF LentInv, FreshUntilFull
  <2>3. isused' \subseteq lent'
    BY <1>2, <2>1 DEF Lend, LentInv, Exclusive
  <2>4. ASSUME usedConnection' < curConnection'
        PROVE  cons'[usedConnection'] \notin isused' \cup {NoConnection}
    <3>1. usedConnection' \in Slots /\ cons'[usedConnection'] = usedConnection' + 1
      BY <1>0, <2>1, <2>4 DEF Slots, PoolAssumption
    <3>2. usedConnection' + 1 \notin lent' /\ usedConnection' + 1 # NoConnection
      BY <1>0, <2>1, <2>2 DEF NoConnection
    <3>. QED BY <2>3, <3>1, <3>2
  <2>5. ~ refused'
    BY DEF Lend, LentInv, FreshUntilFull
  <2>. QED BY <2>2, <2>4, <2>5 DEF FreshUntilFull
<1>. QED
  BY <1>5, <1>6, <1>7, <1>8, <1>9 DEF LentInv

\* connection_pool_create fills the first MINCONNECTION slots, and lends nothing
LEMMA LentInit == ASSUME PoolAssumption, cpInit PROVE LentInv
<1>1. cpTypeOK
  <2>1. cons \in [Slots -> Connections \cup {NoConnection}]
    BY DEF cpInit, PoolAssumption, Slots, Connections
  <2>2. isused \subseteq Connections /\ closed \subseteq Connections /\ lent \subseteq Connections
    BY DEF cpInit
  <2>3. holds \in [Users -> SUBSET Connections]
    BY DEF cpInit
  <2>4. curConnection \in 0..MAXCONNECTION /\ usedConnection \in 0..MAXCONNECTION /\ opened \in Nat
    BY DEF cpInit, PoolAssumption
  <2>5. refused \in BOOLEAN
    BY DEF cpInit
  <2>. QED BY <2>1, <2>2, <2>3, <2>4, <2>5 DEF cpTypeOK
<1>2. TableInOrder /\ HeldWereLent
  BY DEF cpInit, TableInOrder, HeldWereLent, PoolAssumption
<1>3. Exclusive
  <2>1. \A c \in 1..opened : c - 1 \in Slots /\ cons[c - 1] = c
    BY DEF cpInit, Slots, PoolAssumption
  <2>. QED BY <2>1 DEF cpInit, Exclusive
<1>4. FreshUntilFull
  <2>1. 0 \in Slots /\ cons[0] = 1
    BY DEF cpInit, Slots, PoolAssumption
  <2>. QED BY <2>1 DEF cpInit, FreshUntilFull, NoConnection
<1>. QED BY <1>1, <1>2, <1>3, <1>4 DEF LentInv

\* Every call, and the closing of the pool, keeps the invariant
LEMMA LentNext == ASSUME PoolAssumption, LentInv, [cpNext]_cpVars PROVE LentInv'
<1>0. /\ usedConnection \in Nat /\ curConnection \in Nat /\ opened = curConnection
      /\ curConnection <= MAXCONNECTION /\ usedConnection <= curConnection
  BY DEF LentInv, cpTypeOK, TableInOrder, PoolAssumption
<1>1. ASSUME NEW u \in Users, GetIdle(u) PROVE LentInv'
  <2>1. usedConnection < curConnection
    BY <1>1 DEF GetIdle
  <2>2. PICK i \in 0..(curConnection - 1) :
          (\A j \in 0..(i - 1) : ~ Free(j)) /\ Lend(u, cons[Probe(i)])
    BY <1>1 DEF GetIdle
  <2>3. i = 0
    BY <1>0, <2>1, <2>2, FirstIsFree
  <2>4. Lend(u, usedConnection + 1)
    BY <2>1, <2>2, <2>3, FirstIsFree
  <2>5. UNCHANGED <<curConnection, cons, opened>>
    BY <1>1 DEF GetIdle
  <2>6. cons' = [s \in Slots |-> IF s < curConnection' THEN s + 1 ELSE NoConnection]
    BY <2>5 DEF LentInv, TableInOrder
  <2>. QED BY <1>0, <2>1, <2>4, <2>5, <2>6, LendNext
<1>2. ASSUME NEW u \in Users, GetNew(u) PROVE LentInv'
  <2>1. /\ usedConnection = curConnection /\ curConnection < MAXCONNECTION
        /\ opened' = opened + 1 /\ curConnection' = curConnection + 1
        /\ Lend(u, usedConnection + 1)
    BY <1>0, <1>2 DEF GetNew, Counted
  <2>2. cons' = [s \in Slots |-> IF s < curConnection' THEN s + 1 ELSE NoConnection]
    BY <1>0, <1>2, <2>1 DEF GetNew, LentInv, TableInOrder, Slots
  <2>. QED BY <1>0, <2>1, <2>2, LendNext
<1>3. ASSUME NEW u \in Users, GetRefused(u) PROVE LentInv'
  <2>1. usedConnection = MAXCONNECTION
    BY <1>0, <1>3 DEF GetRefused, PoolAssumption
  <2>. QED
    BY <1>3, <2>1 DEF GetRefused, LentInv, cpTypeOK, TableInOrder, HeldWereLent,
                      Exclusive, FreshUntilFull
<1>4. ASSUME NEW u \in Users, NEW c \in holds[u], put_connection(u, c) PROVE LentInv'
  <2>1. /\ holds'[u] = holds[u] \ {c}
        /\ \A v \in Users : v # u => holds'[v] = holds[v]
        /\ holds' \in [Users -> SUBSET Connections]
    BY <1>4 DEF put_connection, LentInv, cpTypeOK
  <2>2. isused' = isused \ {c}
    BY <1>4 DEF put_connection
  <2>3. cpTypeOK' /\ TableInOrder' /\ HeldWereLent'
    BY <1>4, <2>1, <2>2 DEF put_connection, LentInv, cpTypeOK, TableInOrder, HeldWereLent
  <2>4. Exclusive'
    <3>1. \A v, w \in Users : v # w => holds'[v] \cap holds'[w] = {}
      BY <2>1 DEF LentInv, Exclusive
    <3>2. isused' = UNION {holds'[v] : v \in Users}
      BY <2>1, <2>2 DEF LentInv, Exclusive
    <3>. QED BY <1>4, <3>1, <3>2 DEF put_connection, LentInv, Exclusive
  <2>5. FreshUntilFull'
    BY <1>4 DEF put_connection, LentInv, FreshUntilFull
  <2>. QED BY <2>3, <2>4, <2>5 DEF LentInv
<1>5. CASE connection_pool_close
  <2>1. closed' \subseteq Connections
    BY <1>5 DEF connection_pool_close, LentInv, cpTypeOK
  <2>2. cpTypeOK' /\ TableInOrder' /\ HeldWereLent'
    BY <1>5, <2>1 DEF connection_pool_close, LentInv, cpTypeOK, TableInOrder, HeldWereLent
  <2>3. Exclusive' /\ FreshUntilFull'
    BY <1>5 DEF connection_pool_close, LentInv, Exclusive, FreshUntilFull
  <2>. QED BY <2>2, <2>3 DEF LentInv
<1>6. CASE UNCHANGED cpVars
  <2>1. cpTypeOK' /\ TableInOrder' /\ HeldWereLent'
    BY <1>6 DEF cpVars, LentInv, cpTypeOK, TableInOrder, HeldWereLent
  <2>2. Exclusive' /\ FreshUntilFull'
    BY <1>6 DEF cpVars, LentInv, Exclusive, FreshUntilFull
  <2>. QED BY <2>1, <2>2 DEF LentInv
<1>. QED
  BY <1>1, <1>2, <1>3, <1>4, <1>5, <1>6 DEF cpNext, get_connection

(* For any number of users: no connection is shared, the marks are right, *)
(* none is lost from the table, none is lent twice, and a refusal comes    *)
(* after MAXCONNECTION calls only.                                         *)
THEOREM PoolIsExclusive == cpSpec => [](Exclusive /\ FreshUntilFull)
<1>. USE PoolAssumption
<1>1. cpInit => LentInv
  BY LentInit
<1>2. LentInv /\ [cpNext]_cpVars => LentInv'
  BY LentNext
<1>3. LentInv => Exclusive /\ FreshUntilFull
  BY DEF LentInv
<1>. QED BY <1>1, <1>2, <1>3, PTL DEF cpSpec
=============================================================================
