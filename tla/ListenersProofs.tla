-------------------------- MODULE ListenersProofs ---------------------------
(***************************************************************************)
(* The safety of the accept lock for any number of workers and connections *)
(* and any MAX_SERVE_FD_NUM.                                               *)
(***************************************************************************)
EXTENDS Listeners, TLAPS

\* A worker sleeps with the lock exactly when it has set isachieve_lock, and
\* one that sleeps, serves somebody and listens has the lock
LockInv ==
  /\ \A w \in Workers : isachieve_lock[w] <=> lock = w
  /\ \A w \in Workers : wpc[w] = "sleep" /\ isadd_listenfd[w] /\ ~Idle(w) => lock = w
  /\ \A w \in Workers : wpc[w] \in {"top", "handle", "dead"} => ~isadd_listenfd[w]

\* The events a worker has in hand are those of connections it serves
BatchInv == \A w \in Workers : batch[w] \cap Conns \subseteq Served(w)

IInv == /\ TypeOK /\ LockInv /\ BatchInv
        /\ SomebodyListens /\ OneBusyListener /\ LockHolderSleeps

\* At the start nobody has the lock, and nothing is accepted.
LEMMA InitIInv == Init => IInv
<1> SUFFICES ASSUME Init PROVE IInv  OBVIOUS
<1> USE NamesAssumption, LimitAssumption
<1>1. wpc \in [Workers -> Awake \cup {"sleep", "dead"}]
  BY DEF Init, Awake
<1>2. /\ isachieve_lock \in [Workers -> BOOLEAN] /\ isadd_listenfd \in [Workers -> BOOLEAN]
      /\ batch \in [Workers -> SUBSET (Conns \cup {Listen})]
      /\ owner \in [Conns -> Workers \cup {None, Pending}]
      /\ \A w \in Workers : batch[w] = {}
  BY DEF Init
<1>3. TypeOK
  BY <1>1, <1>2 DEF Init, TypeOK
<1>4. LockInv /\ BatchInv
  BY DEF Init, LockInv, BatchInv
<1>5. SomebodyListens /\ OneBusyListener /\ LockHolderSleeps
  <2>1. \A w \in Workers : wpc[w] # "sleep"
    BY DEF Init
  <2>2. Workers # {} => \E w \in Workers : wpc[w] # "sleep"
    BY <2>1
  <2> QED  BY <2>1, <2>2 DEF Init, SomebodyListens, OneBusyListener, LockHolderSleeps
<1> QED  BY <1>3, <1>4, <1>5 DEF IInv

\* The worker that takes a step leaves the others as they are
LEMMA OthersSame ==
  ASSUME TypeOK, BatchInv, NEW w \in Workers,
         Turn(w) \/ Accept(w) \/ Die(w) \/ Respawn(w)
  PROVE  \A v \in Workers \ {w} :
            /\ wpc'[v] = wpc[v] /\ isachieve_lock'[v] = isachieve_lock[v]
            /\ isadd_listenfd'[v] = isadd_listenfd[v] /\ batch'[v] = batch[v]
            /\ Served(v)' = Served(v)
<1> USE NamesAssumption
<1>1. \A v \in Workers \ {w} :
         /\ wpc'[v] = wpc[v] /\ isachieve_lock'[v] = isachieve_lock[v]
         /\ isadd_listenfd'[v] = isadd_listenfd[v] /\ batch'[v] = batch[v]
  BY DEF TypeOK, Turn, ListenFreely, StayAway, ListenLocked, LockIsTaken, Wake, Unlock,
         Remove, HandleConn, Accept, AcceptWouldBlock, EndOfBatch, Die, Respawn, Goes
<1>2. \A c \in Conns : \/ owner'[c] = owner[c]
                       \/ owner[c] \in {w, Pending} /\ owner'[c] \in {w, None}
  <2>1. CASE HandleConn(w)
    <3>1. PICK c \in batch[w] \cap Conns : owner' \in {owner, [owner EXCEPT ![c] = None]}
      BY <2>1 DEF HandleConn
    <3>2. owner[c] = w
      BY DEF BatchInv, Served
    <3> QED  BY <3>1, <3>2 DEF TypeOK
  <2>2. CASE Accept(w)
    BY <2>2 DEF Accept, Waiting, TypeOK
  <2>3. CASE Die(w)
    BY <2>3 DEF Die
  <2> QED
    BY <2>1, <2>2, <2>3
    DEF Turn, ListenFreely, StayAway, ListenLocked, LockIsTaken, Wake, Unlock,
        Remove, AcceptWouldBlock, EndOfBatch, Respawn
<1> QED  BY <1>1, <1>2 DEF Served

\* What the clients do changes nothing for the workers
LEMMA ClientsSame ==
  ASSUME TypeOK, NEW c \in Conns, Connect(c) \/ Act(c)
  PROVE  \A w \in Workers : Served(w)' = Served(w)
<1>1. \A d \in Conns : owner'[d] = owner[d] \/ (owner[d] = None /\ owner'[d] = Pending)
  BY DEF Connect, Act, TypeOK
<1> QED  BY <1>1, NamesAssumption DEF Served

\* The types
LEMMA NextTypeOK ==
  ASSUME IInv, [Next]_vars
  PROVE  TypeOK'
<1> USE NamesAssumption, LimitAssumption DEF IInv, TypeOK, Awake
<1>1. ASSUME NEW w \in Workers, ListenFreely(w) \/ StayAway(w) \/ ListenLocked(w) \/ LockIsTaken(w)
      PROVE  TypeOK'
  BY <1>1 DEF ListenFreely, StayAway, ListenLocked, LockIsTaken, Goes, Added
<1>2. ASSUME NEW w \in Workers, Wake(w) PROVE TypeOK'
  <2>1. Ready(w) \in SUBSET (Conns \cup {Listen})
    BY DEF Ready
  <2> QED  BY <1>2, <2>1 DEF Wake, Goes
<1>3. ASSUME NEW w \in Workers, Unlock(w) \/ Remove(w) \/ EndOfBatch(w) \/ Respawn(w)
      PROVE  TypeOK'
  BY <1>3 DEF Unlock, Remove, EndOfBatch, Respawn, Goes, Released, AddedAfterDel, Handled
<1>4. ASSUME NEW w \in Workers, HandleConn(w) PROVE TypeOK'
  <2>1. PICK c \in batch[w] \cap Conns :
           /\ batch' = [batch EXCEPT ![w] = @ \ {c}] /\ active' = active \ {c}
           /\ owner' \in {owner, [owner EXCEPT ![c] = None]}
    BY <1>4 DEF HandleConn
  <2> QED  BY <1>4, <2>1 DEF HandleConn
<1>5. ASSUME NEW w \in Workers, Accept(w) PROVE TypeOK'
  BY <1>5 DEF Accept, Waiting
<1>6. ASSUME NEW w \in Workers, AcceptWouldBlock(w) PROVE TypeOK'
  BY <1>6 DEF AcceptWouldBlock
<1>7. ASSUME NEW w \in Workers, Die(w) PROVE TypeOK'
  <2>1. owner' \in [Conns -> Workers \cup {None, Pending}] /\ active' \subseteq Conns
    BY <1>7 DEF Die
  <2>2. deaths' \in 0..MaxDeaths /\ lock' \in Workers \cup {None}
    BY <1>7 DEF Die
  <2> QED  BY <1>7, <2>1, <2>2 DEF Die, Goes
<1>8. ASSUME NEW c \in Conns, Connect(c) \/ Act(c) PROVE TypeOK'
  BY <1>8 DEF Connect, Act
<1>9. CASE UNCHANGED vars
  BY <1>9 DEF vars
<1> QED
  BY <1>1, <1>2, <1>3, <1>4, <1>5, <1>6, <1>7, <1>8, <1>9 DEF Next, Turn

\* A step that leaves the workers alone
LEMMA QuietStep ==
  ASSUME IInv, UNCHANGED <<wpc, lock, isachieve_lock, isadd_listenfd, batch>>,
         \A w \in Workers : Served(w)' = Served(w)
  PROVE  (LockInv /\ BatchInv /\ SomebodyListens /\ OneBusyListener /\ LockHolderSleeps)'
<1>1. \A w \in Workers : (Idle(w)' <=> Idle(w)) /\ (Full(w)' <=> Full(w))
  BY DEF Idle, Full, serve_fd_num
<1> QED
  BY <1>1 DEF IInv, LockInv, BatchInv, SomebodyListens, OneBusyListener, LockHolderSleeps

\* The turn of one worker
LEMMA WorkerStep ==
  ASSUME IInv, NEW w \in Workers, Turn(w) \/ Accept(w) \/ Die(w) \/ Respawn(w), TypeOK'
  PROVE  (LockInv /\ BatchInv /\ SomebodyListens /\ OneBusyListener /\ LockHolderSleeps)'
<1> USE NamesAssumption DEF IInv
<1>1. \A v \in Workers \ {w} :
         /\ wpc'[v] = wpc[v] /\ isachieve_lock'[v] = isachieve_lock[v]
         /\ isadd_listenfd'[v] = isadd_listenfd[v] /\ batch'[v] = batch[v]
         /\ Served(v)' = Served(v) /\ (Idle(v)' <=> Idle(v)) /\ (Full(v)' <=> Full(v))
  BY OthersSame DEF Idle, Full, serve_fd_num
<1>2. BatchInv'
  <2>1. CASE Wake(w)
    BY <1>1, <2>1 DEF Wake, Ready, BatchInv, Served, TypeOK
  <2>2. CASE HandleConn(w)
    <3>1. PICK c \in batch[w] \cap Conns :
             /\ batch' = [batch EXCEPT ![w] = @ \ {c}]
             /\ owner' \in {owner, [owner EXCEPT ![c] = None]}
      BY <2>2 DEF HandleConn
    <3>2. \A d \in Conns : d # c => owner'[d] = owner[d]
      BY <3>1 DEF TypeOK
    <3>3. batch'[w] = batch[w] \ {c}
      BY <3>1 DEF TypeOK
    <3> QED  BY <1>1, <3>2, <3>3 DEF BatchInv, Served
  <2>3. CASE Accept(w)
    BY <1>1, <2>3 DEF Accept, BatchInv, Served, Waiting, TypeOK
  <2>4. CASE Die(w)
    BY <1>1, <2>4 DEF Die, BatchInv, TypeOK
  <2>5. CASE /\ UNCHANGED owner
             /\ batch'[w] \subseteq batch[w]
    BY <1>1, <2>5 DEF BatchInv, Served
  <2> QED
    BY <2>1, <2>2, <2>3, <2>4, <2>5
    DEF Turn, ListenFreely, StayAway, ListenLocked, LockIsTaken, Unlock,
        Remove, AcceptWouldBlock, EndOfBatch, Respawn, TypeOK
<1>3. CASE ListenFreely(w) \/ StayAway(w) \/ ListenLocked(w) \/ LockIsTaken(w)
  <2>1. /\ wpc[w] = "top" /\ wpc'[w] = "sleep" /\ UNCHANGED <<batch, owner>>
        /\ ~isadd_listenfd[w] /\ lock # w /\ ~isachieve_lock[w]
    BY <1>3 DEF ListenFreely, StayAway, ListenLocked, LockIsTaken, Goes, TypeOK, LockInv,
                LockHolderSleeps
  <2>2. (Idle(w)' <=> Idle(w)) /\ (Full(w)' <=> Full(w))
    BY <2>1 DEF Idle, Full, serve_fd_num, Served
  <2>3. \/ /\ Idle(w) /\ isadd_listenfd'[w] /\ UNCHANGED <<lock, isachieve_lock>>
        \/ Full(w) /\ ~isadd_listenfd'[w] /\ UNCHANGED <<lock, isachieve_lock>>
        \/ /\ lock = None /\ lock' = w /\ isachieve_lock'[w] /\ isadd_listenfd'[w]
        \/ /\ lock \notin {None, w} /\ ~isadd_listenfd'[w] /\ UNCHANGED <<lock, isachieve_lock>>
    BY <1>3, <2>1 DEF ListenFreely, StayAway, ListenLocked, LockIsTaken, LockIsFree, Added, TypeOK
  <2>4. LockInv'
    BY <1>1, <2>1, <2>2, <2>3 DEF LockInv
  <2>5. LockHolderSleeps'
    BY <1>1, <2>1, <2>3 DEF LockHolderSleeps, TypeOK
  <2>6. SomebodyListens'
    BY <1>1, <2>1, <2>2, <2>3 DEF SomebodyListens, LockHolderSleeps, TypeOK
  <2>7. OneBusyListener'
    BY <2>4 DEF OneBusyListener, LockInv
  <2> QED  BY <1>2, <2>4, <2>5, <2>6, <2>7
<1>4. CASE Die(w) \/ Wake(w) \/ Unlock(w) \/ Remove(w) \/ HandleConn(w) \/ Accept(w)
             \/ AcceptWouldBlock(w) \/ EndOfBatch(w) \/ Respawn(w)
  <2>1. wpc'[w] # "sleep"
    BY <1>4 DEF Die, Wake, Unlock, Remove, HandleConn, Accept, AcceptWouldBlock, EndOfBatch,
                Respawn, Goes, TypeOK
  <2>2. \/ UNCHANGED lock /\ UNCHANGED isachieve_lock /\ (lock # w \/ Wake(w))
        \/ lock' # w /\ ~isachieve_lock'[w] /\ (lock' = lock \/ (lock = w /\ lock' = None))
    BY <1>4 DEF Die, Wake, Unlock, Remove, HandleConn, Accept, AcceptWouldBlock, EndOfBatch,
                Respawn, Goes, Released, LockInv, LockHolderSleeps, TypeOK
  <2>3. /\ wpc'[w] \in {"top", "handle", "dead"} => ~isadd_listenfd'[w]
        /\ Wake(w) => wpc'[w] = "woken" /\ isadd_listenfd'[w] = isadd_listenfd[w]
    BY <1>4 DEF Die, Wake, Unlock, Remove, HandleConn, Accept, AcceptWouldBlock, EndOfBatch,
                Respawn, Goes, AddedAfterDel, LockInv, TypeOK
  <2>4. LockInv'
    BY <1>1, <2>1, <2>2, <2>3 DEF LockInv, TypeOK
  <2>5. LockHolderSleeps'
    BY <1>1, <2>1, <2>2, <2>3 DEF LockHolderSleeps, LockInv, TypeOK
  <2>6. SomebodyListens'
    BY <2>1 DEF SomebodyListens
  <2>7. OneBusyListener'
    BY <2>4 DEF OneBusyListener, LockInv
  <2> QED  BY <1>2, <2>4, <2>5, <2>6, <2>7
<1> QED  BY <1>3, <1>4 DEF Turn

\* For any number of workers and connections and any limit: whatever the order
\* in which the workers take and release the lock, die and come back, somebody
\* listens while all sleep unless a worker is full, at most one worker that
\* serves clients listens, and the lock is never left with a busy worker.
THEOREM AcceptLockSafe ==
  Spec => [](TypeOK /\ SomebodyListens /\ OneBusyListener /\ LockHolderSleeps)
<1>1. ASSUME IInv, [Next]_vars PROVE IInv'
  <2>1. TypeOK'
    BY <1>1, NextTypeOK
  <2>2. ASSUME NEW w \in Workers, Turn(w) \/ Accept(w) \/ Die(w) \/ Respawn(w) PROVE IInv'
    BY <1>1, <2>1, <2>2, WorkerStep DEF IInv
  <2>3. ASSUME NEW c \in Conns, Connect(c) \/ Act(c) PROVE IInv'
    <3>1. UNCHANGED <<wpc, lock, isachieve_lock, isadd_listenfd, batch>>
      BY <2>3 DEF Connect, Act
    <3>2. \A w \in Workers : Served(w)' = Served(w)
      BY <1>1, <2>3, ClientsSame DEF IInv
    <3> QED  BY <1>1, <2>1, <3>1, <3>2, QuietStep DEF IInv
  <2>4. CASE UNCHANGED vars
    <3>1. \A w \in Workers : Served(w)' = Served(w)
      BY <2>4 DEF vars, Served
    <3> QED  BY <1>1, <2>1, <2>4, <3>1, QuietStep DEF IInv, vars
  <2> QED  BY <1>1, <2>2, <2>3, <2>4 DEF Next
<1>2. IInv => TypeOK /\ SomebodyListens /\ OneBusyListener /\ LockHolderSleeps
  BY DEF IInv
<1> QED  BY <1>1, <1>2, InitIInv, PTL DEF Spec

=============================================================================
