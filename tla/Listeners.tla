------------------------------ MODULE Listeners ------------------------------
(***************************************************************************)
(* The workers against each other: who has the listening socket in its     *)
(* epoll set while it sleeps, under the file lock and MAX_SERVE_FD_NUM.    *)
(* What a worker does to one connection is the module Worker; here an      *)
(* event, or a timer, lets a connection live on or end.                    *)
(*                                                                         *)
(* Bounds: Conns connections at a time, MaxDeaths workers that die.        *)
(***************************************************************************)
EXTENDS Integers, FiniteSets

CONSTANTS Workers, Conns,
          MAX_SERVE_FD_NUM, MaxDeaths,
          Listen,       \* the listening socket
          None,         \* no worker; no connection
          Pending       \* in the listen queue

ASSUME NamesAssumption == Workers # {} /\ None \notin Workers
                            /\ Pending \notin Workers \cup {None} /\ Listen \notin Conns
ASSUME LimitAssumption == MAX_SERVE_FD_NUM \in Nat \ {0} /\ MaxDeaths \in Nat

VARIABLES wpc,              \* where each worker is in its loop
          lock,             \* the owner of the write lock on the lock file
          isachieve_lock, isadd_listenfd,
          batch,            \* what epoll_wait has returned and is not handled yet
          owner,            \* None, Pending, or the worker that accepted it
          active,           \* the connections with an event or a timer to handle
          deaths

vars == <<wpc, lock, isachieve_lock, isadd_listenfd, batch, owner, active, deaths>>

Awake == {"top", "woken", "unlocked", "handle"}

TypeOK ==
  /\ wpc \in [Workers -> Awake \cup {"sleep", "dead"}]
  /\ lock \in Workers \cup {None}
  /\ isachieve_lock \in [Workers -> BOOLEAN] /\ isadd_listenfd \in [Workers -> BOOLEAN]
  /\ owner \in [Conns -> Workers \cup {None, Pending}]
  /\ active \subseteq Conns
  /\ deaths \in 0..MaxDeaths
  /\ batch \in [Workers -> SUBSET (Conns \cup {Listen})]
  /\ \A w \in Workers : batch[w] # {} => wpc[w] \in {"woken", "unlocked", "handle"}

\* The connections a worker serves; serve_fd_num counts them (Worker!ServeCount)
Served(w)    == {c \in Conns : owner[c] = w}
serve_fd_num(w) == Cardinality(Served(w))
Waiting      == {c \in Conns : owner[c] = Pending}

Init ==
  /\ wpc = [w \in Workers |-> "top"]
  /\ lock = None
  /\ isachieve_lock = [w \in Workers |-> FALSE]
  /\ isadd_listenfd = [w \in Workers |-> FALSE]
  /\ batch = [w \in Workers |-> {}]
  /\ owner = [c \in Conns |-> None]
  /\ active = {} /\ deaths = 0

-----------------------------------------------------------------------------
(* A turn of workerloop *)

Goes(w, at) == wpc' = [wpc EXCEPT ![w] = at]

Idle(w) == serve_fd_num(w) = 0

\* Nobody to serve: the listening socket is added without the lock
ListenFreely(w) ==
  /\ wpc[w] = "top" /\ Idle(w)
  /\ isadd_listenfd' = [isadd_listenfd EXCEPT ![w] = TRUE]
  /\ Goes(w, "sleep")
  /\ UNCHANGED <<lock, isachieve_lock, batch, owner, active, deaths>>

\* Too many to serve: the listening socket is left to the others
Full(w) == serve_fd_num(w) > MAX_SERVE_FD_NUM

StayAway(w) ==
  /\ wpc[w] = "top" /\ Full(w)
  /\ Goes(w, "sleep")
  /\ UNCHANGED <<lock, isachieve_lock, isadd_listenfd, batch, owner, active, deaths>>

\* fcntl(F_SETLK) succeeds
LockIsFree(w) == lock \in {None, w}

\* Mutation: the socket is not added
NotAdded(w) == isadd_listenfd[w]

Added(w) == TRUE

\* Otherwise the listening socket goes to the worker that gets the lock
ListenLocked(w) ==
  /\ wpc[w] = "top" /\ ~Idle(w) /\ ~Full(w) /\ LockIsFree(w)
  /\ lock' = w
  /\ isachieve_lock' = [isachieve_lock EXCEPT ![w] = TRUE]
  /\ isadd_listenfd' = [isadd_listenfd EXCEPT ![w] = Added(w)]
  /\ Goes(w, "sleep")
  /\ UNCHANGED <<batch, owner, active, deaths>>

LockIsTaken(w) ==
  /\ wpc[w] = "top" /\ ~Idle(w) /\ ~Full(w) /\ ~LockIsFree(w)
  /\ Goes(w, "sleep")
  /\ UNCHANGED <<lock, isachieve_lock, isadd_listenfd, batch, owner, active, deaths>>

\* epoll_wait returns: the listening socket is ready as long as somebody waits
\* in its queue
Ready(w) == (active \cap Served(w))
              \cup (IF isadd_listenfd[w] /\ Waiting # {} THEN {Listen} ELSE {})

Wake(w) ==
  /\ wpc[w] = "sleep" /\ Ready(w) # {}
  /\ batch' = [batch EXCEPT ![w] = Ready(w)]
  /\ Goes(w, "woken")
  /\ UNCHANGED <<lock, isachieve_lock, isadd_listenfd, owner, active, deaths>>

\* Mutation: the lock is kept while the events are handled
KeepsLock(w) == lock

Released(w) == IF isachieve_lock[w] THEN None ELSE lock

Unlock(w) ==
  /\ wpc[w] = "woken"
  /\ lock' = Released(w)
  /\ isachieve_lock' = [isachieve_lock EXCEPT ![w] = FALSE]
  /\ Goes(w, "unlocked")
  /\ UNCHANGED <<isadd_listenfd, batch, owner, active, deaths>>

\* Mutation: the listening socket stays in the epoll set
StaysAdded(w) == isadd_listenfd[w]

AddedAfterDel(w) == FALSE

Remove(w) ==
  /\ wpc[w] = "unlocked"
  /\ isadd_listenfd' = [isadd_listenfd EXCEPT ![w] = AddedAfterDel(w)]
  /\ Goes(w, "handle")
  /\ UNCHANGED <<lock, isachieve_lock, batch, owner, active, deaths>>

\* The event of a connection is handled: it goes on or is closed
HandleConn(w) ==
  /\ wpc[w] = "handle"
  /\ \E c \in batch[w] \cap Conns :
       /\ batch' = [batch EXCEPT ![w] = @ \ {c}]
       /\ active' = active \ {c}
       /\ owner' \in {owner, [owner EXCEPT ![c] = None]}
  /\ UNCHANGED <<wpc, lock, isachieve_lock, isadd_listenfd, deaths>>

\* accept() takes a connection, unless another worker was faster
Accept(w) ==
  /\ wpc[w] = "handle" /\ Listen \in batch[w]
  /\ \E c \in Waiting : owner' = [owner EXCEPT ![c] = w]
  /\ UNCHANGED <<wpc, lock, isachieve_lock, isadd_listenfd, batch, active, deaths>>

AcceptWouldBlock(w) ==
  /\ wpc[w] = "handle" /\ Listen \in batch[w] /\ Waiting = {}
  /\ batch' = [batch EXCEPT ![w] = @ \ {Listen}]
  /\ UNCHANGED <<wpc, lock, isachieve_lock, isadd_listenfd, owner, active, deaths>>

Handled(w) == batch[w] = {}

EndOfBatch(w) ==
  /\ wpc[w] = "handle" /\ Handled(w)
  /\ Goes(w, "top")
  /\ UNCHANGED <<lock, isachieve_lock, isadd_listenfd, batch, owner, active, deaths>>

-----------------------------------------------------------------------------
(* The death of a worker, and the one the master forks in its place *)

\* The kernel closes its sockets and gives its lock back
Die(w) ==
  /\ wpc[w] # "dead" /\ deaths < MaxDeaths
  /\ deaths' = deaths + 1
  /\ Goes(w, "dead")
  /\ lock' = IF lock = w THEN None ELSE lock
  /\ isachieve_lock' = [isachieve_lock EXCEPT ![w] = FALSE]
  /\ isadd_listenfd' = [isadd_listenfd EXCEPT ![w] = FALSE]
  /\ batch' = [batch EXCEPT ![w] = {}]
  /\ active' = active \ Served(w)
  /\ owner' = [c \in Conns |-> IF owner[c] = w THEN None ELSE owner[c]]

Respawn(w) ==
  /\ wpc[w] = "dead" /\ Goes(w, "top")
  /\ UNCHANGED <<lock, isachieve_lock, isadd_listenfd, batch, owner, active, deaths>>

-----------------------------------------------------------------------------
(* The clients, and the timers of the connections *)

Connect(c) ==
  /\ owner[c] = None /\ owner' = [owner EXCEPT ![c] = Pending]
  /\ UNCHANGED <<wpc, lock, isachieve_lock, isadd_listenfd, batch, active, deaths>>

Act(c) ==
  /\ owner[c] \in Workers /\ c \notin active /\ active' = active \cup {c}
  /\ UNCHANGED <<wpc, lock, isachieve_lock, isadd_listenfd, batch, owner, deaths>>

Turn(w) ==
  \/ ListenFreely(w) \/ StayAway(w) \/ ListenLocked(w) \/ LockIsTaken(w)
  \/ Wake(w) \/ Unlock(w) \/ Remove(w)
  \/ HandleConn(w) \/ AcceptWouldBlock(w) \/ EndOfBatch(w)

Next ==
  \/ \E w \in Workers : Turn(w) \/ Accept(w) \/ Die(w) \/ Respawn(w)
  \/ \E c \in Conns : Connect(c) \/ Act(c)

Spec == Init /\ [][Next]_vars

\* A worker that is awake runs, and the master replaces a dead one
FairSpec ==
  /\ Spec
  /\ \A w \in Workers : WF_vars(Turn(w) \/ Accept(w)) /\ WF_vars(Respawn(w))
-----------------------------------------------------------------------------
(* Properties *)

\* The workers never all sleep with nobody listening, in whatever order they
\* release the lock, die and come back, unless one of them is full: a full
\* worker may have been the one the others had left the listening socket to.
SomebodyListens ==
  (\A w \in Workers : wpc[w] = "sleep") =>
     \E w \in Workers : isadd_listenfd[w] \/ Full(w)

\* Of the workers that serve clients at most one waits for new ones, so that a
\* connection wakes one of them: the purpose of the lock.
OneBusyListener ==
  LET busy == {w \in Workers : wpc[w] = "sleep" /\ isadd_listenfd[w] /\ ~Idle(w)}
  IN  \A v, w \in busy : v = w

\* The lock is never held by a worker that is busy or dead: only by one that
\* sleeps with the listening socket, or is about to give it back.
LockHolderSleeps ==
  lock # None => /\ wpc[lock] \in {"sleep", "woken"} /\ isachieve_lock[lock]
                 /\ isadd_listenfd[lock]

\* A connection in the listen queue is accepted, although workers die, pass
\* the lock on and are busy with their own clients, unless a worker is full.
PendingAccepted ==
  \A c \in Conns : (owner[c] = Pending) ~> (owner[c] # Pending \/ \E w \in Workers : Full(w))
=============================================================================
