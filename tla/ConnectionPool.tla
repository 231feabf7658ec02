---------------------------- MODULE ConnectionPool ----------------------------
(***************************************************************************)
(* connection_pool.c: connections to php-fpm, opened ahead and lent to     *)
(* users.  Connections are numbered as they are opened.  The pool is       *)
(* compiled in and called by nothing; its users here call it as its header *)
(* suggests: one puts back what it got, and the last one closes the pool.  *)
(* (cp before the usual names: PoolProofs extends ThreadPool beside it.)   *)
(***************************************************************************)
EXTENDS Naturals, FiniteSets

CONSTANTS Users, MINCONNECTION, MAXCONNECTION

NoConnection == 0
Slots == 0..(MAXCONNECTION - 1)
Connections == 1..MAXCONNECTION

ASSUME PoolAssumption ==
  MINCONNECTION \in Nat \ {0} /\ MAXCONNECTION \in Nat /\ MINCONNECTION <= MAXCONNECTION

VARIABLES
  curConnection,    \* connections in the pool
  usedConnection,   \* counts what get_connection lent
  cons,             \* slot -> connection
  isused,           \* connections that are marked so
  opened,           \* connections opened so far
  closed,           \* and those closed with the pool
  holds,            \* user -> connections it holds
  lent,             \* connections ever lent
  refused           \* get_connection has returned NULL

cpVars == <<curConnection, usedConnection, cons, isused, opened, closed, holds, lent, refused>>

cpTypeOK ==
  /\ curConnection \in 0..MAXCONNECTION /\ usedConnection \in 0..MAXCONNECTION
  /\ opened \in Nat /\ cons \in [Slots -> Connections \cup {NoConnection}]
  /\ isused \subseteq Connections /\ closed \subseteq Connections /\ lent \subseteq Connections
  /\ holds \in [Users -> SUBSET Connections] /\ refused \in BOOLEAN

\* connection_pool_create
cpInit ==
  /\ curConnection = MINCONNECTION /\ usedConnection = 0 /\ opened = MINCONNECTION
  /\ cons = [s \in Slots |-> IF s < MINCONNECTION THEN s + 1 ELSE NoConnection]
  /\ isused = {} /\ closed = {} /\ lent = {}
  /\ holds = [u \in Users |-> {}] /\ refused = FALSE

Exists == closed = {}

\* connection c goes to user u
Lend(u, c) ==
  /\ isused' = isused \cup {c} /\ lent' = lent \cup {c}
  /\ holds' = [holds EXCEPT ![u] = @ \cup {c}]
  /\ usedConnection' = usedConnection + 1
  /\ UNCHANGED <<closed, refused>>

\* Mutation: the search begins with the first slot
FromFirst(i) == i % curConnection

Probe(i) == (usedConnection + i) % curConnection

Free(i) == cons[Probe(i)] \notin isused

\* get_connection while fewer were lent than there are: the first slot with a
\* free one.  (There is always one, see FreshUntilFull: the NULL behind the
\* loop is never returned.)
GetIdle(u) ==
  /\ Exists /\ usedConnection < curConnection
  /\ \E i \in 0..(curConnection - 1) :
       /\ Free(i) /\ \A j \in 0..(i - 1) : ~ Free(j)
       /\ Lend(u, cons[Probe(i)])
  /\ UNCHANGED <<curConnection, cons, opened>>

\* Mutation: the new connection is not counted
Uncounted == curConnection

Counted == curConnection + 1

\* ... and once as many were lent as there are: one more is opened.
GetNew(u) ==
  /\ Exists /\ usedConnection >= curConnection /\ curConnection < MAXCONNECTION
  /\ opened' = opened + 1 /\ cons' = [cons EXCEPT ![curConnection] = opened + 1]
  /\ curConnection' = Counted
  /\ Lend(u, opened + 1)

\* The pool has as many connections as it may have.
GetRefused(u) ==
  /\ Exists /\ usedConnection >= curConnection /\ curConnection >= MAXCONNECTION
  /\ refused' = TRUE
  /\ UNCHANGED <<curConnection, usedConnection, cons, isused, opened, closed, holds, lent>>

get_connection(u) == GetIdle(u) \/ GetNew(u) \/ GetRefused(u)

\* usedConnection stays as it is.
put_connection(u, c) ==
  /\ Exists /\ c \in holds[u]
  /\ isused' = isused \ {c} /\ holds' = [holds EXCEPT ![u] = @ \ {c}]
  /\ UNCHANGED <<curConnection, usedConnection, cons, opened, closed, lent, refused>>

\* Nobody holds a connection any more.
connection_pool_close ==
  /\ Exists /\ \A u \in Users : holds[u] = {}
  /\ closed' = {cons[s] : s \in Slots} \ {NoConnection}
  /\ UNCHANGED <<curConnection, usedConnection, cons, isused, opened, holds, lent, refused>>

cpNext ==
  \/ \E u \in Users : get_connection(u) \/ \E c \in holds[u] : put_connection(u, c)
  \/ connection_pool_close

cpSpec == cpInit /\ [][cpNext]_cpVars
-----------------------------------------------------------------------------
(* Properties *)

\* No two users share a connection, one is marked used exactly while somebody
\* holds it, and every connection that was opened is in the table, where
\* connection_pool_close finds it.
Exclusive ==
  /\ \A u, v \in Users : u # v => holds[u] \cap holds[v] = {}
  /\ isused = UNION {holds[u] : u \in Users}
  /\ \A c \in 1..opened : \E s \in Slots : cons[s] = c

\* What put_connection gives back is never lent again: as usedConnection only
\* grows, the n-th get_connection returns the n-th connection, which nobody had
\* before, up to MAXCONNECTION of them; NULL comes after that, not before.
FreshUntilFull ==
  /\ lent = 1..usedConnection
  /\ usedConnection < curConnection => cons[usedConnection] \notin isused \cup {NoConnection}
  /\ refused => usedConnection = MAXCONNECTION
=============================================================================
