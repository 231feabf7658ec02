------------------------------- MODULE Worker -------------------------------
(***************************************************************************)
(* One worker process of dlyhttpd: the event loop of workerloop, the       *)
(* accepting coroutine acceptfun, one coroutine per connection running     *)
(* dorequest, and the timer queue of timer.c.  The coroutines come from    *)
(* module CoroutineSpec, the contract that module Coroutine implements.    *)
(* A connection's bytes are abstracted to segments, each of a kind:        *)
(*   part   more of a request, which it does not complete                  *)
(*   keep   the end of a request answered with Connection: keep-alive      *)
(*   last   the end of a request answered and closed (no keep-alive,       *)
(*          OPTIONS, an error page), or a syntax error                     *)
(*   nodot  the end of a request for a file whose name has no dot          *)
(* The kernel's edge-triggered epoll, the listen queue and the clients     *)
(* are the environment; so are the other workers, which compete for the    *)
(* lock and for pending connections.                                       *)
(***************************************************************************)
EXTENDS Integers, Sequences, FiniteSets

CONSTANTS
    Conns,              \* connections, each used once
    Reqs,               \* blocks malloc may return for an http_request_t
    Timers,             \* blocks malloc may return for a timer_node_t
    CoIds,              \* ids coroutine_new may return
    Kinds,              \* the kinds of segment the clients send
    MAX_BUF,            \* segments a request buffer holds
    TIMEOUT_DEFAULT,    \* ticks a kept-alive connection may stay
    MAX_SERVE_FD_NUM,   \* connections above which a worker stops accepting
    MaxEvents,          \* events one epoll_wait returns at most
    MaxSends,           \* bound: segments each client sends
    NULL

AcceptId == 0           \* co1, the first coroutine of the scheduler
Infinite == -1          \* TIMER_INFINITE

ASSUME WorkerAssumption ==
    /\ CoIds \subseteq Nat /\ AcceptId \in CoIds
    /\ MAX_BUF \in Nat \ {0}
    /\ TIMEOUT_DEFAULT \in Nat \ {0}
    /\ MAX_SERVE_FD_NUM \in Nat
    /\ MaxEvents \in Nat \ {0}
    /\ MaxSends \in [Conns -> Nat]
    /\ Kinds \subseteq {"part", "keep", "last", "nodot"}
    /\ NULL \notin Conns \cup Reqs \cup Timers

VARIABLES
    task, current,      \* the coroutines, see CoroutineSpec
    pc,                 \* where the event loop is
    isexit,             \* set by changestate_handler
    isadd_listenfd,     \* listenfd is in the epoll set
    isachieve_lock,     \* this process holds the file lock
    serve_fd_num,
    time,               \* the timeout epoll_wait_new was called with
    deadline,           \* ticks until the epoll_wait under way times out, or Infinite
    events,             \* coroutine ids epoll_wait returned, not resumed yet
    req,                \* the http_request_t blocks in use
    node,               \* the timer_node_t blocks in use, all in the heap
    cstate,             \* where each connection is
    peer,               \* "gone" once the client has closed or reset it
    rx,                 \* segments received and not read
    et,                 \* epoll set: watched connection -> coroutine id
    edge,               \* connections with an edge epoll has not reported
    sent                \* segments each client has sent

loopVars == <<pc, isexit, isadd_listenfd, isachieve_lock, serve_fd_num, time, deadline,
              events>>
memVars == <<req, node>>
netVars == <<cstate, peer, rx, et, edge, sent>>
coVars == <<task, current>>
vars == <<task, current, pc, isexit, isadd_listenfd, isachieve_lock, serve_fd_num, time,
          deadline, events, req, node, cstate, peer, rx, et, edge, sent>>

\* The locals of acceptfun or dorequest that live across a yield, and where
\* the function goes on.
Frames == [at : {"start", "read", "eagain", "keepalive"},
           fd : Conns \cup {NULL}, req : Reqs \cup {NULL}]
AcceptFrame == [at |-> "start", fd |-> NULL, req |-> NULL]

Co == INSTANCE CoroutineSpec
NoCo == Co!NoCo
Live == DOMAIN task
alloc == DOMAIN req
queue == DOMAIN node
Open == {c \in Conns : cstate[c] = "open"}

Request == [fd : Conns, coid : CoIds, timer : Timers \cup {NULL}, len : 0..MAX_BUF]
TimerNode == [left : 0..TIMEOUT_DEFAULT, istimeout : BOOLEAN, ud : Reqs]

TypeOK ==
    /\ Co!CoTypeOK
    /\ pc \in {"top", "wait", "timers", "events", "exited"}
    /\ isexit \in BOOLEAN /\ isadd_listenfd \in BOOLEAN /\ isachieve_lock \in BOOLEAN
    /\ serve_fd_num \in Nat
    /\ {time, deadline} \subseteq 0..TIMEOUT_DEFAULT \cup {Infinite}
    /\ events \subseteq CoIds
    /\ alloc \subseteq Reqs /\ req \in [alloc -> Request]
    /\ queue \subseteq Timers /\ node \in [queue -> TimerNode]
    /\ cstate \in [Conns -> {"idle", "backlog", "open", "closed", "elsewhere"}]
    /\ peer \in [Conns -> {"open", "gone"}]
    /\ rx \in [Conns -> Seq(Kinds)]
    /\ DOMAIN et \subseteq Conns /\ et \in [DOMAIN et -> CoIds]
    /\ edge \subseteq Conns
    /\ sent \in [Conns -> Nat]

\* workerloop up to its loop: nothing in the epoll set, no timer, and the
\* accepting coroutine ready to run.
Init ==
    /\ task = [id \in {AcceptId} |-> [status |-> "READY", frame |-> AcceptFrame]]
    /\ current = NoCo
    /\ pc = "top" /\ isexit = FALSE
    /\ isadd_listenfd = FALSE /\ isachieve_lock = FALSE
    /\ serve_fd_num = 0 /\ time = Infinite /\ deadline = Infinite /\ events = {}
    /\ req = [r \in {} |-> {}]
    /\ node = [t \in {} |-> {}]
    /\ cstate = [c \in Conns |-> "idle"]
    /\ peer = [c \in Conns |-> "open"]
    /\ rx = [c \in Conns |-> <<>>]
    /\ et = [c \in {} |-> AcceptId] /\ edge = {}
    /\ sent = [c \in Conns |-> 0]

----------------------------------------------------------------------------
(* The timer queue (timer.c), ordered by expiry; nodes that expire         *)
(* together come in any order.                                             *)

Armed == {t \in queue : ~ node[t].istimeout}

\* t may be heap_top once the nodes in gone are deleted.
IsTop(t, gone) == \A u \in queue \ gone : node[t].left <= node[u].left

\* What both functions of timer.c do first: delete and free the nodes on
\* top of the heap while they are marked, until an armed one is on top.
Prunes(gone) ==
    /\ gone \subseteq queue \ Armed
    /\ \A g \in gone, t \in Armed : node[g].left <= node[t].left
    /\ queue \ gone # {} => \E t \in Armed : IsTop(t, gone)

Kept(gone) == [t \in queue \ gone |-> node[t]]

----------------------------------------------------------------------------
(* The event loop (workerloop), running while no coroutine does.           *)

Loop(at) == pc = at /\ current = NoCo

\* The process is gone, and the kernel closes what it held.
ProcessExit ==
    /\ pc' = "exited"
    /\ cstate' = [c \in Conns |-> IF c \in Open THEN "closed" ELSE cstate[c]]
    /\ isadd_listenfd' = FALSE /\ isachieve_lock' = FALSE
    /\ serve_fd_num' = 0 /\ time' = Infinite /\ deadline' = Infinite /\ events' = {}
    /\ task' = [id \in {} |-> {}] /\ current' = NoCo
    /\ req' = [r \in {} |-> {}] /\ node' = [t \in {} |-> {}]
    /\ et' = [c \in {} |-> AcceptId] /\ edge' = {}
    /\ UNCHANGED <<isexit, peer, rx, sent>>

ExitLoop ==
    /\ Loop("top") /\ isexit
    /\ ProcessExit

\* Mutation: epoll_wait sleeps as if there were no timer.
NeverWakes(gone) == Infinite

\* get_timeout_node_time: how long epoll_wait may sleep.
TimeoutOf(gone) ==
    IF queue = gone THEN Infinite
    ELSE node[CHOOSE t \in queue \ gone : IsTop(t, gone)].left

\* Whether this worker listens: an idle one always, a full one never, any
\* other one if it gets the lock, which another worker may hold.
ListenDecision ==
    \/ /\ serve_fd_num = 0
       /\ isadd_listenfd' = TRUE /\ UNCHANGED isachieve_lock
    \/ /\ serve_fd_num > MAX_SERVE_FD_NUM
       /\ UNCHANGED <<isadd_listenfd, isachieve_lock>>
    \/ /\ serve_fd_num \in 1..MAX_SERVE_FD_NUM
       /\ \E rc \in BOOLEAN : isachieve_lock' = rc /\ isadd_listenfd' = rc

\* Mutation: the flag is not looked at again.
IgnoresExit == TRUE

GoesOn == ~ isexit

PrepareWait ==
    /\ Loop("top") /\ GoesOn
    /\ \E gone \in SUBSET queue :
           /\ Prunes(gone)
           /\ node' = Kept(gone)
           /\ time' = TimeoutOf(gone) /\ deadline' = time'
    /\ ListenDecision
    /\ pc' = "wait"
    /\ UNCHANGED <<isexit, serve_fd_num, events, coVars, req, netVars>>

\* A read of connection c would not block.
Readable(c) == rx[c] # <<>> \/ peer[c] = "gone"

\* What epoll_wait has to report.
Reported == {et[c] : c \in {w \in DOMAIN et \cap edge : Readable(w)}}
Backlog == {c \in Conns : cstate[c] = "backlog"}
Ready == Reported \cup (IF isadd_listenfd /\ Backlog # {} THEN {AcceptId} ELSE {})

\* epoll_wait returns; the lock is released, listenfd leaves the epoll set.
WaitReturn ==
    /\ Loop("wait")
    /\ Ready # {} \/ deadline = 0
    /\ \E batch \in SUBSET Ready :
           /\ Cardinality(batch) <= MaxEvents
           /\ batch = Ready \/ Cardinality(batch) = MaxEvents
           /\ events' = batch
           /\ edge' = {c \in edge : ~ (c \in DOMAIN et /\ Readable(c) /\ et[c] \in batch)}
    /\ time' = Infinite /\ deadline' = Infinite
    /\ isachieve_lock' = FALSE /\ isadd_listenfd' = FALSE
    /\ pc' = "timers"
    /\ UNCHANGED <<isexit, serve_fd_num, coVars, memVars, cstate, peer, rx, et, sent>>

\* Mutation: whatever is on top is taken for expired.
TopExpired(t) == TRUE

\* handle_timeout_node, and the resume of the coroutine it names.
Expired(t) == node[t].left = 0

TimeoutFires ==
    /\ Loop("timers")
    /\ \E gone \in SUBSET queue, t \in Armed :
           /\ Prunes(gone) /\ IsTop(t, gone) /\ Expired(t)
           /\ node' = [Kept(gone) EXCEPT ![t].istimeout = TRUE]
           /\ Co!Resume(req[node[t].ud].coid)
    /\ pc' = "events"
    /\ UNCHANGED <<isexit, isadd_listenfd, isachieve_lock, serve_fd_num, time, deadline, events,
                   req, netVars>>

NoTimeout ==
    /\ Loop("timers")
    /\ \E gone \in SUBSET queue :
           /\ Prunes(gone)
           /\ \A t \in Armed : ~ Expired(t)
           /\ node' = Kept(gone)
    /\ pc' = "events"
    /\ UNCHANGED <<isexit, isadd_listenfd, isachieve_lock, serve_fd_num, time, deadline, events,
                   coVars, req, netVars>>

\* The loop over et->events; a resume of a coroutine that has returned in
\* the meantime does nothing.
Dispatch(id) ==
    /\ Loop("events") /\ id \in events
    /\ events' = events \ {id}
    /\ IF id \in Live THEN Co!Resume(id) ELSE UNCHANGED coVars
    /\ UNCHANGED <<pc, isexit, isadd_listenfd, isachieve_lock, serve_fd_num, time, deadline,
                   memVars, netVars>>

EndOfBatch ==
    /\ Loop("events") /\ events = {}
    /\ pc' = "top"
    /\ UNCHANGED <<isexit, isadd_listenfd, isachieve_lock, serve_fd_num, time, deadline, events,
                   coVars, memVars, netVars>>

----------------------------------------------------------------------------
(* acceptfun, the coroutine AcceptId.                                      *)

init_request_t(c, id) == [fd |-> c, coid |-> id, timer |-> NULL, len |-> 0]

AcceptConn(c) ==
    /\ current = AcceptId /\ cstate[c] = "backlog"
    /\ \E r \in Reqs \ alloc, id \in CoIds \ Live :
           /\ Co!New(id, [at |-> "start", fd |-> NULL, req |-> r])
           /\ req' = [x \in alloc \cup {r} |->
                         IF x = r THEN init_request_t(c, id) ELSE req[x]]
           /\ et' = [x \in DOMAIN et \cup {c} |-> IF x = c THEN id ELSE et[x]]
    /\ edge' = IF Readable(c) THEN edge \cup {c} ELSE edge
    /\ cstate' = [cstate EXCEPT ![c] = "open"]
    /\ serve_fd_num' = serve_fd_num + 1
    /\ UNCHANGED <<pc, isexit, isadd_listenfd, isachieve_lock, time, deadline, events, node,
                   peer, rx, sent>>

AcceptWouldBlock ==
    /\ current = AcceptId /\ Backlog = {}
    /\ Co!Yield(AcceptFrame)
    /\ UNCHANGED <<loopVars, memVars, netVars>>

\* Any error but EAGAIN ends the process at once: an aborted connection, or
\* no descriptor left, which accept finds out before it looks for one.
AcceptFails ==
    /\ current = AcceptId
    /\ ProcessExit

----------------------------------------------------------------------------
(* dorequest, the coroutine of one connection.                             *)

Frame == task[current].frame
In(at) == current \notin {NoCo, AcceptId} /\ Frame.at = at

\* Request r is over: its timer, if it has one, is marked for deletion.
MarkTimer(r) ==
    IF req[r].timer = NULL THEN node ELSE [node EXCEPT ![req[r].timer].istimeout = TRUE]

\* Mutation: the connection stays counted.
StillServed == serve_fd_num

CountAfterClose == serve_fd_num - 1

\* Every path to the label close.
CloseConn ==
    /\ node' = MarkTimer(Frame.req)
    /\ req' = [r \in alloc \ {Frame.req} |-> req[r]]
    /\ cstate' = [cstate EXCEPT ![Frame.fd] = "closed"]
    /\ rx' = [rx EXCEPT ![Frame.fd] = <<>>]
    /\ et' = [c \in DOMAIN et \ {Frame.fd} |-> et[c]]
    /\ edge' = edge \ {Frame.fd}
    /\ serve_fd_num' = CountAfterClose
    /\ Co!Return
    /\ UNCHANGED <<pc, isexit, isadd_listenfd, isachieve_lock, time, deadline, events, peer, sent>>

Goto(f) ==
    /\ Co!Step(f)
    /\ UNCHANGED <<loopVars, memVars, netVars>>

Start ==
    /\ In("start")
    /\ Goto([Frame EXCEPT !.at = "read", !.fd = req[Frame.req].fd])

TimedOut == req[Frame.req].timer # NULL /\ node[req[Frame.req].timer].istimeout

AfterYield ==
    /\ In("eagain") \/ In("keepalive")
    /\ IF TimedOut THEN CloseConn ELSE Goto([Frame EXCEPT !.at = "read"])

\* What a read into the rest of the request's buffer takes.
Unread == rx[Frame.fd]
Room == MAX_BUF - req[Frame.req].len

\* Mutation: the read is not limited to the room left in the buffer.
AllUnread == Len(Unread)

Taken == IF Len(Unread) <= Room THEN Len(Unread) ELSE Room

\* The segments taken so far parse to DLY_EAGAIN, or the first that does
\* not is of the given kind.
Incomplete == \A i \in 1..Taken : Unread[i] = "part"
Completes(kind) == \E i \in 1..Taken : Unread[i] = kind /\ \A j \in 1..(i - 1) : Unread[j] = "part"

\* End of file and errors close the connection; so does a full buffer, for
\* which the read asks for no byte and returns 0 too.
ReadEnds ==
    /\ In("read")
    /\ Room = 0 \/ (Unread = <<>> /\ peer[Frame.fd] = "gone")
    /\ CloseConn

ReadWouldBlock ==
    /\ In("read")
    /\ Room > 0 /\ Unread = <<>> /\ peer[Frame.fd] = "open"
    /\ Co!Yield([Frame EXCEPT !.at = "eagain"])
    /\ UNCHANGED <<loopVars, memVars, netVars>>

\* Mutation: the coroutine yields after every read.
YieldAfterPart == Co!Yield([Frame EXCEPT !.at = "eagain"])

AfterPart == Co!Step(Frame)

ReadPart ==
    /\ In("read")
    /\ Taken > 0 /\ Incomplete
    /\ req' = [req EXCEPT ![Frame.req].len = @ + Taken]
    /\ rx' = [rx EXCEPT ![Frame.fd] = SubSeq(@, Taken + 1, Len(@))]
    /\ AfterPart
    /\ UNCHANGED <<loopVars, node, cstate, peer, et, edge, sent>>

ReadLast ==
    /\ In("read") /\ Completes("last")
    /\ CloseConn

\* rindex finds no dot and strcmp is given NULL: the worker dies of SIGSEGV.
ReadNodot ==
    /\ In("read") /\ Completes("nodot")
    /\ ProcessExit

\* Mutation: the copy does not say which coroutine serves it.
CopyWithoutCoid(old, t) == [fd |-> old.fd, coid |-> AcceptId, timer |-> t, len |-> 0]

\* The request that takes its place, whose timer add_timer returned.
init_request_t_copy(old, t) == [fd |-> old.fd, coid |-> old.coid, timer |-> t, len |-> 0]

add_timer(r) == [left |-> TIMEOUT_DEFAULT, istimeout |-> FALSE, ud |-> r]

\* Mutation: the timer of the request before stays armed.
LeftArmed(r) == node

RetireTimer(r) == MarkTimer(r)

\* The answer is written, the request is replaced by a fresh one (what was
\* read beyond its end is dropped), a timer is added, and the coroutine
\* yields without reading until EAGAIN.
ReadKeep ==
    /\ In("read") /\ Completes("keep")
    /\ \E new \in Reqs \ alloc, t \in Timers \ queue :
           /\ node' = [x \in queue \cup {t} |->
                          IF x = t THEN add_timer(new) ELSE RetireTimer(Frame.req)[x]]
           /\ req' = [x \in (alloc \ {Frame.req}) \cup {new} |->
                         IF x = new THEN init_request_t_copy(req[Frame.req], t) ELSE req[x]]
           /\ Co!Yield([Frame EXCEPT !.at = "keepalive", !.req = new])
    /\ rx' = [rx EXCEPT ![Frame.fd] = SubSeq(@, Taken + 1, Len(@))]
    /\ UNCHANGED <<loopVars, cstate, peer, et, edge, sent>>

----------------------------------------------------------------------------
(* Clients, the kernel, the other workers, the clock and the signals.      *)

Connect(c) ==
    /\ pc # "exited" /\ cstate[c] = "idle"
    /\ cstate' = [cstate EXCEPT ![c] = "backlog"]
    /\ UNCHANGED <<loopVars, coVars, memVars, peer, rx, et, edge, sent>>

\* Another worker accepts a connection that waits in the shared backlog.
AcceptedElsewhere(c) ==
    /\ pc # "exited" /\ cstate[c] = "backlog"
    /\ cstate' = [cstate EXCEPT ![c] = "elsewhere"]
    /\ UNCHANGED <<loopVars, coVars, memVars, peer, rx, et, edge, sent>>

\* What the client does reaches epoll as a new edge.
Talks(c) == pc # "exited" /\ cstate[c] \in {"backlog", "open"} /\ peer[c] = "open"
NewEdge(c) == edge' = edge \cup ({c} \cap Open)

Send(c, kind) ==
    /\ Talks(c) /\ sent[c] < MaxSends[c]
    /\ rx' = [rx EXCEPT ![c] = Append(@, kind)]
    /\ sent' = [sent EXCEPT ![c] = @ + 1]
    /\ NewEdge(c)
    /\ UNCHANGED <<loopVars, coVars, memVars, cstate, peer, et>>

Hangup(c) ==
    /\ Talks(c)
    /\ peer' = [peer EXCEPT ![c] = "gone"]
    /\ NewEdge(c)
    /\ UNCHANGED <<loopVars, coVars, memVars, cstate, rx, et, sent>>

Tick ==
    /\ pc # "exited"
    /\ deadline > 0 \/ \E t \in queue : node[t].left > 0
    /\ deadline' = IF deadline > 0 THEN deadline - 1 ELSE deadline
    /\ node' = [t \in queue |-> [node[t] EXCEPT !.left = IF @ > 0 THEN @ - 1 ELSE 0]]
    /\ UNCHANGED <<pc, isexit, isadd_listenfd, isachieve_lock, serve_fd_num, time, events, coVars,
                   req, netVars>>

\* epoll_wait_new: a signal ends an epoll_wait that has nothing to return,
\* and it is called again with the whole timeout.  It may come when no tick
\* is left: the last one is not over before epoll_wait returns.
Interrupted == pc = "wait" /\ Ready = {}
Restarted == IF Interrupted THEN time ELSE deadline

\* The signal may come at any time, and again and again.
changestate_handler ==
    /\ pc # "exited"
    /\ isexit' = TRUE
    /\ deadline' = Restarted
    /\ UNCHANGED <<pc, isadd_listenfd, isachieve_lock, serve_fd_num, time, events, coVars,
                   memVars, netVars>>

----------------------------------------------------------------------------

workerloop ==
    \/ ExitLoop \/ PrepareWait \/ WaitReturn \/ TimeoutFires \/ NoTimeout \/ EndOfBatch
    \/ \E id \in CoIds : Dispatch(id)

acceptfun == (\E c \in Conns : AcceptConn(c)) \/ AcceptWouldBlock \/ AcceptFails

dorequest ==
    \/ Start \/ AfterYield
    \/ ReadEnds \/ ReadWouldBlock \/ ReadPart \/ ReadLast \/ ReadNodot \/ ReadKeep

Process == workerloop \/ acceptfun \/ dorequest

Environment ==
    \/ \E c \in Conns : \/ Connect(c) \/ AcceptedElsewhere(c) \/ Hangup(c)
                        \/ \E kind \in Kinds : Send(c, kind)
    \/ changestate_handler

Next == Process \/ Environment \/ Tick

Spec == Init /\ [][Next]_vars

\* The worker's process is scheduled, and time passes.  Nothing is assumed
\* of the clients, of the other workers, or of the lock.
FairSpec == Spec /\ WF_vars(Process) /\ WF_vars(Tick)

----------------------------------------------------------------------------
(* Safety.                                                                 *)

Requesters == Live \ {AcceptId}

(* Every request block in use belongs to exactly one live connection       *)
(* coroutine, which knows the same descriptor, the same id and the same    *)
(* epoll registration: keep-alive replaces the block without leaking it,   *)
(* freeing it twice or giving it to two connections.                       *)
RequestsOwned ==
    /\ {task[id].frame.req : id \in Requesters} = alloc
    /\ \A id \in Requesters :
           LET f == task[id].frame
               r == req[f.req]
           IN  /\ r.coid = id
               /\ f.at # "start" => f.fd = r.fd
               /\ r.fd \in DOMAIN et /\ et[r.fd] = id
    /\ \A c \in DOMAIN et : et[c] \in Requesters

(* A timer that can still fire names the request of a live connection that *)
(* points back at it, and a request never points at a freed timer: the     *)
(* loop's tn->ud (dlyhttpd.c:295) and dorequest's req->timer (http.c:60)   *)
(* are never dangling although timers outlive the requests they were for.  *)
TimersSafe ==
    /\ \A t \in Armed : node[t].ud \in alloc /\ req[node[t].ud].timer = t
    /\ \A r \in alloc : req[r].timer # NULL => req[r].timer \in queue

(* serve_fd_num is the number of connections this process serves           *)
(* (dlyhttpd.c:40), on which the decision to listen rests.                 *)
ServeCount == serve_fd_num = Cardinality(Open)

(* Edge-triggered epoll loses no connection: one with something to read,   *)
(* or whose client is gone, has an unreported edge, is in the batch being  *)
(* dispatched, is running, or has a timer that will close it.              *)
NoSilentStall ==
    \A c \in DOMAIN et : Readable(c) =>
        \/ c \in edge
        \/ et[c] \in events \cup {current}
        \/ \E t \in Armed : req[node[t].ud].fd = c

(* A connection whose client has not hung up and sent nothing left unread  *)
(* is closed by a timeout only when its own current timer has run out, not *)
(* by a timer of an earlier request or of another connection.              *)
TimeoutIsOwn ==
    [][\A c \in Open :
          cstate'[c] = "closed" /\ pc' # "exited" /\ ~ In("read")
            => LET t == req[Frame.req].timer IN t \in queue /\ node[t].left = 0]_vars

----------------------------------------------------------------------------
(* Liveness, under FairSpec.                                               *)

\* A signal makes epoll_wait sleep its whole timeout again (epoll_new.c:70),
\* so what waits for a timeout needs the signals to end.
SignalsEnd == <>[][~ changestate_handler]_vars

(* A connection whose client is gone is closed, whatever state it was in   *)
(* when the client left.                                                   *)
HangupCloses ==
    SignalsEnd =>
        \A c \in Conns : cstate[c] = "open" /\ peer[c] = "gone" ~> cstate[c] # "open"

(* What a client has sent is read, or its connection is closed, even when  *)
(* it was sent ahead of the answer to an earlier request.                  *)
DataHandled ==
    SignalsEnd =>
        \A c \in Conns :
            cstate[c] = "open" /\ rx[c] # <<>> ~> cstate[c] # "open" \/ rx[c] = <<>>

(* A kept-alive connection that asks nothing more is closed.               *)
QuietCloses ==
    SignalsEnd => \A r \in Reqs : (r \in alloc /\ req[r].timer # NULL) ~> r \notin alloc

(* Once asked to exit, a worker does so unless it sleeps with nothing to   *)
(* wake it: one that is awake or has a connection's event at hand in any   *)
(* case, one that sleeps until a timer runs out if it is not asked again   *)
(* and again (dlyhttpd.c:242, epoll_new.c:70).                             *)
ExitsOnWakeup ==
    /\ isexit /\ (pc # "wait" \/ Reported # {}) ~> pc = "exited"
    /\ SignalsEnd => (isexit /\ deadline # Infinite ~> pc = "exited")
=============================================================================
