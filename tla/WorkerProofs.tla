---------------------------- MODULE WorkerProofs -----------------------------
(***************************************************************************)
(* Safety of Worker, for any number of connections, blocks, timers and     *)
(* coroutines: memory, timers, the counter, and the events of edge-        *)
(* triggered epoll.                                                        *)
(***************************************************************************)
EXTENDS Worker, FiniteSetTheorems, TLAPS

(* The inductive invariant *)

\* The loop and its coroutine take turns: one that runs was resumed for an
\* event or a timer, and nothing is left of a batch when epoll_wait is called.
LoopInv ==
    /\ current \in Live \cup {NoCo}
    /\ current # NoCo => pc = "events"
    /\ pc \in {"top", "wait"} => events = {}

\* A connection's coroutine owns its request, which names it and the connection
\* it is registered for.  It has a timer only once it has yielded, and where it
\* may read it is running.
OwnInv ==
    \A id \in Requesters :
        LET f == task[id].frame
        IN  /\ f.req \in alloc
            /\ req[f.req].coid = id
            /\ f.at # "start" => f.fd = req[f.req].fd
            /\ req[f.req].fd \in DOMAIN et /\ et[req[f.req].fd] = id
            /\ id # current => f.at # "read"
            /\ req[f.req].timer # NULL => f.at # "start"

\* ... and no request is without a coroutine,
AllocInv ==
    \A r \in alloc : req[r].coid \in Requesters /\ task[req[r].coid].frame.req = r

\* nor a registration, which are those of the open connections.
RegInv ==
    /\ DOMAIN et = Open
    /\ \A c \in DOMAIN et : et[c] \in Requesters /\ req[task[et[c]].frame.req].fd = c

\* The timer of a request points back at it.  It is marked only from the moment
\* it has run out until its coroutine, which was resumed for it, looks.
TimerInv ==
    \A r \in alloc : req[r].timer # NULL =>
        LET t == req[r].timer
        IN  /\ t \in queue /\ node[t].ud = r
            /\ node[t].istimeout =>
                 /\ node[t].left = 0 /\ current = req[r].coid
                 /\ task[current].frame.at \in {"eagain", "keepalive"}

\* A timer that is not marked is the one its request knows.
ArmedInv == \A t \in queue : ~ node[t].istimeout => node[t].ud \in alloc /\ req[node[t].ud].timer = t

CountInv == IsFiniteSet(Open) /\ serve_fd_num = Cardinality(Open)

MemInv == OwnInv /\ AllocInv /\ RegInv /\ TimerInv /\ ArmedInv

IInv == TypeOK /\ LoopInv /\ MemInv /\ CountInv /\ NoSilentStall

-----------------------------------------------------------------------------
(* What the calls of the scheduler do to the coroutines *)

\* coroutine_resume changes no frame
LEMMA ResumeFacts ==
  ASSUME NEW id, Co!Resume(id)
  PROVE  /\ current = NoCo /\ id \in Live /\ Live' = Live /\ current' = id
         /\ \A i \in Live : task'[i] = IF i = id THEN [status |-> "RUNNING", frame |-> task[id].frame]
                                       ELSE task[i]
         /\ \A i \in Live : task'[i].frame = task[i].frame
BY DEF Co!Resume, Co!Live, Live, NoCo, Co!NoCo

\* A step of the running coroutine changes its own frame only
LEMMA StepFacts ==
  ASSUME NEW f, Co!Step(f)
  PROVE  /\ current # NoCo /\ Live' = Live /\ current' = current
         /\ \A i \in Live : task'[i] = IF i = current THEN [status |-> "RUNNING", frame |-> f]
                                       ELSE task[i]
         /\ \A i \in Live : task'[i].frame = IF i = current THEN f ELSE task[i].frame
BY DEF Co!Step, Co!Live, Live, NoCo, Co!NoCo

\* ... and so does coroutine_yield, after which none runs
LEMMA YieldFacts ==
  ASSUME NEW f, Co!Yield(f)
  PROVE  /\ current # NoCo /\ Live' = Live /\ current' = NoCo
         /\ \A i \in Live : task'[i] = IF i = current THEN [status |-> "SUSPEND", frame |-> f]
                                       ELSE task[i]
         /\ \A i \in Live : task'[i].frame = IF i = current THEN f ELSE task[i].frame
BY DEF Co!Yield, Co!Live, Live, NoCo, Co!NoCo

\* When a coroutine's function returns it is gone
LEMMA ReturnFacts ==
  ASSUME Co!Return
  PROVE  /\ current # NoCo /\ Live' = Live \ {current} /\ current' = NoCo
         /\ \A i \in Live' : task'[i] = task[i]
BY DEF Co!Return, Co!Live, Live, NoCo, Co!NoCo

\* coroutine_new adds one
LEMMA NewFacts ==
  ASSUME NEW id, NEW f, Co!New(id, f)
  PROVE  /\ id \in CoIds \ Live /\ Live' = Live \cup {id} /\ current' = current
         /\ task'[id] = [status |-> "READY", frame |-> f]
         /\ \A i \in Live : task'[i] = task[i]
BY DEF Co!New, Co!Live, Live

-----------------------------------------------------------------------------
(* Types *)

\* The contract's types, in the words of Worker
LEMMA CoTypes ==
  Co!CoTypeOK <=> /\ Live \subseteq CoIds /\ current \in CoIds \cup {NoCo}
                  /\ \A i \in Live : task[i] \in [status : Co!Status, frame : Frames]
BY DEF Co!CoTypeOK, Co!Live, Live, NoCo, Co!NoCo

\* The scheduler's calls keep the coroutines typed
LEMMA CallsTyped ==
  ASSUME Co!CoTypeOK,
         \/ \E id \in CoIds, f \in Frames : Co!New(id, f)
         \/ \E id \in CoIds : Co!Resume(id)
         \/ \E f \in Frames : Co!Step(f) \/ Co!Yield(f)
         \/ Co!Return
  PROVE  Co!CoTypeOK'
<1>1. /\ Live \subseteq CoIds /\ current \in CoIds \cup {NoCo}
      /\ \A i \in Live : task[i] \in [status : Co!Status, frame : Frames]
  BY CoTypes
<1>2. {"READY", "RUNNING", "SUSPEND"} = Co!Status
  BY DEF Co!Status
<1>3. /\ \A i \in Live : task[i].frame \in Frames
      /\ \A s \in {"READY", "RUNNING", "SUSPEND"}, f \in Frames :
           [status |-> s, frame |-> f] \in [status : Co!Status, frame : Frames]
  BY <1>1, <1>2
<1> DEFINE T == [status : Co!Status, frame : Frames]
<1>4. SUFFICES /\ Live' \subseteq CoIds /\ current' \in CoIds \cup {NoCo}
               /\ \A i \in Live' : task'[i] \in T
  BY DEF Co!CoTypeOK, Co!Live, Live, NoCo, Co!NoCo
<1> HIDE DEF T
<1>5. ASSUME NEW id \in CoIds, NEW f \in Frames, Co!New(id, f) PROVE <1>4!1
  <2>1. /\ id \in CoIds \ Live /\ Live' = Live \cup {id} /\ current' = current
        /\ task'[id] = [status |-> "READY", frame |-> f]
        /\ \A i \in Live : task'[i] = task[i]
    BY <1>5, NewFacts, Zenon
  <2>2. task'[id] \in T
    BY <1>3, <2>1 DEF T
  <2> QED  BY <2>1, <2>2, <1>1 DEF T
<1>6. ASSUME NEW id \in CoIds, Co!Resume(id) PROVE <1>4!1
  <2>1. id \in Live /\ [status |-> "RUNNING", frame |-> task[id].frame] \in T
    BY <1>3, <1>6, ResumeFacts DEF T
  <2> QED  BY <2>1, <1>1, <1>6, ResumeFacts DEF T
<1>7. ASSUME NEW f \in Frames, Co!Step(f) PROVE <1>4!1
  <2>1. [status |-> "RUNNING", frame |-> f] \in T
    BY <1>3 DEF T
  <2> QED  BY <2>1, <1>1, <1>7, StepFacts DEF T
<1>8. ASSUME NEW f \in Frames, Co!Yield(f) PROVE <1>4!1
  <2>1. [status |-> "SUSPEND", frame |-> f] \in T
    BY <1>3 DEF T
  <2> QED  BY <2>1, <1>1, <1>8, YieldFacts DEF T
<1>9. CASE Co!Return
  BY <1>9, <1>1, ReturnFacts DEF T
<1> QED  BY <1>5, <1>6, <1>7, <1>8, <1>9

LoopType ==
    /\ pc \in {"top", "wait", "timers", "events", "exited"}
    /\ isexit \in BOOLEAN /\ isadd_listenfd \in BOOLEAN /\ isachieve_lock \in BOOLEAN
    /\ serve_fd_num \in Nat
    /\ {time, deadline} \subseteq 0..TIMEOUT_DEFAULT \cup {Infinite}
    /\ events \subseteq CoIds

ReqType == alloc \subseteq Reqs /\ req \in [alloc -> Request]
NodeType == queue \subseteq Timers /\ node \in [queue -> TimerNode]

NetType ==
    /\ cstate \in [Conns -> {"idle", "backlog", "open", "closed", "elsewhere"}]
    /\ peer \in [Conns -> {"open", "gone"}]
    /\ rx \in [Conns -> Seq(Kinds)]
    /\ DOMAIN et \subseteq Conns /\ et \in [DOMAIN et -> CoIds]
    /\ edge \subseteq Conns
    /\ sent \in [Conns -> Nat]

\* TypeOK in parts, each of which a step changes or leaves
LEMMA TypeParts == TypeOK <=> Co!CoTypeOK /\ LoopType /\ ReqType /\ NodeType /\ NetType
BY DEF TypeOK, LoopType, ReqType, NodeType, NetType

\* ... and after the step
LEMMA TypePartsPrimed ==
  TypeOK' <=> Co!CoTypeOK' /\ LoopType' /\ ReqType' /\ NodeType' /\ NetType'
BY DEF TypeOK, LoopType, ReqType, NodeType, NetType

\* The marked nodes deleted from the top of the queue leave the others as they
\* are, and an armed one on top if any is left
LEMMA PruneFacts ==
  ASSUME NodeType, NEW gone, Prunes(gone)
  PROVE  /\ gone \subseteq queue /\ \A g \in gone : node[g].istimeout
         /\ DOMAIN Kept(gone) = queue \ gone
         /\ Kept(gone) \in [queue \ gone -> TimerNode]
         /\ \A t \in queue \ gone : Kept(gone)[t] = node[t]
         /\ queue # gone => \E t \in queue \ gone : IsTop(t, gone)
<1>1. \A t \in queue : node[t] \in TimerNode
  BY DEF NodeType
<1>2. \A x \in TimerNode : x.istimeout \in BOOLEAN
  BY DEF TimerNode
<1>3. gone \subseteq queue \ Armed
  BY DEF Prunes
<1>4. \A g \in gone : node[g].istimeout
  BY <1>1, <1>2, <1>3 DEF Armed
<1>5. Armed \subseteq queue
  BY DEF Armed
<1>6. queue # gone => \E t \in queue \ gone : IsTop(t, gone)
  BY <1>3, <1>5 DEF Prunes
<1> QED  BY <1>1, <1>3, <1>4, <1>6 DEF Kept

\* The time to sleep is one of a timer, or unlimited
LEMMA TimeoutTyped ==
  ASSUME NodeType, NEW gone, Prunes(gone)
  PROVE  TimeoutOf(gone) \in 0..TIMEOUT_DEFAULT \cup {Infinite}
<1>1. CASE queue = gone
  BY <1>1 DEF TimeoutOf
<1>2. CASE queue # gone
  <2> DEFINE top == CHOOSE t \in queue \ gone : IsTop(t, gone)
  <2>1. top \in queue
    BY <1>2, PruneFacts
  <2>2. node[top] \in TimerNode
    BY <2>1 DEF NodeType
  <2>3. \A x \in TimerNode : x.left \in 0..TIMEOUT_DEFAULT
    BY DEF TimerNode
  <2> QED  BY <1>2, <2>2, <2>3 DEF TimeoutOf
<1> QED  BY <1>1, <1>2

\* The coroutine that runs dorequest, and its request
LEMMA RunnerFacts ==
  ASSUME TypeOK, LoopInv, MemInv, NEW at, In(at)
  PROVE  /\ current \in Requesters /\ current \in Live /\ current # NoCo
         /\ Frame = task[current].frame /\ Frame.at = at /\ Frame \in Frames
         /\ Frame.req \in alloc /\ req[Frame.req] \in Request
         /\ req[Frame.req].coid = current
         /\ at # "start" => Frame.fd = req[Frame.req].fd
         /\ req[Frame.req].fd \in Open /\ req[Frame.req].fd \in Conns
         /\ et[req[Frame.req].fd] = current
         /\ pc = "events"
<1>1. current \in Live /\ current \in Requesters /\ current # NoCo /\ Frame.at = at /\ pc = "events"
  BY DEF In, LoopInv, Requesters
<1>2. task[current] \in [status : Co!Status, frame : Frames]
  BY <1>1, CoTypes, TypeParts
<1>3. Frame \in Frames
  BY <1>2 DEF Frame
<1>4. Frame.req \in alloc /\ req[Frame.req].coid = current
      /\ (at # "start" => Frame.fd = req[Frame.req].fd)
      /\ req[Frame.req].fd \in DOMAIN et /\ et[req[Frame.req].fd] = current
  BY <1>1 DEF MemInv, OwnInv, Frame
<1>5. req[Frame.req] \in Request
  BY <1>4, TypeParts DEF ReqType
<1> QED  BY <1>1, <1>3, <1>4, <1>5 DEF MemInv, RegInv, Open, Frame

\* A worker that has ended holds nothing
LEMMA ExitFacts ==
  ASSUME ProcessExit
  PROVE  /\ pc' = "exited" /\ current' = NoCo
         /\ Live' = {} /\ alloc' = {} /\ queue' = {} /\ DOMAIN et' = {} /\ edge' = {} /\ events' = {}
         /\ \A c \in Conns : cstate'[c] = IF cstate[c] = "open" THEN "closed" ELSE cstate[c]
         /\ serve_fd_num' = 0
BY DEF ProcessExit, Live, alloc, queue, Open

\* What is left of a worker that has ended is typed
LEMMA ExitTyped ==
  ASSUME TypeOK, ProcessExit
  PROVE  TypeOK'
<1> USE ExitFacts
<1>1. Co!CoTypeOK'
  BY DEF Co!CoTypeOK, Co!Live, Live, NoCo, Co!NoCo
<1>2. LoopType'
  BY TypeParts DEF LoopType, ProcessExit
<1>3. ReqType' /\ NodeType'
  BY DEF ReqType, NodeType, ProcessExit, alloc, queue
<1>4. cstate' \in [Conns -> {"idle", "backlog", "open", "closed", "elsewhere"}]
  BY TypeParts DEF NetType, ProcessExit
<1>5. DOMAIN et' \subseteq Conns /\ et' \in [DOMAIN et' -> CoIds] /\ edge' \subseteq Conns
  BY DEF ProcessExit
<1>6. NetType'
  BY <1>4, <1>5, TypeParts DEF NetType, ProcessExit
<1> QED  BY <1>1, <1>2, <1>3, <1>6, TypePartsPrimed

\* The steps of the loop
LEMMA LoopTyped ==
  ASSUME TypeOK, workerloop \/ Tick \/ changestate_handler
  PROVE  TypeOK'
<1>0. Co!CoTypeOK /\ LoopType /\ ReqType /\ NodeType /\ NetType
  BY TypeParts
<1>z. SUFFICES Co!CoTypeOK' /\ LoopType' /\ ReqType' /\ NodeType' /\ NetType'
  BY TypePartsPrimed
<1>a. ASSUME coVars' = coVars PROVE Co!CoTypeOK'
  BY <1>0, <1>a DEF coVars, Co!CoTypeOK, Co!Live
<1>r. ASSUME req' = req PROVE ReqType'
  BY <1>0, <1>r DEF ReqType, alloc
<1>n. ASSUME node' = node PROVE NodeType'
  BY <1>0, <1>n DEF NodeType, queue
<1>w. ASSUME netVars' = netVars PROVE NetType'
  BY <1>0, <1>w DEF NetType, netVars
<1>k. ASSUME NEW gone, Prunes(gone), node' = Kept(gone) PROVE NodeType'
  <2>1. Kept(gone) \in [queue \ gone -> TimerNode]
    BY <1>0, <1>k, PruneFacts, Zenon
  <2>2. queue' = queue \ gone /\ node' \in [queue \ gone -> TimerNode]
    BY <2>1, <1>k DEF queue
  <2>3. queue \subseteq Timers
    BY <1>0 DEF NodeType
  <2> QED  BY <2>2, <2>3 DEF NodeType
<1>1. CASE ExitLoop
  BY <1>1, ExitTyped, TypePartsPrimed DEF ExitLoop
<1>2. CASE PrepareWait
  <2>1. PICK gone \in SUBSET queue :
           Prunes(gone) /\ node' = Kept(gone) /\ time' = TimeoutOf(gone) /\ deadline' = time'
    BY <1>2 DEF PrepareWait
  <2>2. {time', deadline'} \subseteq 0..TIMEOUT_DEFAULT \cup {Infinite}
    BY <2>1, <1>0, TimeoutTyped
  <2>3. LoopType'
    BY <1>2, <2>2, <1>0 DEF PrepareWait, ListenDecision, LoopType
  <2> QED  BY <1>2, <2>1, <2>3, <1>a, <1>r, <1>w, <1>k DEF PrepareWait
<1>3. CASE WaitReturn
  <2>1. /\ coVars' = coVars /\ req' = req /\ node' = node
    BY <1>3 DEF WaitReturn, memVars
  <2>2. Ready \subseteq CoIds /\ edge' \subseteq edge
    BY <1>0, <1>3, WorkerAssumption DEF Ready, Reported, NetType, WaitReturn
  <2>3. LoopType'
    BY <1>3, <2>2, <1>0 DEF WaitReturn, LoopType
  <2>4. NetType'
    BY <1>3, <2>2, <1>0 DEF WaitReturn, NetType
  <2> QED  BY <2>1, <2>3, <2>4, <1>a, <1>r, <1>n
<1>4. CASE TimeoutFires
  <2>1. PICK gone \in SUBSET queue, t \in Armed :
           /\ Prunes(gone) /\ node' = [Kept(gone) EXCEPT ![t].istimeout = TRUE]
           /\ Co!Resume(req[node[t].ud].coid)
    BY <1>4 DEF TimeoutFires
  <2>2. Kept(gone) \in [queue \ gone -> TimerNode] /\ gone \subseteq queue
    BY <2>1, <1>0, PruneFacts
  <2>3. \A x \in TimerNode : [x EXCEPT !.istimeout = TRUE] \in TimerNode
    BY DEF TimerNode
  <2>4. node' \in [queue \ gone -> TimerNode]
    BY <2>1, <2>2, <2>3
  <2>5. NodeType'
    BY <2>4, <2>2, <1>0 DEF NodeType, queue
  <2>6. req[node[t].ud].coid \in CoIds
    BY <2>1, <1>0, ResumeFacts, CoTypes
  <2>7. Co!CoTypeOK'
    BY <2>1, <2>6, <1>0, CallsTyped
  <2>8. LoopType'
    BY <1>4, <1>0 DEF TimeoutFires, LoopType
  <2> QED  BY <1>4, <2>5, <2>7, <2>8, <1>r, <1>w DEF TimeoutFires
<1>5. CASE NoTimeout
  <2>1. PICK gone \in SUBSET queue : Prunes(gone) /\ node' = Kept(gone)
    BY <1>5 DEF NoTimeout
  <2>2. LoopType'
    BY <1>5, <1>0 DEF NoTimeout, LoopType
  <2> QED  BY <1>5, <2>1, <2>2, <1>a, <1>r, <1>w, <1>k DEF NoTimeout
<1>6. CASE EndOfBatch
  <2>1. LoopType'
    BY <1>6, <1>0 DEF EndOfBatch, LoopType
  <2> QED  BY <1>6, <2>1, <1>a, <1>r, <1>n, <1>w DEF EndOfBatch, memVars
<1>7. ASSUME NEW id \in CoIds, Dispatch(id) PROVE Co!CoTypeOK' /\ LoopType' /\ ReqType' /\ NodeType' /\ NetType'
  <2>1. LoopType'
    BY <1>7, <1>0 DEF Dispatch, LoopType
  <2>2. Co!CoTypeOK'
    BY <1>7, <1>a, <1>0, CallsTyped DEF Dispatch
  <2> QED  BY <1>7, <2>1, <2>2, <1>r, <1>n, <1>w DEF Dispatch, memVars
<1>8. CASE Tick
  <2>1. node' = [t \in queue |-> [node[t] EXCEPT !.left = IF @ > 0 THEN @ - 1 ELSE 0]]
    BY <1>8 DEF Tick
  <2>2. \A n \in 0..TIMEOUT_DEFAULT : (IF n > 0 THEN n - 1 ELSE 0) \in 0..TIMEOUT_DEFAULT
    BY WorkerAssumption
  <2>3. \A x \in TimerNode : [x EXCEPT !.left = IF @ > 0 THEN @ - 1 ELSE 0] \in TimerNode
    BY <2>2 DEF TimerNode
  <2>4. NodeType'
    BY <2>1, <2>3, <1>0 DEF NodeType, queue
  <2>5. deadline' \in 0..TIMEOUT_DEFAULT \cup {Infinite}
    BY <1>8, <1>0, WorkerAssumption DEF Tick, LoopType, Infinite
  <2>6. LoopType'
    BY <1>8, <2>5, <1>0 DEF Tick, LoopType
  <2> QED  BY <1>8, <2>4, <2>6, <1>a, <1>r, <1>w DEF Tick
<1>9. CASE changestate_handler
  <2>1. LoopType'
    BY <1>9, <1>0 DEF changestate_handler, Restarted, LoopType
  <2> QED  BY <1>9, <2>1, <1>a, <1>r, <1>n, <1>w DEF changestate_handler, memVars
<1> QED  BY <1>1, <1>2, <1>3, <1>4, <1>5, <1>6, <1>7, <1>8, <1>9 DEF workerloop

\* The steps of the clients, and of the accepting coroutine
LEMMA ClientsTyped ==
  ASSUME TypeOK,
         \/ \E c \in Conns : \/ Connect(c) \/ AcceptedElsewhere(c) \/ Hangup(c)
                             \/ \E kind \in Kinds : Send(c, kind)
  PROVE  TypeOK'
<1>0. Co!CoTypeOK /\ LoopType /\ ReqType /\ NodeType /\ NetType
  BY TypeParts
<1>1. loopVars' = loopVars /\ coVars' = coVars /\ memVars' = memVars
  BY DEF Connect, AcceptedElsewhere, Hangup, Send
<1>2. Co!CoTypeOK' /\ LoopType' /\ ReqType' /\ NodeType'
  BY <1>0, <1>1 DEF coVars, Co!CoTypeOK, Co!Live, loopVars, LoopType, memVars, ReqType, NodeType,
                    alloc, queue
<1>3. ASSUME NEW c \in Conns, Connect(c) PROVE NetType'
  BY <1>0, <1>3 DEF Connect, NetType
<1>4. ASSUME NEW c \in Conns, AcceptedElsewhere(c) PROVE NetType'
  BY <1>0, <1>4 DEF AcceptedElsewhere, NetType
<1>5. ASSUME NEW c \in Conns, Hangup(c) PROVE NetType'
  BY <1>0, <1>5 DEF Hangup, NewEdge, NetType
<1>6. ASSUME NEW c \in Conns, NEW kind \in Kinds, Send(c, kind) PROVE NetType'
  <2>1. rx' \in [Conns -> Seq(Kinds)]
    BY <1>0, <1>6 DEF Send, NetType
  <2>2. sent' \in [Conns -> Nat]
    BY <1>0, <1>6, WorkerAssumption DEF Send, Talks, NetType
  <2> QED  BY <1>0, <1>6, <2>1, <2>2 DEF Send, NewEdge, NetType
<1> QED  BY <1>2, <1>3, <1>4, <1>5, <1>6, TypePartsPrimed

\* ... and of the accepting coroutine
LEMMA AcceptTyped ==
  ASSUME TypeOK, acceptfun
  PROVE  TypeOK'
<1>0. Co!CoTypeOK /\ LoopType /\ ReqType /\ NodeType /\ NetType
  BY TypeParts
<1>1. ASSUME NEW c \in Conns, AcceptConn(c) PROVE TypeOK'
  <2>1. PICK r \in Reqs \ alloc, id \in CoIds \ Live :
           /\ Co!New(id, [at |-> "start", fd |-> NULL, req |-> r])
           /\ req' = [x \in alloc \cup {r} |->
                         IF x = r THEN init_request_t(c, id) ELSE req[x]]
           /\ et' = [x \in DOMAIN et \cup {c} |-> IF x = c THEN id ELSE et[x]]
    BY <1>1 DEF AcceptConn
  <2>2. [at |-> "start", fd |-> NULL, req |-> r] \in Frames
    BY DEF Frames
  <2>3. Co!CoTypeOK'
    BY <2>1, <2>2, <1>0, CallsTyped
  <2>4. init_request_t(c, id) \in Request
    BY WorkerAssumption DEF init_request_t, Request
  <2>5. ReqType'
    BY <2>1, <2>4, <1>0 DEF ReqType, alloc
  <2>6. NodeType' /\ LoopType'
    BY <1>0, <1>1 DEF AcceptConn, NodeType, queue, LoopType
  <2>7. et' \in [DOMAIN et \cup {c} -> CoIds] /\ DOMAIN et' \subseteq Conns
    BY <2>1, <1>0 DEF NetType
  <2>8. NetType'
    BY <2>7, <1>1, <1>0 DEF AcceptConn, NetType
  <2> QED  BY <2>3, <2>5, <2>6, <2>8, TypePartsPrimed
<1>2. CASE AcceptWouldBlock
  <2>1. AcceptFrame \in Frames
    BY DEF AcceptFrame, Frames
  <2>2. Co!CoTypeOK'
    BY <1>2, <2>1, <1>0, CallsTyped DEF AcceptWouldBlock
  <2>3. LoopType' /\ NetType'
    BY <1>2, <1>0 DEF AcceptWouldBlock, loopVars, LoopType, netVars, NetType
  <2>4. ReqType' /\ NodeType'
    BY <1>2, <1>0 DEF AcceptWouldBlock, memVars, ReqType, NodeType, alloc, queue
  <2> QED  BY <2>2, <2>3, <2>4, TypePartsPrimed
<1>3. CASE AcceptFails
  BY <1>3, ExitTyped DEF AcceptFails
<1> QED  BY <1>1, <1>2, <1>3 DEF acceptfun

-----------------------------------------------------------------------------
(* What the handlers of a connection do *)

\* A read takes what is there and fits
LEMMA TakenFacts ==
  ASSUME TypeOK, LoopInv, MemInv, In("read")
  PROVE  /\ Taken \in 0..Room /\ Taken \in 0..Len(Unread) /\ Room \in Nat
         /\ req[Frame.req].len \in 0..MAX_BUF /\ req[Frame.req].len + Taken \in 0..MAX_BUF
         /\ Unread \in Seq(Kinds) /\ SubSeq(Unread, Taken + 1, Len(Unread)) \in Seq(Kinds)
         /\ Frame.fd \in Conns /\ Unread = rx[Frame.fd]
<1>1. Frame.fd \in Conns /\ req[Frame.req] \in Request
  BY RunnerFacts
<1>2. Unread \in Seq(Kinds)
  BY <1>1, TypeParts DEF Unread, NetType
<1>3. req[Frame.req].len \in 0..MAX_BUF
  BY <1>1 DEF Request
<1>4. Len(Unread) \in Nat /\ Room \in Nat /\ MAX_BUF \in Nat
  BY <1>2, <1>3, WorkerAssumption DEF Room
<1>5. Taken \in 0..Room /\ Taken \in 0..Len(Unread) 
  BY <1>4 DEF Taken
<1>6. req[Frame.req].len + Taken \in 0..MAX_BUF
  BY <1>5, <1>4, <1>3 DEF Room
<1>7. SubSeq(Unread, Taken + 1, Len(Unread)) \in Seq(Kinds)
  BY <1>2, <1>5, <1>4
<1> QED  BY <1>1, <1>2, <1>3, <1>4, <1>5, <1>6, <1>7 DEF Unread

\* A connection is closed: its coroutine, its request and its registration go, and
\* its timer is marked
LEMMA CloseFacts ==
  ASSUME TypeOK, LoopInv, MemInv, NEW at, at # "start", In(at), CloseConn
  PROVE  /\ Frame.fd \in Open /\ Frame.fd = req[Frame.req].fd /\ Frame.req \in alloc
         /\ Live' = Live \ {current} /\ current' = NoCo /\ Requesters' = Requesters \ {current}
         /\ \A i \in Live' : task'[i] = task[i]
         /\ alloc' = alloc \ {Frame.req} /\ \A r \in alloc' : req'[r] = req[r]
         /\ DOMAIN et' = DOMAIN et \ {Frame.fd} /\ \A c \in DOMAIN et' : et'[c] = et[c]
         /\ Open' = Open \ {Frame.fd}
         /\ queue' = queue
         /\ \A t \in queue : node'[t] = IF t = req[Frame.req].timer
                                        THEN [node[t] EXCEPT !.istimeout = TRUE] ELSE node[t]
<1>1. /\ Frame.fd = req[Frame.req].fd /\ Frame.req \in alloc /\ Frame.fd \in Open
      /\ current \in Requesters
  BY RunnerFacts
<1>2. Live' = Live \ {current} /\ current' = NoCo /\ \A i \in Live' : task'[i] = task[i]
  BY ReturnFacts DEF CloseConn
<1>3. Requesters' = Requesters \ {current}
  BY <1>2 DEF Requesters
<1>4. alloc' = alloc \ {Frame.req} /\ \A r \in alloc' : req'[r] = req[r]
  BY DEF CloseConn, alloc
<1>5. DOMAIN et' = DOMAIN et \ {Frame.fd} /\ \A c \in DOMAIN et' : et'[c] = et[c]
  BY DEF CloseConn
<1>6. Open' = Open \ {Frame.fd}
  BY <1>1, TypeParts DEF CloseConn, Open, NetType
<1>7. NULL \notin queue
  BY TypeParts, WorkerAssumption DEF NodeType
<1>8. queue' = queue /\ \A t \in queue : node'[t] = IF t = req[Frame.req].timer
                                        THEN [node[t] EXCEPT !.istimeout = TRUE] ELSE node[t]
  BY <1>7, TypeParts DEF CloseConn, MarkTimer, queue, NodeType
<1> QED  BY <1>1, <1>2, <1>3, <1>4, <1>5, <1>6, <1>8

\* The connection is still counted when it is closed
LEMMA CloseCount ==
  ASSUME TypeOK, LoopInv, MemInv, CountInv, NEW at, at # "start", In(at), CloseConn
  PROVE  CountInv' /\ serve_fd_num' \in Nat
<1>1. Frame.fd \in Open /\ Open' = Open \ {Frame.fd}
  BY CloseFacts
<1>2. IsFiniteSet(Open') /\ Cardinality(Open') = Cardinality(Open) - 1
  BY <1>1, FS_RemoveElement DEF CountInv
<1>3. Cardinality(Open') \in Nat
  BY <1>2, FS_CardinalityType
<1>4. serve_fd_num' = Cardinality(Open')
  BY <1>2 DEF CountInv, CloseConn, CountAfterClose
<1> QED  BY <1>2, <1>3, <1>4 DEF CountInv

\* What is left when a connection is closed is typed
LEMMA CloseTyped ==
  ASSUME TypeOK, LoopInv, MemInv, CountInv, NEW at, at # "start", In(at), CloseConn
  PROVE  TypeOK'
<1>0. Co!CoTypeOK /\ LoopType /\ ReqType /\ NodeType /\ NetType
  BY TypeParts
<1>1. Co!CoTypeOK'
  BY <1>0, CallsTyped DEF CloseConn
<1>2. LoopType'
  BY <1>0, CloseCount DEF CloseConn, LoopType
<1>3. ReqType'
  BY <1>0 DEF ReqType, alloc, CloseConn
<1>4. NodeType'
  <2>1. \A x \in TimerNode : [x EXCEPT !.istimeout = TRUE] \in TimerNode
    BY DEF TimerNode
  <2>2. MarkTimer(Frame.req) \in [queue -> TimerNode]
    BY <2>1, <1>0 DEF MarkTimer, NodeType
  <2> QED  BY <2>2, <1>0 DEF NodeType, queue, CloseConn
<1>5. NetType'
  <2>1. Frame.fd \in Conns
    BY RunnerFacts
  <2>2. rx' \in [Conns -> Seq(Kinds)]
    BY <1>0, <2>1 DEF NetType, CloseConn
  <2>3. et' \in [DOMAIN et' -> CoIds]
    BY <1>0 DEF NetType, CloseConn
  <2> QED  BY <2>2, <2>3, <1>0 DEF NetType, CloseConn
<1> QED  BY <1>1, <1>2, <1>3, <1>4, <1>5, TypePartsPrimed

\* The request of the running coroutine is replaced by new, with timer t
KeptAlive(new, t) ==
    /\ In("read") /\ Frame.fd \in Open /\ Frame.fd = req[Frame.req].fd /\ Frame.req \in alloc
    /\ Live' = Live /\ Requesters' = Requesters /\ current' = NoCo
    /\ \A i \in Live \ {current} : task'[i].frame = task[i].frame
    /\ task'[current].frame.at = "keepalive" /\ task'[current].frame.fd = Frame.fd
    /\ task'[current].frame.req = new
    /\ alloc' = (alloc \ {Frame.req}) \cup {new}
    /\ req'[new] = [fd |-> Frame.fd, coid |-> current, timer |-> t, len |-> 0]
    /\ \A r \in alloc \ {Frame.req} : req'[r] = req[r]
    /\ queue' = queue \cup {t} /\ node'[t] = add_timer(new)
    /\ \A u \in queue : node'[u] = IF u = req[Frame.req].timer
                                   THEN [node[u] EXCEPT !.istimeout = TRUE] ELSE node[u]
    /\ req' \in [alloc' -> Request] /\ alloc' \subseteq Reqs
    /\ node' \in [queue' -> TimerNode] /\ queue' \subseteq Timers
    /\ Co!CoTypeOK'

\* A request answered with keep-alive gives its place to a fresh one that has a
\* fresh timer, and the timer it had is marked
LEMMA KeepFacts ==
  ASSUME TypeOK, LoopInv, MemInv, ReadKeep
  PROVE  \E new \in Reqs \ alloc, t \in Timers \ queue : KeptAlive(new, t)
<1>0. Co!CoTypeOK /\ ReqType /\ NodeType
  BY TypeParts
<1>1. PICK new \in Reqs \ alloc, t \in Timers \ queue :
           /\ node' = [x \in queue \cup {t} |->
                          IF x = t THEN add_timer(new) ELSE RetireTimer(Frame.req)[x]]
           /\ req' = [x \in (alloc \ {Frame.req}) \cup {new} |->
                         IF x = new THEN init_request_t_copy(req[Frame.req], t) ELSE req[x]]
           /\ Co!Yield([Frame EXCEPT !.at = "keepalive", !.req = new])
  BY DEF ReadKeep
<1>2. /\ In("read") /\ Frame.fd \in Open /\ Frame.fd = req[Frame.req].fd /\ Frame.req \in alloc
      /\ Frame \in Frames /\ req[Frame.req] \in Request /\ req[Frame.req].coid = current
      /\ Frame.fd \in Conns
  <2>1. In("read")
    BY DEF ReadKeep
  <2> QED  BY <2>1, RunnerFacts
<1> DEFINE f == [Frame EXCEPT !.at = "keepalive", !.req = new]
<1>3. f \in Frames /\ f.at = "keepalive" /\ f.fd = Frame.fd /\ f.req = new
  BY <1>2 DEF Frames
<1>4. Co!Yield(f)
  BY <1>1
<1> HIDE DEF f
<1>5. /\ Live' = Live /\ current' = NoCo
      /\ \A i \in Live : task'[i].frame = IF i = current THEN f ELSE task[i].frame
  BY <1>4, YieldFacts
<1>19. /\ \A i \in Live \ {current} : task'[i].frame = task[i].frame
       /\ task'[current].frame.at = "keepalive" /\ task'[current].frame.fd = Frame.fd
       /\ task'[current].frame.req = new
  BY <1>2, <1>3, <1>5, RunnerFacts
<1>6. Requesters' = Requesters
  BY <1>5 DEF Requesters
<1>7. Co!CoTypeOK'
  BY <1>0, <1>3, <1>4, CallsTyped
<1>8. init_request_t_copy(req[Frame.req], t) = [fd |-> Frame.fd, coid |-> current, timer |-> t, len |-> 0]
  BY <1>2 DEF init_request_t_copy
<1>9. [fd |-> Frame.fd, coid |-> current, timer |-> t, len |-> 0] \in Request
  BY <1>2, WorkerAssumption DEF Request
<1>10. /\ alloc' = (alloc \ {Frame.req}) \cup {new}
       /\ req'[new] = [fd |-> Frame.fd, coid |-> current, timer |-> t, len |-> 0]
       /\ \A r \in alloc \ {Frame.req} : req'[r] = req[r]
  BY <1>1, <1>8 DEF alloc
<1>11. req' \in [alloc' -> Request] /\ alloc' \subseteq Reqs
  BY <1>1, <1>8, <1>9, <1>10, <1>0 DEF ReqType
<1>12. NULL \notin queue
  BY <1>0, WorkerAssumption DEF NodeType
<1>13. \A u \in queue : RetireTimer(Frame.req)[u] = IF u = req[Frame.req].timer
                                          THEN [node[u] EXCEPT !.istimeout = TRUE] ELSE node[u]
  BY <1>12, <1>0 DEF RetireTimer, MarkTimer, NodeType
<1>14. /\ queue' = queue \cup {t} /\ node'[t] = add_timer(new)
       /\ \A u \in queue : node'[u] = RetireTimer(Frame.req)[u]
  BY <1>1 DEF queue
<1>15. add_timer(new) \in TimerNode /\ \A x \in TimerNode : [x EXCEPT !.istimeout = TRUE] \in TimerNode
  <2>1. add_timer(new) \in TimerNode
    BY WorkerAssumption DEF TimerNode, add_timer
  <2>2. \A x \in TimerNode : [x EXCEPT !.istimeout = TRUE] \in TimerNode
    BY DEF TimerNode
  <2> QED  BY <2>1, <2>2
<1>16. \A u \in queue' : node'[u] \in TimerNode
  <2>1. \A u \in queue : node[u] \in TimerNode
    BY <1>0 DEF NodeType
  <2>2. \A u \in queue : RetireTimer(Frame.req)[u] \in TimerNode
    BY <2>1, <1>13, <1>15
  <2> QED  BY <2>2, <1>14, <1>15
<1>17. node' \in [queue' -> TimerNode] /\ queue' \subseteq Timers
  BY <1>1, <1>14, <1>16, <1>0 DEF NodeType
<1>18. \A u \in queue : node'[u] = IF u = req[Frame.req].timer
                                          THEN [node[u] EXCEPT !.istimeout = TRUE] ELSE node[u]
  BY <1>13, <1>14
<1> QED  BY <1>2, <1>5, <1>6, <1>7, <1>10, <1>11, <1>14, <1>17, <1>18, <1>19 DEF KeptAlive

\* The steps of dorequest keep the types
LEMMA RequestTyped ==
  ASSUME TypeOK, LoopInv, MemInv, CountInv, dorequest
  PROVE  TypeOK'
<1>0. Co!CoTypeOK /\ LoopType /\ ReqType /\ NodeType /\ NetType
  BY TypeParts
<1>l. ASSUME loopVars' = loopVars PROVE LoopType'
  BY <1>0, <1>l DEF loopVars, LoopType
<1>m. ASSUME memVars' = memVars PROVE ReqType' /\ NodeType'
  BY <1>0, <1>m DEF memVars, ReqType, NodeType, alloc, queue
<1>w. ASSUME netVars' = netVars PROVE NetType'
  BY <1>0, <1>w DEF netVars, NetType
<1>s. ASSUME NEW f \in Frames, Co!Step(f) \/ Co!Yield(f) PROVE Co!CoTypeOK'
  BY <1>0, <1>s, CallsTyped
<1>1. CASE Start
  <2>1. Frame \in Frames /\ req[Frame.req].fd \in Conns
    BY <1>1, RunnerFacts DEF Start
  <2>2. [Frame EXCEPT !.at = "read", !.fd = req[Frame.req].fd] \in Frames
    BY <2>1 DEF Frames
  <2> QED  BY <1>1, <2>2, <1>l, <1>m, <1>w, <1>s, TypePartsPrimed DEF Start, Goto
<1>2. CASE AfterYield
  <2>1. CASE TimedOut
    BY <1>2, <2>1, CloseTyped DEF AfterYield
  <2>2. CASE ~ TimedOut
    <3>1. Frame \in Frames
      BY <1>2, RunnerFacts DEF AfterYield
    <3>2. [Frame EXCEPT !.at = "read"] \in Frames
      BY <3>1 DEF Frames
    <3> QED  BY <1>2, <2>2, <3>2, <1>l, <1>m, <1>w, <1>s, TypePartsPrimed DEF AfterYield, Goto
  <2> QED  BY <2>1, <2>2
<1>3. CASE ReadEnds \/ ReadLast
  BY <1>3, CloseTyped DEF ReadEnds, ReadLast
<1>4. CASE ReadWouldBlock
  <2>1. Frame \in Frames
    BY <1>4, RunnerFacts DEF ReadWouldBlock
  <2>2. [Frame EXCEPT !.at = "eagain"] \in Frames
    BY <2>1 DEF Frames
  <2> QED  BY <1>4, <2>2, <1>l, <1>m, <1>w, <1>s, TypePartsPrimed DEF ReadWouldBlock
<1>5. CASE ReadPart
  <2>0. In("read")
    BY <1>5 DEF ReadPart
  <2>1. Frame \in Frames /\ Frame.req \in alloc
    BY <2>0, RunnerFacts
  <2>2. Co!CoTypeOK'
    BY <1>5, <2>1, <1>s DEF ReadPart, AfterPart
  <2>3. /\ req[Frame.req].len + Taken \in 0..MAX_BUF /\ Frame.fd \in Conns
        /\ SubSeq(rx[Frame.fd], Taken + 1, Len(rx[Frame.fd])) \in Seq(Kinds)
    BY <2>0, TakenFacts
  <2>4. \A x \in Request, n \in 0..MAX_BUF : [x EXCEPT !.len = n] \in Request
    BY DEF Request
  <2>5. [req[Frame.req] EXCEPT !.len = req[Frame.req].len + Taken] \in Request
    BY <2>1, <2>3, <2>4, <1>0 DEF ReqType
  <2>6. ReqType'
    BY <1>5, <2>5, <1>0 DEF ReadPart, ReqType, alloc
  <2>7. rx' \in [Conns -> Seq(Kinds)]
    BY <1>5, <2>3, <1>0 DEF ReadPart, NetType
  <2>8. NetType'
    BY <1>5, <2>7, <1>0 DEF ReadPart, NetType
  <2>9. LoopType' /\ NodeType'
    BY <1>5, <1>0, <1>l DEF ReadPart, NodeType, queue
  <2> QED  BY <2>2, <2>6, <2>8, <2>9, TypePartsPrimed
<1>6. CASE ReadNodot
  BY <1>6, ExitTyped DEF ReadNodot
<1>7. CASE ReadKeep
  <2>1. Co!CoTypeOK' /\ ReqType' /\ NodeType'
    BY <1>7, KeepFacts DEF KeptAlive, ReqType, NodeType
  <2>2. In("read")
    BY <1>7 DEF ReadKeep
  <2>3. Frame.fd \in Conns /\ SubSeq(rx[Frame.fd], Taken + 1, Len(rx[Frame.fd])) \in Seq(Kinds)
    BY <2>2, TakenFacts
  <2>4. rx' \in [Conns -> Seq(Kinds)]
    BY <1>7, <2>3, <1>0 DEF ReadKeep, NetType
  <2>5. NetType'
    BY <1>7, <2>4, <1>0 DEF ReadKeep, NetType
  <2> QED  BY <1>7, <2>1, <2>5, <1>l, TypePartsPrimed DEF ReadKeep
<1> QED  BY <1>1, <1>2, <1>3, <1>4, <1>5, <1>6, <1>7 DEF dorequest

-----------------------------------------------------------------------------
(* The loop, and the number of connections *)

\* The scheduler's calls keep its ids in order
LEMMA IdFacts ==
  ASSUME TypeOK
  PROVE  /\ NoCo \notin CoIds /\ AcceptId \in CoIds /\ NoCo # AcceptId
         /\ Live \subseteq CoIds /\ NoCo \notin Requesters /\ NULL \notin Conns \cup Reqs \cup Timers
<1>1. NoCo \notin Nat
  BY DEF NoCo, Co!NoCo
<1>2. Live \subseteq CoIds
  BY TypeParts, CoTypes
<1> QED  BY <1>1, <1>2, WorkerAssumption DEF Requesters, AcceptId

\* Every step keeps the turns of the loop and its coroutines
LEMMA LoopInvStep ==
  ASSUME TypeOK, LoopInv, MemInv, Next
  PROVE  LoopInv'
<1>0. NoCo \notin CoIds /\ AcceptId \in CoIds /\ NoCo # AcceptId /\ Live \subseteq CoIds
  BY IdFacts
<1>a. ASSUME coVars' = coVars, current = NoCo, pc' \in {"top", "wait"} => events' = {} PROVE LoopInv'
  BY <1>a DEF LoopInv, coVars, Live
<1>b. ASSUME coVars' = coVars, pc' = pc, events' = events PROVE LoopInv'
  BY <1>b DEF LoopInv, coVars, Live
<1>c. ASSUME pc' = "events", current' \in Live' \cup {NoCo} PROVE LoopInv'
  BY <1>c DEF LoopInv
<1>d. ASSUME ProcessExit PROVE LoopInv'
  BY <1>d, ExitFacts DEF LoopInv
<1>e. ASSUME loopVars' = loopVars, pc = "events", current' \in Live' \cup {NoCo} PROVE LoopInv'
  BY <1>e, <1>c DEF loopVars
<1>1. CASE workerloop
  <2>1. CASE ExitLoop
    BY <2>1, <1>d DEF ExitLoop
  <2>2. CASE PrepareWait
    BY <2>2, <1>a DEF PrepareWait, Loop, LoopInv
  <2>3. CASE WaitReturn
    BY <2>3, <1>a DEF WaitReturn, Loop
  <2>4. CASE TimeoutFires
    <3>1. pc' = "events" /\ \E i \in {req[node[t].ud].coid : t \in Armed} : Co!Resume(i)
      BY <2>4 DEF TimeoutFires
    <3> QED  BY <3>1, <1>c, ResumeFacts
  <2>5. CASE NoTimeout \/ EndOfBatch
    BY <2>5, <1>a DEF NoTimeout, EndOfBatch, Loop
  <2>6. ASSUME NEW id \in CoIds, Dispatch(id) PROVE LoopInv'
    <3>1. pc' = "events" /\ current = NoCo
      BY <2>6 DEF Dispatch, Loop
    <3>2. CASE id \in Live
      BY <3>1, <3>2, <2>6, <1>c, ResumeFacts DEF Dispatch
    <3>3. CASE id \notin Live
      BY <3>1, <3>3, <2>6, <1>a DEF Dispatch
    <3> QED  BY <3>2, <3>3
  <2> QED  BY <1>1, <2>1, <2>2, <2>3, <2>4, <2>5, <2>6 DEF workerloop
<1>2. CASE acceptfun
  <2>1. current \in Live /\ current = AcceptId /\ pc = "events"
    BY <1>2, <1>0 DEF acceptfun, AcceptConn, AcceptWouldBlock, AcceptFails, LoopInv
  <2>2. ASSUME NEW c \in Conns, AcceptConn(c) PROVE LoopInv'
    <3>1. PICK id, f : Co!New(id, f)
      BY <2>2 DEF AcceptConn
    <3>2. current' \in Live'
      BY <3>1, <2>1, NewFacts
    <3> QED  BY <2>1, <2>2, <3>2, <1>c DEF AcceptConn
  <2>3. CASE AcceptWouldBlock
    BY <2>1, <2>3, <1>e, YieldFacts DEF AcceptWouldBlock
  <2>4. CASE AcceptFails
    BY <2>4, <1>d DEF AcceptFails
  <2> QED  BY <1>2, <2>2, <2>3, <2>4 DEF acceptfun
<1>3. CASE dorequest
  <2>1. CASE CloseConn
    <3>1. current' = NoCo /\ current # NoCo
      BY <2>1, ReturnFacts DEF CloseConn
    <3> QED  BY <2>1, <3>1, <1>c DEF CloseConn, LoopInv
  <2>2. CASE ReadNodot
    BY <2>2, <1>d DEF ReadNodot
  <2>3. ASSUME NEW f, loopVars' = loopVars, Co!Step(f) \/ Co!Yield(f) PROVE LoopInv'
    BY <2>3, <1>e, StepFacts, YieldFacts DEF LoopInv
  <2> QED  BY <1>3, <2>1, <2>2, <2>3 DEF dorequest, Start, Goto, AfterYield, ReadEnds, ReadLast,
                ReadWouldBlock, ReadPart, AfterPart, ReadKeep
<1>4. CASE Environment \/ Tick
  <2>1. coVars' = coVars /\ pc' = pc /\ events' = events
    BY <1>4 DEF Environment, Tick, Connect, AcceptedElsewhere, Hangup, Send, changestate_handler, loopVars
  <2> QED  BY <2>1, <1>b
<1> QED  BY <1>1, <1>2, <1>3, <1>4 DEF Next, Process

\* A connection that is accepted is counted
LEMMA AcceptCount ==
  ASSUME TypeOK, CountInv, NEW c \in Conns, AcceptConn(c)
  PROVE  CountInv' /\ Open' = Open \cup {c} /\ c \notin Open
<1>1. Open' = Open \cup {c} /\ c \notin Open
  BY TypeParts DEF AcceptConn, Open, NetType
<1>2. IsFiniteSet(Open') /\ Cardinality(Open') = Cardinality(Open) + 1
  BY <1>1, FS_AddElement DEF CountInv
<1>3. serve_fd_num' = Cardinality(Open')
  BY <1>2 DEF CountInv, AcceptConn
<1> QED  BY <1>1, <1>2, <1>3 DEF CountInv

\* The open connections change only where the counter does
LEMMA CountStep ==
  ASSUME TypeOK, LoopInv, MemInv, CountInv, Next
  PROVE  CountInv'
<1>a. ASSUME serve_fd_num' = serve_fd_num, Open' = Open PROVE CountInv'
  BY <1>a DEF CountInv
<1>b. ASSUME serve_fd_num' = serve_fd_num, cstate' = cstate PROVE CountInv'
  BY <1>a, <1>b DEF Open
<1>c. ASSUME ProcessExit PROVE CountInv'
  <2>1. Open' = {} /\ serve_fd_num' = 0
    BY <1>c, ExitFacts DEF Open
  <2> QED  BY <2>1, FS_EmptySet DEF CountInv
<1>1. CASE workerloop
  BY <1>1, <1>b, <1>c DEF workerloop, ExitLoop, PrepareWait, WaitReturn, TimeoutFires, NoTimeout,
     EndOfBatch, Dispatch, netVars
<1>2. CASE acceptfun
  BY <1>2, <1>b, <1>c, AcceptCount DEF acceptfun, AcceptWouldBlock, AcceptFails, loopVars, netVars
<1>3. CASE dorequest
  BY <1>3, <1>b, <1>c, CloseCount DEF dorequest, Start, Goto, AfterYield, ReadEnds, ReadLast,
     ReadWouldBlock, ReadPart, ReadNodot, ReadKeep, loopVars, netVars
<1>4. CASE Environment \/ Tick
  <2>1. serve_fd_num' = serve_fd_num /\ Open' = Open
    BY <1>4, TypeParts DEF Environment, Tick, Connect, AcceptedElsewhere, Hangup, Send,
       changestate_handler, loopVars, netVars, Open, NetType
  <2> QED  BY <2>1, <1>a
<1> QED  BY <1>1, <1>2, <1>3, <1>4 DEF Next, Process

-----------------------------------------------------------------------------
(* Requests, registrations and timers *)

\* The timers may run on, and the marked ones be freed while no coroutine runs
LEMMA MemTimers ==
  ASSUME TypeOK, MemInv, coVars' = coVars, req' = req, et' = et, Open' = Open,
         queue' \subseteq queue, queue' = queue \/ current = NoCo,
         \A t \in queue \ queue' : node[t].istimeout,
         \A t \in queue' : /\ node'[t].istimeout = node[t].istimeout /\ node'[t].ud = node[t].ud
                           /\ node[t].left = 0 => node'[t].left = 0
  PROVE  MemInv'
<1>1. Live' = Live /\ Requesters' = Requesters /\ alloc' = alloc /\ task' = task /\ current' = current
  BY DEF coVars, Live, Requesters, alloc
<1>2. OwnInv' /\ AllocInv' /\ RegInv'
  BY <1>1 DEF MemInv, OwnInv, AllocInv, RegInv
<1>3. TimerInv'
  <2> SUFFICES ASSUME NEW r \in alloc, req[r].timer # NULL
               PROVE  LET t == req[r].timer
                      IN  /\ t \in queue' /\ node'[t].ud = r
                          /\ node'[t].istimeout =>
                               /\ node'[t].left = 0 /\ current = req[r].coid
                               /\ task[current].frame.at \in {"eagain", "keepalive"}
    BY <1>1 DEF TimerInv
  <2> DEFINE t == req[r].timer
  <2>1. /\ t \in queue /\ node[t].ud = r
        /\ node[t].istimeout => /\ node[t].left = 0 /\ current = req[r].coid
                                /\ task[current].frame.at \in {"eagain", "keepalive"}
    BY DEF MemInv, TimerInv
  <2>2. req[r].coid # NoCo
    BY IdFacts DEF MemInv, AllocInv
  <2>3. t \in queue'
    BY <2>1, <2>2
  <2> QED  BY <2>1, <2>3
<1>4. ArmedInv'
  BY <1>1 DEF MemInv, ArmedInv
<1> QED  BY <1>2, <1>3, <1>4 DEF MemInv

\* A coroutine may be resumed, go on or yield with the request it has
LEMMA MemFrames ==
  ASSUME MemInv, Live' = Live, memVars' = memVars, et' = et, Open' = Open,
         \A i \in Requesters : task'[i].frame.req = task[i].frame.req
  PROVE  /\ AllocInv' /\ RegInv' /\ ArmedInv'
         /\ Requesters' = Requesters /\ alloc' = alloc /\ queue' = queue /\ req' = req /\ node' = node
<1>1. Requesters' = Requesters /\ alloc' = alloc /\ queue' = queue /\ req' = req /\ node' = node
  BY DEF memVars, Requesters, alloc, queue
<1>2. Requesters \subseteq Live
  BY DEF Requesters
<1>3. AllocInv'
  BY <1>1, <1>2 DEF MemInv, AllocInv
<1>4. RegInv'
  BY <1>1, <1>2 DEF MemInv, RegInv
<1>5. ArmedInv'
  BY <1>1 DEF MemInv, ArmedInv
<1> QED  BY <1>1, <1>3, <1>4, <1>5

\* An event resumes a coroutine that has yielded
LEMMA MemResume ==
  ASSUME TypeOK, LoopInv, MemInv, NEW id, Co!Resume(id), memVars' = memVars, et' = et, cstate' = cstate
  PROVE  MemInv'
<1>1. /\ current = NoCo /\ id \in Live /\ Live' = Live /\ current' = id
      /\ \A i \in Live : task'[i].frame = task[i].frame
  BY ResumeFacts
<1>2. Open' = Open
  BY DEF Open
<1>3. /\ AllocInv' /\ RegInv' /\ ArmedInv'
      /\ Requesters' = Requesters /\ alloc' = alloc /\ queue' = queue /\ req' = req /\ node' = node
  <2>1. \A i \in Requesters : task'[i].frame.req = task[i].frame.req
    BY <1>1 DEF Requesters
  <2> QED  BY <1>1, <1>2, <2>1, MemFrames
<1>4. Requesters \subseteq Live
  BY DEF Requesters
<1>5. OwnInv'
  BY <1>1, <1>3, <1>4, IdFacts DEF MemInv, OwnInv
<1>6. \A r \in alloc : req[r].coid # NoCo
  BY IdFacts DEF MemInv, AllocInv
<1>7. TimerInv'
  BY <1>1, <1>3, <1>6 DEF MemInv, TimerInv
<1> QED  BY <1>3, <1>5, <1>7 DEF MemInv

\* A request's timer is marked only while its coroutine is to look at it
LEMMA NotMarked ==
  ASSUME TypeOK, LoopInv, MemInv, NEW at, In(at), NEW r \in alloc, req[r].timer # NULL,
         node[req[r].timer].istimeout
  PROVE  r = Frame.req /\ at \in {"eagain", "keepalive"} /\ TimedOut /\ node[req[r].timer].left = 0
<1>1. current = req[r].coid /\ task[current].frame.at \in {"eagain", "keepalive"} /\ node[req[r].timer].left = 0
  BY DEF MemInv, TimerInv
<1>2. r = task[current].frame.req
  BY <1>1 DEF MemInv, AllocInv
<1>3. Frame = task[current].frame /\ Frame.at = at
  BY RunnerFacts
<1> QED  BY <1>1, <1>2, <1>3 DEF TimedOut

\* The running coroutine goes on to its next read, or waits for more
LEMMA MemRead ==
  ASSUME TypeOK, LoopInv, MemInv, NEW at, In(at), NEW f,
         (Co!Step(f) /\ f.at = "read") \/ (Co!Yield(f) /\ f.at = "eagain"),
         f.req = Frame.req, f.fd = req[Frame.req].fd,
         at \in {"eagain", "keepalive"} => ~ TimedOut,
         memVars' = memVars, et' = et, cstate' = cstate
  PROVE  MemInv'
<1>1. /\ Frame = task[current].frame /\ current \in Requesters /\ current \in Live /\ current # NoCo
      /\ Frame.req \in alloc /\ req[Frame.req].coid = current
  BY RunnerFacts
<1>2. /\ Live' = Live /\ (f.at = "read" => current' = current)
      /\ \A i \in Live : task'[i].frame = IF i = current THEN f ELSE task[i].frame
  BY StepFacts, YieldFacts
<1>3. Open' = Open
  BY DEF Open
<1>4. /\ AllocInv' /\ RegInv' /\ ArmedInv'
      /\ Requesters' = Requesters /\ alloc' = alloc /\ queue' = queue /\ req' = req /\ node' = node
  <2>1. \A i \in Requesters : task'[i].frame.req = task[i].frame.req
    BY <1>1, <1>2 DEF Requesters
  <2> QED  BY <1>2, <1>3, <2>1, MemFrames
<1>5. Requesters \subseteq Live
  BY DEF Requesters
<1>6. OwnInv'
  BY <1>1, <1>2, <1>4, <1>5 DEF MemInv, OwnInv
<1>7. \A r \in alloc : req[r].timer # NULL => ~ node[req[r].timer].istimeout
  BY NotMarked
<1>8. TimerInv'
  BY <1>4, <1>7 DEF MemInv, TimerInv
<1> QED  BY <1>4, <1>6, <1>8 DEF MemInv

\* Connection c is served by a new coroutine id with request r
Accepted(c, r, id) ==
    /\ current = AcceptId /\ current' = current /\ pc' = pc /\ AcceptId \in Live
    /\ Live' = Live \cup {id} /\ Requesters' = Requesters \cup {id} /\ id # AcceptId
    /\ task'[id].frame = [at |-> "start", fd |-> NULL, req |-> r]
    /\ \A i \in Live : task'[i] = task[i]
    /\ alloc' = alloc \cup {r} /\ req'[r] = init_request_t(c, id)
    /\ \A x \in alloc : req'[x] = req[x]
    /\ DOMAIN et' = DOMAIN et \cup {c} /\ et'[c] = id
    /\ \A x \in DOMAIN et \ {c} : et'[x] = et[x]
    /\ Open' = Open \cup {c} /\ c \notin Open
    /\ node' = node /\ queue' = queue

\* A connection accepted gets a coroutine, a request and a registration of its own
LEMMA AcceptFacts ==
  ASSUME TypeOK, LoopInv, NEW c \in Conns, AcceptConn(c)
  PROVE  \E r \in Reqs \ alloc, id \in CoIds \ Live : Accepted(c, r, id)
<1>1. PICK r \in Reqs \ alloc, id \in CoIds \ Live :
           /\ Co!New(id, [at |-> "start", fd |-> NULL, req |-> r])
           /\ req' = [x \in alloc \cup {r} |->
                         IF x = r THEN init_request_t(c, id) ELSE req[x]]
           /\ et' = [x \in DOMAIN et \cup {c} |-> IF x = c THEN id ELSE et[x]]
  BY DEF AcceptConn
<1>2. current = AcceptId /\ AcceptId \in Live /\ pc' = pc
  BY IdFacts DEF AcceptConn, LoopInv
<1>3. /\ Live' = Live \cup {id} /\ current' = current
      /\ task'[id] = [status |-> "READY", frame |-> [at |-> "start", fd |-> NULL, req |-> r]]
      /\ \A i \in Live : task'[i] = task[i]
  BY <1>1, NewFacts
<1>4. id # AcceptId
  BY <1>2
<1>5. Requesters' = Requesters \cup {id}
  BY <1>3, <1>4 DEF Requesters
<1>6. /\ alloc' = alloc \cup {r} /\ req'[r] = init_request_t(c, id)
      /\ \A x \in alloc : req'[x] = req[x]
  BY <1>1 DEF alloc
<1>7. /\ DOMAIN et' = DOMAIN et \cup {c} /\ et'[c] = id
      /\ \A x \in DOMAIN et \ {c} : et'[x] = et[x]
  BY <1>1
<1>8. Open' = Open \cup {c} /\ c \notin Open
  BY TypeParts DEF AcceptConn, Open, NetType
<1>9. node' = node /\ queue' = queue
  BY DEF AcceptConn, queue
<1> QED  BY <1>2, <1>3, <1>4, <1>5, <1>6, <1>7, <1>8, <1>9 DEF Accepted

\* ... so who owns what stays clear
LEMMA MemAccept ==
  ASSUME TypeOK, LoopInv, MemInv, NEW c \in Conns, AcceptConn(c)
  PROVE  MemInv'
<1>1. PICK r \in Reqs \ alloc, id \in CoIds \ Live : Accepted(c, r, id)
  BY AcceptFacts
<1> USE DEF Accepted
<1>2. Requesters \subseteq Live /\ DOMAIN et = Open /\ AcceptId \notin Requesters
  BY DEF Requesters, MemInv, RegInv
<1>3. /\ req'[r].fd = c /\ req'[r].coid = id /\ req'[r].timer = NULL
  BY <1>1 DEF init_request_t
<1>4. OwnInv'
  <2>1. ASSUME NEW i \in Requesters
        PROVE  LET f == task'[i].frame
               IN  /\ f.req \in alloc'
                   /\ req'[f.req].coid = i
                   /\ f.at # "start" => f.fd = req'[f.req].fd
                   /\ req'[f.req].fd \in DOMAIN et' /\ et'[req'[f.req].fd] = i
                   /\ i # current' => f.at # "read"
                   /\ req'[f.req].timer # NULL => f.at # "start"
    BY <1>1, <1>2 DEF MemInv, OwnInv
  <2>2. LET f == task'[id].frame
        IN  /\ f.req \in alloc'
            /\ req'[f.req].coid = id
            /\ f.at # "start" => f.fd = req'[f.req].fd
            /\ req'[f.req].fd \in DOMAIN et' /\ et'[req'[f.req].fd] = id
            /\ id # current' => f.at # "read"
            /\ req'[f.req].timer # NULL => f.at # "start"
    BY <1>1, <1>3
  <2> QED  BY <1>1, <2>1, <2>2 DEF OwnInv
<1>5. AllocInv'
  BY <1>1, <1>2, <1>3 DEF MemInv, AllocInv
<1>6. RegInv'
  <2>1. \A x \in DOMAIN et : et'[x] \in Requesters /\ req'[task'[et'[x]].frame.req].fd = x
    <3> SUFFICES ASSUME NEW x \in DOMAIN et
                 PROVE  et'[x] \in Requesters /\ req'[task'[et'[x]].frame.req].fd = x
      OBVIOUS
    <3>1. et'[x] = et[x] /\ et[x] \in Requesters /\ req[task[et[x]].frame.req].fd = x
      BY <1>1, <1>2 DEF MemInv, RegInv
    <3>2. task'[et[x]] = task[et[x]] /\ task[et[x]].frame.req \in alloc
      BY <3>1, <1>1, <1>2 DEF MemInv, OwnInv
    <3> QED  BY <3>1, <3>2, <1>1
  <2>2. et'[c] = id /\ req'[task'[id].frame.req].fd = c
    BY <1>1, <1>3
  <2> QED  BY <1>1, <1>2, <2>1, <2>2 DEF RegInv
<1>7. TimerInv'
  <2>1. \A x \in alloc : req[x].timer # NULL => ~ node[req[x].timer].istimeout
    BY <1>1, <1>2 DEF MemInv, TimerInv, AllocInv
  <2> QED  BY <1>1, <1>3, <2>1 DEF MemInv, TimerInv
<1>8. ArmedInv'
  BY <1>1 DEF MemInv, ArmedInv
<1> QED  BY <1>4, <1>5, <1>6, <1>7, <1>8 DEF MemInv

\* A connection closed takes its coroutine, its request and its registration along
LEMMA MemClose ==
  ASSUME TypeOK, LoopInv, MemInv, NEW at, at # "start", In(at), CloseConn
  PROVE  MemInv'
<1>1. /\ Frame.fd \in Open /\ Frame.fd = req[Frame.req].fd /\ Frame.req \in alloc
      /\ Live' = Live \ {current} /\ current' = NoCo /\ Requesters' = Requesters \ {current}
      /\ \A i \in Live' : task'[i] = task[i]
      /\ alloc' = alloc \ {Frame.req} /\ \A r \in alloc' : req'[r] = req[r]
      /\ DOMAIN et' = DOMAIN et \ {Frame.fd} /\ \A c \in DOMAIN et' : et'[c] = et[c]
      /\ Open' = Open \ {Frame.fd}
      /\ queue' = queue
      /\ \A t \in queue : node'[t] = IF t = req[Frame.req].timer
                                     THEN [node[t] EXCEPT !.istimeout = TRUE] ELSE node[t]
  BY CloseFacts
<1>2. /\ Frame = task[current].frame /\ current \in Requesters /\ current # NoCo
      /\ req[Frame.req].coid = current /\ et[Frame.fd] = current
  BY <1>1, RunnerFacts
<1>3. Requesters' \subseteq Live' /\ DOMAIN et = Open
  BY DEF Requesters, MemInv, RegInv
<1>4. \A i \in Requesters' : /\ i \in Requesters /\ i # current /\ task'[i] = task[i]
                             /\ task[i].frame.req \in alloc'
  BY <1>1, <1>2, <1>3 DEF MemInv, OwnInv
<1>5. OwnInv'
  <2> SUFFICES ASSUME NEW i \in Requesters'
               PROVE  LET f == task[i].frame
                      IN  /\ f.req \in alloc'
                          /\ req[f.req].coid = i
                          /\ f.at # "start" => f.fd = req[f.req].fd
                          /\ req[f.req].fd \in DOMAIN et' /\ et[req[f.req].fd] = i
                          /\ f.at # "read"
                          /\ req[f.req].timer # NULL => f.at # "start"
    BY <1>1, <1>4 DEF OwnInv
  <2> DEFINE f == task[i].frame
  <2>1. /\ req[f.req].coid = i
        /\ f.at # "start" => f.fd = req[f.req].fd
        /\ req[f.req].fd \in DOMAIN et /\ et[req[f.req].fd] = i
        /\ f.at # "read"
        /\ req[f.req].timer # NULL => f.at # "start"
    BY <1>4 DEF MemInv, OwnInv
  <2>2. req[f.req].fd # Frame.fd
    BY <2>1, <1>2, <1>4
  <2>3. req[f.req].fd \in DOMAIN et'
    BY <2>1, <2>2, <1>1
  <2> QED  BY <2>1, <2>3, <1>4
<1>6. \A r \in alloc' : /\ r \in alloc /\ req[r].coid \in Requesters /\ req[r].coid # current
                        /\ task[req[r].coid].frame.req = r
  BY <1>1, <1>2 DEF MemInv, AllocInv
<1>7. AllocInv'
  BY <1>1, <1>4, <1>6 DEF AllocInv
<1>8. RegInv'
  <2>1. ASSUME NEW c \in DOMAIN et'
        PROVE  et'[c] \in Requesters' /\ req'[task'[et'[c]].frame.req].fd = c
    <3>1. c \in DOMAIN et /\ c # Frame.fd /\ et'[c] = et[c]
      BY <1>1
    <3>2. et[c] \in Requesters /\ req[task[et[c]].frame.req].fd = c
      BY <3>1 DEF MemInv, RegInv
    <3>3. et[c] # current
      BY <3>1, <3>2, <1>1, <1>2
    <3>4. et[c] \in Requesters'
      BY <3>2, <3>3, <1>1
    <3> QED  BY <3>1, <3>2, <3>4, <1>1, <1>4
  <2> QED  BY <1>1, <1>3, <2>1 DEF RegInv
<1>9. \A r \in alloc' : req[r].timer # NULL =>
         LET t == req[r].timer
         IN  t \in queue /\ node[t].ud = r /\ ~ node[t].istimeout /\ t # req[Frame.req].timer
  <2> SUFFICES ASSUME NEW r \in alloc', req[r].timer # NULL
               PROVE  LET t == req[r].timer
                      IN  t \in queue /\ node[t].ud = r /\ ~ node[t].istimeout /\ t # req[Frame.req].timer
    OBVIOUS
  <2>1. r \in alloc /\ r # Frame.req /\ req[r].coid # current
    BY <1>1, <1>6
  <2>2. req[r].timer \in queue /\ node[req[r].timer].ud = r /\ ~ node[req[r].timer].istimeout
    BY <2>1 DEF MemInv, TimerInv
  <2>3. req[Frame.req].timer # NULL => node[req[Frame.req].timer].ud = Frame.req
    BY <1>1 DEF MemInv, TimerInv
  <2> QED  BY <2>1, <2>2, <2>3
<1>10. TimerInv'
  <2> SUFFICES ASSUME NEW r \in alloc', req[r].timer # NULL
               PROVE  /\ req[r].timer \in queue /\ node'[req[r].timer].ud = r
                      /\ ~ node'[req[r].timer].istimeout
    BY <1>1 DEF TimerInv
  <2>1. LET t == req[r].timer
        IN  t \in queue /\ node[t].ud = r /\ ~ node[t].istimeout /\ t # req[Frame.req].timer
    BY <1>9
  <2>2. node'[req[r].timer] = node[req[r].timer]
    BY <2>1, <1>1
  <2> QED  BY <2>1, <2>2
<1>11. ArmedInv'
  <2> SUFFICES ASSUME NEW t \in queue, ~ node'[t].istimeout
               PROVE  node'[t].ud \in alloc' /\ req'[node'[t].ud].timer = t
    BY <1>1 DEF ArmedInv
  <2>1. node[t] \in TimerNode
    BY TypeParts DEF NodeType
  <2>2. \A x \in TimerNode : [x EXCEPT !.istimeout = TRUE].istimeout
    BY DEF TimerNode
  <2>3. t # req[Frame.req].timer /\ node'[t] = node[t]
    BY <2>1, <2>2, <1>1
  <2>4. node[t].ud \in alloc /\ req[node[t].ud].timer = t
    BY <2>3 DEF MemInv, ArmedInv
  <2>5. node[t].ud # Frame.req
    BY <2>3, <2>4
  <2> QED  BY <2>3, <2>4, <2>5, <1>1
<1> QED  BY <1>5, <1>7, <1>8, <1>10, <1>11 DEF MemInv

\* The request of a connection kept alive is replaced under its coroutine
LEMMA MemKeep ==
  ASSUME TypeOK, LoopInv, MemInv, ReadKeep
  PROVE  MemInv'
<1>1. PICK new \in Reqs \ alloc, t \in Timers \ queue : KeptAlive(new, t)
  BY KeepFacts
<1> USE DEF KeptAlive
<1>2. /\ Frame = task[current].frame /\ current \in Requesters /\ current # NoCo
      /\ req[Frame.req].coid = current /\ et[Frame.fd] = current
  BY <1>1, RunnerFacts
<1>3. Requesters \subseteq Live /\ DOMAIN et = Open /\ et' = et /\ Open' = Open
  BY DEF Requesters, MemInv, RegInv, ReadKeep, Open
<1>4. /\ req'[new].fd = Frame.fd /\ req'[new].coid = current /\ req'[new].timer = t
  BY <1>1
<1>5. \A i \in Requesters \ {current} : /\ task'[i].frame = task[i].frame
                                        /\ task[i].frame.req \in alloc \ {Frame.req}
                                        /\ req'[task[i].frame.req] = req[task[i].frame.req]
  BY <1>1, <1>2, <1>3 DEF MemInv, OwnInv
<1>6. OwnInv'
  <2>1. ASSUME NEW i \in Requesters \ {current}
        PROVE  LET f == task'[i].frame
               IN  /\ f.req \in alloc'
                   /\ req'[f.req].coid = i
                   /\ f.at # "start" => f.fd = req'[f.req].fd
                   /\ req'[f.req].fd \in DOMAIN et' /\ et'[req'[f.req].fd] = i
                   /\ i # current' => f.at # "read"
                   /\ req'[f.req].timer # NULL => f.at # "start"
    <3> DEFINE f == task[i].frame
    <3>1. /\ req[f.req].coid = i
          /\ f.at # "start" => f.fd = req[f.req].fd
          /\ req[f.req].fd \in DOMAIN et /\ et[req[f.req].fd] = i
          /\ f.at # "read"
          /\ req[f.req].timer # NULL => f.at # "start"
      BY DEF MemInv, OwnInv
    <3> QED  BY <3>1, <1>1, <1>3, <1>5
  <2>2. LET f == task'[current].frame
        IN  /\ f.req \in alloc'
            /\ req'[f.req].coid = current
            /\ f.at # "start" => f.fd = req'[f.req].fd
            /\ req'[f.req].fd \in DOMAIN et' /\ et'[req'[f.req].fd] = current
            /\ f.at # "read"
            /\ req'[f.req].timer # NULL => f.at # "start"
    BY <1>1, <1>2, <1>3, <1>4
  <2> QED  BY <1>1, <2>1, <2>2 DEF OwnInv
<1>7. \A r \in alloc \ {Frame.req} : /\ req[r].coid \in Requesters \ {current}
                                     /\ task[req[r].coid].frame.req = r
  BY <1>1, <1>2 DEF MemInv, AllocInv
<1>8. AllocInv'
  <2>1. \A r \in alloc \ {Frame.req} : req'[r].coid \in Requesters /\ task'[req'[r].coid].frame.req = r
    BY <1>1, <1>5, <1>7
  <2>2. req'[new].coid \in Requesters /\ task'[req'[new].coid].frame.req = new
    BY <1>1, <1>2, <1>4
  <2> QED  BY <2>1, <2>2, <1>1 DEF AllocInv
<1>9. RegInv'
  <2>1. ASSUME NEW c \in DOMAIN et
        PROVE  et[c] \in Requesters /\ req'[task'[et[c]].frame.req].fd = c
    <3>1. et[c] \in Requesters /\ req[task[et[c]].frame.req].fd = c
      BY DEF MemInv, RegInv
    <3>2. CASE et[c] = current
      BY <3>1, <3>2, <1>1, <1>2, <1>4
    <3>3. CASE et[c] # current
      BY <3>1, <3>3, <1>5
    <3> QED  BY <3>1, <3>2, <3>3
  <2> QED  BY <1>1, <1>3, <2>1 DEF RegInv
<1>10. \A r \in alloc \ {Frame.req} : req[r].timer # NULL =>
         LET u == req[r].timer
         IN  u \in queue /\ node[u].ud = r /\ ~ node[u].istimeout /\ u # req[Frame.req].timer
  <2> SUFFICES ASSUME NEW r \in alloc \ {Frame.req}, req[r].timer # NULL
               PROVE  LET u == req[r].timer
                      IN  u \in queue /\ node[u].ud = r /\ ~ node[u].istimeout /\ u # req[Frame.req].timer
    OBVIOUS
  <2>1. req[r].timer \in queue /\ node[req[r].timer].ud = r /\ ~ node[req[r].timer].istimeout
    BY <1>7 DEF MemInv, TimerInv
  <2>2. req[Frame.req].timer # NULL => node[req[Frame.req].timer].ud = Frame.req
    BY <1>1 DEF MemInv, TimerInv
  <2> QED  BY <2>1, <2>2
<1>11. node'[t].ud = new /\ ~ node'[t].istimeout
  BY <1>1 DEF add_timer
<1>12. TimerInv'
  <2>1. ASSUME NEW r \in alloc \ {Frame.req}, req[r].timer # NULL
        PROVE  /\ req[r].timer \in queue' /\ node'[req[r].timer].ud = r
               /\ ~ node'[req[r].timer].istimeout
    <3>1. LET u == req[r].timer
          IN  u \in queue /\ node[u].ud = r /\ ~ node[u].istimeout /\ u # req[Frame.req].timer
      BY <2>1, <1>10
    <3>2. node'[req[r].timer] = node[req[r].timer]
      BY <3>1, <1>1
    <3> QED  BY <3>1, <3>2, <1>1
  <2> QED  BY <2>1, <1>1, <1>4, <1>11 DEF TimerInv
<1>13. ArmedInv'
  <2>1. ASSUME NEW u \in queue, ~ node'[u].istimeout
        PROVE  node'[u].ud \in alloc' /\ req'[node'[u].ud].timer = u
    <3>1. node[u] \in TimerNode
      BY TypeParts DEF NodeType
    <3>2. \A x \in TimerNode : [x EXCEPT !.istimeout = TRUE].istimeout
      BY DEF TimerNode
    <3>3. u # req[Frame.req].timer /\ node'[u] = node[u]
      BY <3>1, <3>2, <2>1, <1>1
    <3>4. node[u].ud \in alloc /\ req[node[u].ud].timer = u
      BY <3>3, <2>1 DEF MemInv, ArmedInv
    <3>5. node[u].ud # Frame.req
      BY <3>3, <3>4
    <3> QED  BY <3>3, <3>4, <3>5, <1>1
  <2>2. node'[t].ud \in alloc' /\ req'[node'[t].ud].timer = t
    BY <1>1, <1>4, <1>11
  <2> QED  BY <2>1, <2>2, <1>1 DEF ArmedInv
<1> QED  BY <1>6, <1>8, <1>9, <1>12, <1>13 DEF MemInv

\* Timer t has fired
Fired(t) ==
    /\ current = NoCo /\ events' = events
    /\ t \in queue /\ t \in queue' /\ queue' \subseteq queue
    /\ node[t].ud \in alloc /\ req[node[t].ud].timer = t
    /\ req[node[t].ud].coid \in Requesters
    /\ Co!Resume(req[node[t].ud].coid)
    /\ \A u \in queue \ queue' : node[u].istimeout
    /\ node'[t].istimeout /\ node'[t].left = 0 /\ node'[t].ud = node[t].ud
    /\ \A u \in queue' \ {t} : node'[u] = node[u]

\* The timer that fires is marked, and the coroutine of its request resumed
LEMMA TimeoutFacts ==
  ASSUME TypeOK, LoopInv, MemInv, TimeoutFires
  PROVE  \E t \in Armed : Fired(t)
<1>1. PICK gone \in SUBSET queue, t \in Armed :
           /\ Prunes(gone) /\ IsTop(t, gone) /\ Expired(t)
           /\ node' = [Kept(gone) EXCEPT ![t].istimeout = TRUE]
           /\ Co!Resume(req[node[t].ud].coid)
  BY DEF TimeoutFires
<1>2. /\ gone \subseteq queue /\ \A g \in gone : node[g].istimeout
      /\ DOMAIN Kept(gone) = queue \ gone
      /\ Kept(gone) \in [queue \ gone -> TimerNode]
      /\ \A u \in queue \ gone : Kept(gone)[u] = node[u]
  BY <1>1, TypeParts, PruneFacts
<1>3. t \in queue /\ ~ node[t].istimeout /\ t \in queue \ gone /\ node[t] \in TimerNode
  BY <1>1, <1>2, TypeParts DEF Armed, NodeType
<1>4. queue' = queue \ gone
  BY <1>1, <1>2 DEF queue
<1>5. \A x \in TimerNode : LET y == [x EXCEPT !.istimeout = TRUE]
                           IN  y.istimeout /\ y.left = x.left /\ y.ud = x.ud
  BY DEF TimerNode
<1>6. node'[t] = [node[t] EXCEPT !.istimeout = TRUE] /\ \A u \in queue' \ {t} : node'[u] = node[u]
  BY <1>1, <1>2, <1>3, <1>4
<1>7. node'[t].istimeout /\ node'[t].left = 0 /\ node'[t].ud = node[t].ud
  BY <1>1, <1>3, <1>5, <1>6 DEF Expired
<1>8. node[t].ud \in alloc /\ req[node[t].ud].timer = t /\ req[node[t].ud].coid \in Requesters
  BY <1>3 DEF MemInv, ArmedInv, AllocInv
<1>9. current = NoCo /\ events' = events
  BY DEF TimeoutFires, Loop
<1> QED  BY <1>1, <1>2, <1>3, <1>4, <1>6, <1>7, <1>8, <1>9 DEF Fired

\* ... and is the one whose mark its coroutine then looks at
LEMMA MemTimeout ==
  ASSUME TypeOK, LoopInv, MemInv, TimeoutFires
  PROVE  MemInv'
<1>1. PICK t \in Armed : Fired(t)
  BY TimeoutFacts
<1> USE DEF Fired
<1> DEFINE own == node[t].ud
           id == req[own].coid
<1>2. Live' = Live /\ current' = id /\ \A i \in Live : task'[i].frame = task[i].frame
  BY <1>1, ResumeFacts
<1>3. /\ Requesters' = Requesters /\ alloc' = alloc /\ req' = req /\ et' = et /\ Open' = Open
      /\ Requesters \subseteq Live /\ NoCo \notin Requesters /\ NULL \notin Timers
  BY <1>2, IdFacts DEF Requesters, alloc, TimeoutFires, netVars, Open
<1>4. OwnInv' /\ AllocInv' /\ RegInv'
  BY <1>1, <1>2, <1>3 DEF MemInv, OwnInv, AllocInv, RegInv
<1>5. id \in Requesters /\ task[id].frame.req = own /\ req[own].timer # NULL
  BY <1>1, <1>3, TypeParts DEF MemInv, AllocInv, NodeType
<1>6. task[id].frame.at # "read" /\ task[id].frame.at # "start"
  BY <1>1, <1>3, <1>5 DEF MemInv, OwnInv
<1>7. task[id].frame.at \in {"eagain", "keepalive"}
  <2>1. task[id].frame \in Frames
    BY <1>3, <1>5, TypeParts, CoTypes
  <2> QED  BY <1>6, <2>1 DEF Frames
<1>8. TimerInv'
  <2> SUFFICES ASSUME NEW r \in alloc, req[r].timer # NULL
               PROVE  LET u == req[r].timer
                      IN  /\ u \in queue' /\ node'[u].ud = r
                          /\ node'[u].istimeout =>
                               /\ node'[u].left = 0 /\ id = req[r].coid
                               /\ task[id].frame.at \in {"eagain", "keepalive"}
    BY <1>2, <1>3, <1>5 DEF TimerInv
  <2>1. req[r].timer \in queue /\ node[req[r].timer].ud = r /\ ~ node[req[r].timer].istimeout
    BY <1>1, <1>3 DEF MemInv, TimerInv, AllocInv
  <2>2. req[r].timer \in queue'
    BY <2>1, <1>1
  <2>3. CASE r = own
    BY <2>3, <1>1, <1>7
  <2>4. CASE r # own
    BY <2>1, <2>2, <2>4, <1>1
  <2> QED  BY <2>3, <2>4
<1>9. ArmedInv'
  BY <1>1, <1>3 DEF MemInv, ArmedInv
<1> QED  BY <1>4, <1>8, <1>9 DEF MemInv

\* The accepting coroutine yields
LEMMA MemIdle ==
  ASSUME TypeOK, LoopInv, MemInv, AcceptWouldBlock
  PROVE  MemInv'
<1>1. /\ current = AcceptId /\ Live' = Live
      /\ \A i \in Live : task'[i].frame = IF i = current THEN AcceptFrame ELSE task[i].frame
  BY YieldFacts DEF AcceptWouldBlock
<1>2. Requesters \subseteq Live /\ AcceptId \notin Requesters /\ et' = et /\ Open' = Open /\ memVars' = memVars
  BY DEF Requesters, AcceptWouldBlock, netVars, Open
<1>3. \A i \in Requesters : task'[i].frame = task[i].frame
  BY <1>1, <1>2
<1>4. /\ AllocInv' /\ RegInv' /\ ArmedInv'
      /\ Requesters' = Requesters /\ alloc' = alloc /\ queue' = queue /\ req' = req /\ node' = node
  BY <1>1, <1>2, <1>3, MemFrames
<1>5. OwnInv'
  BY <1>1, <1>2, <1>3, <1>4 DEF MemInv, OwnInv
<1>6. TimerInv'
  BY <1>1, <1>2, <1>4 DEF MemInv, TimerInv, AllocInv
<1> QED  BY <1>4, <1>5, <1>6 DEF MemInv

\* A part of a request is read into its buffer
LEMMA MemPart ==
  ASSUME TypeOK, LoopInv, MemInv, ReadPart
  PROVE  /\ MemInv'
         /\ Live' = Live /\ current' = current /\ alloc' = alloc /\ Armed' = Armed
         /\ \A r \in alloc : req'[r].fd = req[r].fd
<1>1. In("read") /\ Co!Step(Frame)
  BY DEF ReadPart, AfterPart
<1>2. Frame = task[current].frame /\ Frame.req \in alloc
  BY <1>1, RunnerFacts
<1>3. /\ Live' = Live /\ current' = current
      /\ \A i \in Live : task'[i].frame = task[i].frame
  BY <1>1, <1>2, StepFacts
<1>4. /\ Requesters' = Requesters /\ alloc' = alloc /\ node' = node /\ queue' = queue /\ et' = et
      /\ Open' = Open /\ Requesters \subseteq Live /\ Armed' = Armed
  BY <1>3 DEF Requesters, ReadPart, alloc, queue, Open, Armed
<1>5. \A r \in alloc : req'[r].fd = req[r].fd /\ req'[r].coid = req[r].coid /\ req'[r].timer = req[r].timer
  <2>1. \A x \in Request, n \in Nat : LET y == [x EXCEPT !.len = n]
                                      IN  y.fd = x.fd /\ y.coid = x.coid /\ y.timer = x.timer
    BY DEF Request
  <2>2. req[Frame.req].len + Taken \in Nat
    BY <1>1, TakenFacts, WorkerAssumption
  <2>3. /\ req[Frame.req] \in Request
        /\ req'[Frame.req] = [req[Frame.req] EXCEPT !.len = req[Frame.req].len + Taken]
        /\ \A r \in alloc \ {Frame.req} : req'[r] = req[r]
    BY <1>2, TypeParts DEF ReadPart, ReqType
  <2>4. /\ req'[Frame.req].fd = req[Frame.req].fd /\ req'[Frame.req].coid = req[Frame.req].coid
        /\ req'[Frame.req].timer = req[Frame.req].timer
    BY <2>1, <2>2, <2>3
  <2> QED  BY <2>3, <2>4
<1>6. OwnInv'
  BY <1>3, <1>4, <1>5 DEF MemInv, OwnInv
<1>7. AllocInv'
  BY <1>3, <1>4, <1>5 DEF MemInv, AllocInv
<1>8. RegInv'
  <2>1. \A c \in DOMAIN et : et[c] \in Requesters /\ task[et[c]].frame.req \in alloc
    BY DEF MemInv, RegInv, OwnInv
  <2> QED  BY <2>1, <1>3, <1>4, <1>5 DEF MemInv, RegInv
<1>9. TimerInv'
  <2>1. \A r \in alloc : req[r].timer # NULL => ~ node[req[r].timer].istimeout
    BY <1>1, NotMarked
  <2> QED  BY <2>1, <1>4, <1>5 DEF MemInv, TimerInv
<1>10. ArmedInv'
  BY <1>4, <1>5 DEF MemInv, ArmedInv
<1> QED  BY <1>3, <1>4, <1>5, <1>6, <1>7, <1>8, <1>9, <1>10 DEF MemInv

\* An environment step changes no open connection
LEMMA ClientFacts ==
  ASSUME TypeOK, NEW c \in Conns,
         Connect(c) \/ AcceptedElsewhere(c) \/ Hangup(c) \/ \E kind \in Kinds : Send(c, kind)
  PROVE  Open' = Open /\ loopVars' = loopVars /\ coVars' = coVars /\ memVars' = memVars /\ et' = et
BY TypeParts DEF Connect, AcceptedElsewhere, Hangup, Send, Open, NetType

\* Every step keeps requests, registrations and timers in order
LEMMA MemStep ==
  ASSUME TypeOK, LoopInv, MemInv, Next
  PROVE  MemInv'
<1>a. ASSUME coVars' = coVars, memVars' = memVars, et' = et, Open' = Open PROVE MemInv'
  <2>1. req' = req /\ node' = node /\ queue' = queue
    BY <1>a DEF memVars, queue
  <2> QED  BY <1>a, <2>1, MemTimers
<1>k. ASSUME coVars' = coVars, req' = req, netVars' = netVars, current = NoCo,
             NEW gone, Prunes(gone), node' = Kept(gone)
      PROVE  MemInv'
  <2>1. /\ gone \subseteq queue /\ (\A g \in gone : node[g].istimeout)
        /\ DOMAIN Kept(gone) = queue \ gone
        /\ \A t \in queue \ gone : Kept(gone)[t] = node[t]
    BY <1>k, TypeParts, PruneFacts
  <2>2. queue' = queue \ gone /\ \A t \in queue' : node'[t] = node[t]
    BY <2>1, <1>k DEF queue
  <2>3. et' = et /\ Open' = Open
    BY <1>k DEF netVars, Open
  <2> QED  BY <1>k, <2>1, <2>2, <2>3, MemTimers
<1>d. ASSUME ProcessExit PROVE MemInv'
  <2>1. Requesters' = {} /\ Open' = {}
    BY <1>d, ExitFacts DEF Requesters, Open
  <2> QED  BY <1>d, <2>1, ExitFacts DEF MemInv, OwnInv, AllocInv, RegInv, TimerInv, ArmedInv
<1>1. CASE workerloop
  <2>1. CASE ExitLoop
    BY <2>1, <1>d DEF ExitLoop
  <2>2. CASE PrepareWait
    BY <2>2, <1>k DEF PrepareWait, Loop
  <2>3. CASE WaitReturn \/ EndOfBatch
    <3>1. coVars' = coVars /\ memVars' = memVars /\ et' = et /\ cstate' = cstate
      BY <2>3 DEF WaitReturn, EndOfBatch, netVars
    <3>2. Open' = Open
      BY <3>1 DEF Open
    <3> QED  BY <3>1, <3>2, <1>a
  <2>4. CASE TimeoutFires
    BY <2>4, MemTimeout
  <2>5. CASE NoTimeout
    BY <2>5, <1>k DEF NoTimeout, Loop
  <2>6. ASSUME NEW id \in CoIds, Dispatch(id) PROVE MemInv'
    <3>1. memVars' = memVars /\ et' = et /\ cstate' = cstate
      BY <2>6 DEF Dispatch, netVars
    <3>2. CASE id \in Live
      BY <3>1, <3>2, <2>6, MemResume DEF Dispatch
    <3>3. CASE id \notin Live
      <4>1. coVars' = coVars /\ Open' = Open
        BY <3>1, <3>3, <2>6 DEF Dispatch, Open
      <4> QED  BY <3>1, <4>1, <1>a
    <3> QED  BY <3>2, <3>3
  <2> QED  BY <1>1, <2>1, <2>2, <2>3, <2>4, <2>5, <2>6 DEF workerloop
<1>2. CASE acceptfun
  BY <1>2, <1>d, MemAccept, MemIdle DEF acceptfun, AcceptFails
<1>3. CASE dorequest
  <2>1. CASE Start
    <3> DEFINE f == [Frame EXCEPT !.at = "read", !.fd = req[Frame.req].fd]
    <3>1. In("start") /\ Co!Step(f) /\ memVars' = memVars /\ et' = et /\ cstate' = cstate
      BY <2>1 DEF Start, Goto, netVars
    <3>2. f.at = "read" /\ f.req = Frame.req /\ f.fd = req[Frame.req].fd
      BY <3>1, RunnerFacts DEF Frames
    <3> HIDE DEF f
    <3>3. /\ (Co!Step(f) /\ f.at = "read") \/ (Co!Yield(f) /\ f.at = "eagain")
          /\ "start" \in {"eagain", "keepalive"} => ~ TimedOut
      BY <3>1, <3>2
    <3> QED  BY <3>1, <3>2, <3>3, MemRead, Zenon
  <2>2. CASE AfterYield /\ ~ TimedOut
    <3> DEFINE f == [Frame EXCEPT !.at = "read"]
    <3>1. /\ In("eagain") \/ In("keepalive")
          /\ Co!Step(f) /\ memVars' = memVars /\ et' = et /\ cstate' = cstate
      BY <2>2 DEF AfterYield, Goto, netVars
    <3>2. f.at = "read" /\ f.req = Frame.req /\ f.fd = req[Frame.req].fd
      BY <3>1, RunnerFacts DEF Frames
    <3> HIDE DEF f
    <3>3. PICK at : In(at)
      BY <3>1
    <3>4. /\ (Co!Step(f) /\ f.at = "read") \/ (Co!Yield(f) /\ f.at = "eagain")
          /\ at \in {"eagain", "keepalive"} => ~ TimedOut
      BY <3>1, <3>2, <2>2
    <3> QED  BY <3>1, <3>2, <3>3, <3>4, MemRead, Zenon
  <2>3. CASE AfterYield /\ TimedOut
    BY <2>3, MemClose DEF AfterYield
  <2>4. CASE ReadEnds \/ ReadLast
    BY <2>4, MemClose DEF ReadEnds, ReadLast
  <2>5. CASE ReadWouldBlock
    <3> DEFINE f == [Frame EXCEPT !.at = "eagain"]
    <3>1. In("read") /\ Co!Yield(f) /\ memVars' = memVars /\ et' = et /\ cstate' = cstate
      BY <2>5 DEF ReadWouldBlock, netVars
    <3>2. f.at = "eagain" /\ f.req = Frame.req /\ f.fd = req[Frame.req].fd
      BY <3>1, RunnerFacts DEF Frames
    <3> HIDE DEF f
    <3> QED  BY <3>1, <3>2, MemRead
  <2>6. CASE ReadPart
    BY <2>6, MemPart
  <2>7. CASE ReadKeep
    BY <2>7, MemKeep
  <2>8. CASE ReadNodot
    BY <2>8, <1>d DEF ReadNodot
  <2> QED  BY <1>3, <2>1, <2>2, <2>3, <2>4, <2>5, <2>6, <2>7, <2>8 DEF dorequest
<1>4. CASE \E c \in Conns : Connect(c) \/ AcceptedElsewhere(c) \/ Hangup(c) \/ \E kind \in Kinds : Send(c, kind)
  BY <1>4, ClientFacts, <1>a
<1>5. CASE changestate_handler
  <2>1. coVars' = coVars /\ memVars' = memVars /\ et' = et /\ Open' = Open
    BY <1>5 DEF changestate_handler, netVars, Open
  <2> QED  BY <2>1, <1>a
<1>6. CASE Tick
  <2>1. coVars' = coVars /\ req' = req /\ et' = et /\ Open' = Open
    BY <1>6 DEF Tick, netVars, Open
  <2>2. queue' = queue /\ \A t \in queue : node'[t] = [node[t] EXCEPT !.left = IF @ > 0 THEN @ - 1 ELSE 0]
    BY <1>6 DEF Tick, queue
  <2>3. \A x \in TimerNode : LET y == [x EXCEPT !.left = IF @ > 0 THEN @ - 1 ELSE 0]
                             IN  y.istimeout = x.istimeout /\ y.ud = x.ud /\ (x.left = 0 => y.left = 0)
    BY DEF TimerNode
  <2>4. \A t \in queue' : /\ node'[t].istimeout = node[t].istimeout /\ node'[t].ud = node[t].ud
                          /\ node[t].left = 0 => node'[t].left = 0
    BY <2>2, <2>3, TypeParts DEF NodeType
  <2> QED  BY <2>1, <2>2, <2>4, MemTimers
<1> QED  BY <1>1, <1>2, <1>3, <1>4, <1>5, <1>6 DEF Next, Process, Environment

-----------------------------------------------------------------------------
(* No connection is left waiting without an event or a timer *)

\* The registered connection of a running coroutine is its own
LEMMA OwnConnection ==
  ASSUME TypeOK, LoopInv, MemInv, NEW at, at # "start", In(at), NEW c \in DOMAIN et, et[c] = current
  PROVE  c = Frame.fd
<1>1. req[task[et[c]].frame.req].fd = c
  BY DEF MemInv, RegInv
<1>2. Frame = task[current].frame /\ Frame.fd = req[Frame.req].fd
  BY RunnerFacts
<1> QED  BY <1>1, <1>2

\* Nothing happens to a connection that has an event or a timer while it keeps one
LEMMA StallKeep ==
  ASSUME NoSilentStall, rx' = rx, peer' = peer, et' = et, edge' = edge,
         \A c \in DOMAIN et : Readable(c) /\ et[c] \in events \cup {current}
                                 => et[c] \in events' \cup {current'},
         \A t \in Armed : \/ t \in Armed' /\ req'[node'[t].ud].fd = req[node[t].ud].fd
                          \/ et[req[node[t].ud].fd] = current'
  PROVE  NoSilentStall'
<1> SUFFICES ASSUME NEW c \in DOMAIN et, Readable(c)
             PROVE  \/ c \in edge
                    \/ et[c] \in events' \cup {current'}
                    \/ \E t \in Armed' : req'[node'[t].ud].fd = c
  BY DEF NoSilentStall, Readable
<1>1. CASE c \in edge
  BY <1>1
<1>2. CASE et[c] \in events \cup {current}
  BY <1>2
<1>3. CASE \E t \in Armed : req[node[t].ud].fd = c
  BY <1>3
<1> QED  BY <1>1, <1>2, <1>3 DEF NoSilentStall

\* The timers may run on, and the marked ones be freed
LEMMA StallTimers ==
  ASSUME TypeOK, MemInv, NoSilentStall, netVars' = netVars, req' = req,
         \A c \in DOMAIN et : Readable(c) /\ et[c] \in events \cup {current}
                                 => et[c] \in events' \cup {current'},
         queue' \subseteq queue, \A t \in queue \ queue' : node[t].istimeout,
         \A t \in queue' : node'[t].istimeout = node[t].istimeout /\ node'[t].ud = node[t].ud
  PROVE  NoSilentStall'
<1>1. \A t \in Armed : t \in Armed' /\ req'[node'[t].ud].fd = req[node[t].ud].fd
  BY DEF Armed
<1> QED  BY <1>1, StallKeep DEF netVars

\* The events and timers of the other connections survive a close
LEMMA StallClose ==
  ASSUME TypeOK, LoopInv, MemInv, NoSilentStall, NEW at, at # "start", In(at), CloseConn
  PROVE  NoSilentStall'
<1>1. /\ Frame.fd \in Open /\ Frame.fd = req[Frame.req].fd /\ Frame.req \in alloc
      /\ alloc' = alloc \ {Frame.req} /\ (\A r \in alloc' : req'[r] = req[r])
      /\ DOMAIN et' = DOMAIN et \ {Frame.fd} /\ (\A c \in DOMAIN et' : et'[c] = et[c])
      /\ queue' = queue
      /\ \A t \in queue : node'[t] = IF t = req[Frame.req].timer
                                     THEN [node[t] EXCEPT !.istimeout = TRUE] ELSE node[t]
  BY CloseFacts
<1>2. SUFFICES ASSUME NEW c \in DOMAIN et', Readable(c)'
               PROVE  \/ c \in edge'
                      \/ et'[c] \in events' \cup {current'}
                      \/ \E t \in Armed' : req'[node'[t].ud].fd = c
  BY DEF NoSilentStall
<1>3. c \in DOMAIN et /\ c # Frame.fd /\ et'[c] = et[c] /\ events' = events /\ edge' = edge \ {Frame.fd}
  BY <1>1 DEF CloseConn
<1>4. c \in Conns /\ Readable(c)
  BY <1>2, <1>3, TypeParts DEF Readable, CloseConn, NetType
<1>5. et[c] # current
  BY <1>3, OwnConnection
<1>6. ASSUME NEW t \in Armed, req[node[t].ud].fd = c
      PROVE  t \in Armed' /\ req'[node'[t].ud].fd = c
  <2>1. t \in queue /\ ~ node[t].istimeout /\ node[t].ud \in alloc
    BY <1>6 DEF Armed, MemInv, ArmedInv
  <2>2. node[t].ud # Frame.req
    BY <1>1, <1>3, <1>6
  <2>3. t \in Timers /\ t # NULL
    BY <2>1, TypeParts, IdFacts DEF NodeType
  <2>4. t # req[Frame.req].timer
    BY <1>1, <2>2, <2>3 DEF MemInv, TimerInv
  <2>5. node'[t] = node[t]
    BY <1>1, <2>1, <2>4
  <2> QED  BY <1>1, <1>6, <2>1, <2>2, <2>5 DEF Armed
<1>7. \/ c \in edge
      \/ et[c] \in events \cup {current}
      \/ \E t \in Armed : req[node[t].ud].fd = c
  BY <1>3, <1>4 DEF NoSilentStall
<1> QED  BY <1>3, <1>5, <1>6, <1>7

\* A connection kept alive, which yields with segments unread, has a timer
LEMMA StallKeepAlive ==
  ASSUME TypeOK, LoopInv, MemInv, NoSilentStall, ReadKeep
  PROVE  NoSilentStall'
<1>1. PICK new \in Reqs \ alloc, t \in Timers \ queue : KeptAlive(new, t)
  BY KeepFacts
<1> USE DEF KeptAlive
<1>2. events' = events /\ edge' = edge /\ et' = et /\ peer' = peer
  BY DEF ReadKeep, loopVars
<1>3. SUFFICES ASSUME NEW c \in DOMAIN et, Readable(c)'
               PROVE  \/ c \in edge
                      \/ et[c] \in events
                      \/ \E u \in Armed' : req'[node'[u].ud].fd = c
  BY <1>2 DEF NoSilentStall
<1>4. CASE c = Frame.fd
  <2>1. node'[t].ud = new /\ ~ node'[t].istimeout
    BY <1>1 DEF add_timer
  <2>2. t \in Armed' /\ req'[node'[t].ud].fd = c
    BY <1>1, <1>4, <2>1 DEF Armed
  <2> QED  BY <2>2
<1>5. CASE c # Frame.fd
  <2>1. c \in Conns /\ Readable(c)
    BY <1>2, <1>3, <1>5, TypeParts DEF Readable, ReadKeep, NetType
  <2>2. et[c] # current
    BY <1>1, <1>5, OwnConnection
  <2>3. ASSUME NEW u \in Armed, req[node[u].ud].fd = c
        PROVE  u \in Armed' /\ req'[node'[u].ud].fd = c
    <3>1. u \in queue /\ ~ node[u].istimeout /\ node[u].ud \in alloc
      BY <2>3 DEF Armed, MemInv, ArmedInv
    <3>2. node[u].ud # Frame.req
      BY <1>1, <1>5, <2>3
    <3>3. u \in Timers /\ u # NULL
      BY <3>1, TypeParts, IdFacts DEF NodeType
    <3>4. u # req[Frame.req].timer
      BY <1>1, <3>2, <3>3 DEF MemInv, TimerInv
    <3>5. node'[u] = node[u]
      BY <1>1, <3>1, <3>4
    <3> QED  BY <1>1, <2>3, <3>1, <3>2, <3>5 DEF Armed
  <2>4. \/ c \in edge
        \/ et[c] \in events \cup {current}
        \/ \E u \in Armed : req[node[u].ud].fd = c
    BY <2>1 DEF NoSilentStall
  <2> QED  BY <2>2, <2>3, <2>4
<1> QED  BY <1>4, <1>5

\* A connection that is readable when accepted gets its edge
LEMMA StallAccept ==
  ASSUME TypeOK, LoopInv, MemInv, NoSilentStall, NEW c \in Conns, AcceptConn(c)
  PROVE  NoSilentStall'
<1>1. /\ DOMAIN et' = DOMAIN et \cup {c} /\ \A x \in DOMAIN et \ {c} : et'[x] = et[x]
      /\ \A r \in alloc : req'[r] = req[r]
      /\ node' = node /\ queue' = queue /\ current' = current
  BY AcceptFacts DEF Accepted
<1>2. /\ events' = events /\ rx' = rx /\ peer' = peer
      /\ edge' = IF Readable(c) THEN edge \cup {c} ELSE edge
  BY DEF AcceptConn
<1>3. SUFFICES ASSUME NEW x \in DOMAIN et', Readable(x)
               PROVE  \/ x \in edge'
                      \/ et'[x] \in events' \cup {current'}
                      \/ \E t \in Armed' : req'[node'[t].ud].fd = x
  BY <1>2 DEF NoSilentStall, Readable
<1>4. CASE x = c
  BY <1>2, <1>3, <1>4
<1>5. CASE x # c
  <2>1. x \in DOMAIN et /\ et'[x] = et[x] /\ edge \subseteq edge'
    BY <1>1, <1>2, <1>5
  <2>2. Armed' = Armed
    BY <1>1 DEF Armed
  <2>3. \A t \in Armed : req'[node'[t].ud].fd = req[node[t].ud].fd
    BY <1>1 DEF Armed, MemInv, ArmedInv
  <2> QED  BY <1>1, <1>2, <1>3, <2>1, <2>2, <2>3 DEF NoSilentStall
<1> QED  BY <1>4, <1>5

\* What a client does to an open connection is an edge
LEMMA StallClients ==
  ASSUME TypeOK, LoopInv, MemInv, NoSilentStall, NEW c \in Conns,
         Connect(c) \/ AcceptedElsewhere(c) \/ Hangup(c) \/ \E kind \in Kinds : Send(c, kind)
  PROVE  NoSilentStall'
<1>1. /\ loopVars' = loopVars /\ coVars' = coVars /\ memVars' = memVars /\ et' = et
      /\ Open' = Open /\ DOMAIN et = Open /\ Open \subseteq Conns
  BY ClientFacts DEF MemInv, RegInv, Open
<1>2. events' = events /\ current' = current /\ req' = req /\ node' = node /\ Armed' = Armed
  BY <1>1 DEF loopVars, coVars, memVars, Armed, queue
<1>3. \A x \in Conns \ {c} : Readable(x)' <=> Readable(x)
  BY TypeParts DEF Readable, Connect, AcceptedElsewhere, Hangup, Send, NetType
<1>4. edge \subseteq edge'
  BY DEF Connect, AcceptedElsewhere, Hangup, Send, NewEdge
<1>5. \/ (Readable(c)' <=> Readable(c))
      \/ c \in DOMAIN et => c \in edge'
  BY <1>1 DEF Readable, Connect, AcceptedElsewhere, Hangup, Send, NewEdge
<1>6. SUFFICES ASSUME NEW x \in DOMAIN et, Readable(x)'
               PROVE  \/ x \in edge'
                      \/ et[x] \in events \cup {current}
                      \/ \E t \in Armed : req[node[t].ud].fd = x
  BY <1>1, <1>2 DEF NoSilentStall
<1> QED  BY <1>1, <1>3, <1>4, <1>5, <1>6 DEF NoSilentStall

\* What epoll_wait takes out of the set of edges is in the batch
LEMMA StallWait ==
  ASSUME TypeOK, LoopInv, MemInv, NoSilentStall, WaitReturn
  PROVE  NoSilentStall'
<1>1. /\ coVars' = coVars /\ req' = req /\ node' = node /\ rx' = rx /\ peer' = peer /\ et' = et
      /\ events = {} /\ current = NoCo
      /\ edge' = {c \in edge : ~ (c \in DOMAIN et /\ Readable(c) /\ et[c] \in events')}
  BY DEF WaitReturn, memVars, Loop, LoopInv
<1>2. \A c \in DOMAIN et : et[c] # NoCo
  BY IdFacts DEF MemInv, RegInv
<1>3. Armed' = Armed
  BY <1>1 DEF Armed, queue
<1> QED  BY <1>1, <1>2, <1>3 DEF NoSilentStall, Readable

\* The connection that loses its armed timer is resumed
LEMMA StallTimeout ==
  ASSUME TypeOK, LoopInv, MemInv, NoSilentStall, TimeoutFires
  PROVE  NoSilentStall'
<1>1. PICK t \in Armed : Fired(t)
  BY TimeoutFacts
<1> USE DEF Fired
<1>2. current' = req[node[t].ud].coid
  BY <1>1, ResumeFacts
<1>3. et[req[node[t].ud].fd] = current'
  BY <1>1, <1>2 DEF MemInv, OwnInv, AllocInv
<1>4. req' = req /\ rx' = rx /\ peer' = peer /\ et' = et /\ edge' = edge
  BY DEF TimeoutFires, netVars
<1>5. \A u \in Armed \ {t} : u \in Armed' /\ req'[node'[u].ud].fd = req[node[u].ud].fd
  BY <1>1, <1>4 DEF Armed
<1>6. \A c \in DOMAIN et : et[c] # NoCo
  BY IdFacts DEF MemInv, RegInv
<1> QED  BY <1>1, <1>3, <1>4, <1>5, <1>6, StallKeep

\* A read that would block has nothing to read
LEMMA StallBlock ==
  ASSUME TypeOK, LoopInv, MemInv, NoSilentStall, ReadWouldBlock
  PROVE  NoSilentStall'
<1>1. In("read") /\ ~ Readable(Frame.fd)
  <2>1. In("read") /\ Frame.fd \in Conns
    BY RunnerFacts DEF ReadWouldBlock
  <2> QED  BY <2>1 DEF ReadWouldBlock, Readable, Unread
<1>2. \A c \in DOMAIN et : Readable(c) => et[c] # current
  BY <1>1, OwnConnection
<1>3. /\ netVars' = netVars /\ req' = req /\ node' = node /\ queue' = queue /\ events' = events
  BY DEF ReadWouldBlock, memVars, loopVars, queue
<1> QED  BY <1>2, <1>3, StallTimers

\* A connection that is read is running
LEMMA StallPart ==
  ASSUME TypeOK, LoopInv, MemInv, NoSilentStall, ReadPart
  PROVE  NoSilentStall'
<1>1. /\ current' = current /\ Armed' = Armed
      /\ \A r \in alloc : req'[r].fd = req[r].fd
  BY MemPart
<1>2. events' = events /\ edge' = edge /\ et' = et /\ peer' = peer /\ node' = node /\ In("read")
  BY DEF ReadPart, loopVars
<1>3. Frame.fd \in Conns /\ Frame.fd = req[Frame.req].fd /\ et[Frame.fd] = current
  BY <1>2, RunnerFacts
<1>4. \A c \in Conns \ {Frame.fd} : rx'[c] = rx[c]
  BY TypeParts DEF ReadPart, NetType
<1>5. \A t \in Armed : req'[node'[t].ud].fd = req[node[t].ud].fd
  BY <1>1, <1>2 DEF Armed, MemInv, ArmedInv
<1>6. SUFFICES ASSUME NEW c \in DOMAIN et, Readable(c)'
               PROVE  \/ c \in edge
                      \/ et[c] \in events \cup {current}
                      \/ \E t \in Armed : req[node[t].ud].fd = c
  BY <1>1, <1>2, <1>5 DEF NoSilentStall
<1>7. CASE c = Frame.fd
  BY <1>3, <1>7
<1>8. CASE c # Frame.fd
  <2>1. Readable(c)
    BY <1>2, <1>4, <1>6, <1>8, TypeParts DEF Readable, NetType
  <2> QED  BY <2>1 DEF NoSilentStall
<1> QED  BY <1>7, <1>8

\* Every step leaves each readable connection an event, a turn or a timer
LEMMA StallStep ==
  ASSUME TypeOK, LoopInv, MemInv, NoSilentStall, Next
  PROVE  NoSilentStall'
<1>c. \A c \in DOMAIN et : et[c] # NoCo /\ et[c] \in Live /\ et[c] # AcceptId
  BY IdFacts DEF MemInv, RegInv, Requesters
<1>a. ASSUME netVars' = netVars, memVars' = memVars,
             \A c \in DOMAIN et : Readable(c) /\ et[c] \in events \cup {current}
                                 => et[c] \in events' \cup {current'}
      PROVE  NoSilentStall'
  <2>1. req' = req /\ node' = node /\ queue' = queue
    BY <1>a DEF memVars, queue
  <2> QED  BY <1>a, <2>1, StallTimers
<1>k. ASSUME coVars' = coVars, req' = req, netVars' = netVars, events' = events,
             NEW gone, Prunes(gone), node' = Kept(gone)
      PROVE  NoSilentStall'
  <2>1. /\ gone \subseteq queue /\ (\A g \in gone : node[g].istimeout)
        /\ DOMAIN Kept(gone) = queue \ gone
        /\ \A t \in queue \ gone : Kept(gone)[t] = node[t]
    BY <1>k, TypeParts, PruneFacts
  <2>2. queue' = queue \ gone /\ \A t \in queue' : node'[t] = node[t]
    BY <2>1, <1>k DEF queue
  <2>3. current' = current
    BY <1>k DEF coVars
  <2> QED  BY <1>k, <2>1, <2>2, <2>3, StallTimers
<1>d. ASSUME ProcessExit PROVE NoSilentStall'
  BY <1>d, ExitFacts DEF NoSilentStall
<1>1. CASE workerloop
  <2>1. CASE ExitLoop
    BY <2>1, <1>d DEF ExitLoop
  <2>2. CASE PrepareWait
    BY <2>2, <1>k DEF PrepareWait
  <2>3. CASE WaitReturn
    BY <2>3, StallWait
  <2>4. CASE EndOfBatch
    BY <2>4, <1>a DEF EndOfBatch, coVars
  <2>5. CASE TimeoutFires
    BY <2>5, StallTimeout
  <2>6. CASE NoTimeout
    BY <2>6, <1>k DEF NoTimeout
  <2>7. ASSUME NEW id \in CoIds, Dispatch(id) PROVE NoSilentStall'
    <3>1. netVars' = netVars /\ memVars' = memVars /\ events' = events \ {id} /\ current = NoCo
      BY <2>7 DEF Dispatch, Loop
    <3>2. CASE id \in Live
      <4>1. current' = id
        BY <2>7, <3>2, ResumeFacts DEF Dispatch
      <4> QED  BY <3>1, <4>1, <1>a, <1>c
    <3>3. CASE id \notin Live
      <4>1. \A c \in DOMAIN et : et[c] # id
        BY <1>c, <3>3
      <4> QED  BY <3>1, <4>1, <1>a, <1>c
    <3> QED  BY <3>2, <3>3
  <2> QED  BY <1>1, <2>1, <2>2, <2>3, <2>4, <2>5, <2>6, <2>7 DEF workerloop
<1>2. CASE acceptfun
  <2>1. ASSUME NEW c \in Conns, AcceptConn(c) PROVE NoSilentStall'
    BY <2>1, StallAccept
  <2>2. CASE AcceptWouldBlock
    BY <2>2, <1>a, <1>c DEF AcceptWouldBlock, loopVars
  <2>3. CASE AcceptFails
    BY <2>3, <1>d DEF AcceptFails
  <2> QED  BY <1>2, <2>1, <2>2, <2>3 DEF acceptfun
<1>3. CASE dorequest
  <2>1. ASSUME NEW f, Goto(f) PROVE NoSilentStall'
    <3>1. netVars' = netVars /\ memVars' = memVars /\ events' = events /\ current' = current
      BY <2>1, StepFacts DEF Goto, loopVars
    <3> QED  BY <3>1, <1>a
  <2>2. CASE Start
    BY <2>2, <2>1 DEF Start
  <2>3. CASE AfterYield /\ ~ TimedOut
    BY <2>3, <2>1 DEF AfterYield
  <2>4. CASE AfterYield /\ TimedOut
    BY <2>4, StallClose DEF AfterYield
  <2>5. CASE ReadEnds \/ ReadLast
    BY <2>5, StallClose DEF ReadEnds, ReadLast
  <2>6. CASE ReadNodot
    BY <2>6, <1>d DEF ReadNodot
  <2> QED  BY <1>3, <2>2, <2>3, <2>4, <2>5, <2>6, StallBlock, StallPart, StallKeepAlive DEF dorequest
<1>4. CASE \E c \in Conns : Connect(c) \/ AcceptedElsewhere(c) \/ Hangup(c) \/ \E kind \in Kinds : Send(c, kind)
  BY <1>4, StallClients
<1>5. CASE changestate_handler
  BY <1>5, <1>a DEF changestate_handler, coVars
<1>6. CASE Tick
  <2>1. netVars' = netVars /\ req' = req /\ current' = current /\ events' = events
    BY <1>6 DEF Tick, coVars
  <2>2. queue' = queue /\ \A t \in queue : node'[t] = [node[t] EXCEPT !.left = IF @ > 0 THEN @ - 1 ELSE 0]
    BY <1>6 DEF Tick, queue
  <2>3. \A x \in TimerNode : LET y == [x EXCEPT !.left = IF @ > 0 THEN @ - 1 ELSE 0]
                             IN  y.istimeout = x.istimeout /\ y.ud = x.ud
    BY DEF TimerNode
  <2>4. \A t \in queue' : node'[t].istimeout = node[t].istimeout /\ node'[t].ud = node[t].ud
    BY <2>2, <2>3, TypeParts DEF NodeType
  <2> QED  BY <2>1, <2>2, <2>4, StallTimers
<1> QED  BY <1>1, <1>2, <1>3, <1>4, <1>5, <1>6 DEF Next, Process, Environment

-----------------------------------------------------------------------------
(* The theorems *)

\* A worker starts with the invariant
LEMMA InitHolds == Init => IInv
<1> SUFFICES ASSUME Init PROVE IInv
  OBVIOUS
<1>1. Live = {AcceptId} /\ Requesters = {} /\ alloc = {} /\ queue = {} /\ DOMAIN et = {} /\ Open = {}
  BY DEF Init, Live, Requesters, alloc, queue, Open
<1>2. Co!CoTypeOK
  <2>1. AcceptFrame \in Frames
    BY DEF AcceptFrame, Frames
  <2>2. [status |-> "READY", frame |-> AcceptFrame] \in [status : Co!Status, frame : Frames]
    BY <2>1 DEF Co!Status
  <2>3. \A i \in Live : task[i] = [status |-> "READY", frame |-> AcceptFrame]
    BY DEF Init, Live
  <2>4. current = NoCo
    BY DEF Init
  <2> QED  BY <1>1, <2>2, <2>3, <2>4, CoTypes, WorkerAssumption
<1>3. LoopType /\ ReqType /\ NodeType
  BY <1>1, WorkerAssumption DEF Init, LoopType, ReqType, NodeType
<1>4. NetType
  BY <1>1, WorkerAssumption DEF Init, NetType
<1>5. LoopInv /\ NoSilentStall
  BY <1>1 DEF Init, LoopInv, NoSilentStall
<1>6. MemInv
  BY <1>1 DEF MemInv, OwnInv, AllocInv, RegInv, TimerInv, ArmedInv
<1>7. CountInv
  BY <1>1, FS_EmptySet DEF CountInv, Init
<1> QED  BY <1>2, <1>3, <1>4, <1>5, <1>6, <1>7, TypeParts DEF IInv

\* ... every step keeps it
LEMMA StepHolds == IInv /\ [Next]_vars => IInv'
<1> SUFFICES ASSUME IInv, [Next]_vars PROVE IInv'
  OBVIOUS
<1> USE DEF IInv
<1>1. CASE Next
  <2>1. TypeOK'
    BY <1>1, LoopTyped, ClientsTyped, AcceptTyped, RequestTyped DEF Next, Process, Environment
  <2> QED  BY <1>1, <2>1, LoopInvStep, MemStep, CountStep, StallStep
<1>2. CASE UNCHANGED vars
  <2> USE <1>2 DEF vars
  <2>1. Co!CoTypeOK' /\ LoopType' /\ ReqType' /\ NodeType' /\ NetType'
    BY TypeParts DEF Co!CoTypeOK, Co!Live, LoopType, ReqType, NodeType, NetType, alloc, queue
  <2>2. LoopInv'
    BY DEF LoopInv, Live
  <2>3. MemInv'
    BY DEF MemInv, OwnInv, AllocInv, RegInv, TimerInv, ArmedInv, Requesters, Live, alloc, queue, Open
  <2>4. CountInv'
    BY DEF CountInv, Open
  <2>5. NoSilentStall'
    BY DEF NoSilentStall, Readable, Armed, queue
  <2> QED  BY <2>1, <2>2, <2>3, <2>4, <2>5, TypePartsPrimed
<1> QED  BY <1>1, <1>2

\* ... so it always holds
LEMMA Invariant == Spec => []IInv
BY InitHolds, StepHolds, PTL DEF Spec

\* The properties of Worker follow
LEMMA Consequences ==
  ASSUME IInv
  PROVE  RequestsOwned /\ TimersSafe /\ ServeCount
<1> USE DEF IInv
<1>1. \A id \in Requesters :
         /\ task[id].frame.req \in alloc /\ req[task[id].frame.req].coid = id
         /\ task[id].frame.at # "start" => task[id].frame.fd = req[task[id].frame.req].fd
         /\ req[task[id].frame.req].fd \in DOMAIN et /\ et[req[task[id].frame.req].fd] = id
  BY DEF MemInv, OwnInv
<1>2. \A r \in alloc : \E id \in Requesters : task[id].frame.req = r
  BY DEF MemInv, AllocInv
<1>3. {task[id].frame.req : id \in Requesters} = alloc
  BY <1>1, <1>2
<1>4. RequestsOwned
  BY <1>1, <1>3 DEF RequestsOwned, MemInv, RegInv
<1>5. TimersSafe
  BY DEF TimersSafe, MemInv, ArmedInv, TimerInv, Armed
<1>6. ServeCount
  BY DEF ServeCount, CountInv
<1> QED  BY <1>4, <1>5, <1>6

(* Whatever connections come, send, hang up or stay quiet, a worker loses,   *)
(* leaks or shares no request and no timer, counts its connections right,    *)
(* and leaves none that has something to read without an event, a turn or a  *)
(* timer (dlyhttpd.c, http.c, timer.c).                                      *)
THEOREM WorkerSafe == Spec => [](TypeOK /\ RequestsOwned /\ TimersSafe /\ ServeCount /\ NoSilentStall)
<1>1. IInv => TypeOK /\ RequestsOwned /\ TimersSafe /\ ServeCount /\ NoSilentStall
  BY Consequences DEF IInv
<1> QED  BY <1>1, Invariant, PTL

\* A step that closes a connection which is not reading found its timer run out
LEMMA TimeoutStep ==
  ASSUME IInv, Next, NEW c \in Open, cstate'[c] = "closed", pc' # "exited", ~ In("read")
  PROVE  req[Frame.req].timer \in queue /\ node[req[Frame.req].timer].left = 0
<1> USE DEF IInv
<1>0. c \in Conns /\ cstate[c] = "open" /\ cstate' # cstate
  BY DEF Open
<1>1. CASE AfterYield /\ TimedOut
  <2>1. PICK at : In(at)
    BY <1>1 DEF AfterYield
  <2>2. Frame.req \in alloc /\ req[Frame.req].timer # NULL /\ node[req[Frame.req].timer].istimeout
    BY <1>1, <2>1, RunnerFacts DEF TimedOut
  <2> QED  BY <2>2 DEF MemInv, TimerInv
<1>2. CASE \E x \in Conns : Connect(x) \/ AcceptedElsewhere(x) \/ AcceptConn(x)
  BY <1>0, <1>2, TypeParts DEF Connect, AcceptedElsewhere, AcceptConn, NetType
<1>3. CASE ProcessExit
  BY <1>3, ExitFacts
<1>4. QED
  BY <1>0, <1>1, <1>2, <1>3 DEF Next, Process, Environment, workerloop, acceptfun, dorequest, ExitLoop,
     PrepareWait, WaitReturn, TimeoutFires, NoTimeout, Dispatch, EndOfBatch, AcceptWouldBlock,
     AcceptFails, Start, AfterYield, Goto, ReadEnds, ReadWouldBlock, ReadPart, ReadLast, ReadNodot,
     ReadKeep, Hangup, Send, Tick, changestate_handler, netVars

(* A timer closes a connection only when it is the connection's own, of the  *)
(* request it has now, and has run out: a timer left behind by an earlier    *)
(* request never does (timer.c, http.c:60).                                  *)
THEOREM TimeoutsOwn == Spec => TimeoutIsOwn
<1>1. IInv /\ [Next]_vars =>
        [\A c \in Open : cstate'[c] = "closed" /\ pc' # "exited" /\ ~ In("read")
            => LET t == req[Frame.req].timer IN t \in queue /\ node[t].left = 0]_vars
  BY TimeoutStep
<1> QED  BY <1>1, Invariant, PTL DEF Spec, TimeoutIsOwn

=============================================================================
