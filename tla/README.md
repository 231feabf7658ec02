# A verification development of dlyhttpd

dlyhttpd is a small static-file web server in C. A master process forks worker
processes. Each worker runs an edge-triggered epoll loop, one coroutine per
connection on a single shared stack, and a queue of keep-alive timers. This
directory holds TLA+ modules translated from `src/`, TLC configurations that
check them on small instances, and proofs checked by TLAPS for every instance.

1. Inventory: the parts of the system
2. How the parts interact, and what is hard
3. The modules and the code
4. The runs
5. Fairness
6. The proofs
7. What the project found, and the exceptions its properties name
8. Abstractions, and what is not modelled
9. The plan

To repeat everything, for a run `R` of `PROJECT.json`:
`tlc -config <cfg of R> <module of R>`, and for each `*Proofs.tla`: `tlapm`.

## 1. Inventory

| Part (code) | State | Operations | Correct when |
|---|---|---|---|
| Coroutine scheduler (`coroutine.c`) | slot array, capacity, live counter, running id, one stack, a save buffer per coroutine | `coroutine_new`, `_resume`, `_yield`, return of the function | ids of live coroutines are distinct, the asserts hold, a coroutine is resumed with the frame it yielded with |
| Worker event loop (`dlyhttpd.c` `workerloop`, `acceptfun`, `changestate_handler`; `epoll_new.c`) | `isexit`, `isadd_listenfd`, `isachieve_lock`, `serve_fd_num`, the batch of events | decide to listen, wait, one timeout, dispatch the batch, accept, exit | every event reaches the coroutine it is for, the count is exact, exit requests are honoured |
| Connection coroutine (`http.c` `dorequest`, `http_base.c`) | the request block with its buffer and timer, the locals across a yield | read, parse, answer, replace the block on keep-alive, close | no block is leaked, freed twice or shared; no connection stays unserved |
| Timer queue (`timer.c`) | nodes with expiry, mark, owner | add, next expiry, handle one, delete marked nodes | a timer ends the request it was made for, or nothing |
| Timer heap (`heap.c`) | pointer array, size, capacity | insert/swim, deltop/sink, grow, shrink, close | it is a priority queue |
| Master process (`dlyhttpd.c` `main`, `reboot1_handler`, `reboot2_handler`) | `pid[]`, loop index | fork, wait, fork again, reboot by signal | every worker is known, a dead one is replaced, a reboot reaches all but the one being born |
| Accept lock (`filelock.c` with `workerloop`) | a record lock of the kernel | try to lock, unlock | someone listens; of the busy workers at most one |
| Request parser (`http_parse.c`, `list.h`) | position and state kept between calls, marks, list of headers | `http_parse_request_line`, `http_parse_request_header`, EAGAIN in any state | what the client meant is what is marked, however it is cut |
| Thread pool (`threadpool.c`) | task list, counters, mutex, condition variable, shutdown | init, add, destroy, worker | tasks are run once, shutdowns end |
| Request interpretation (`http_handle.c`) | none of its own; `querystring` is `dorequest`'s | method, URL, file name, query, type of file, keep-alive | a plain request is taken for what it says, whatever came before it |
| Response writing (`http.c`, `rio.c`) | the socket's send buffer, how far the answer has gone | OPTIONS, error pages, headers, `sendfile` | what goes out is in order and without holes; what fits is whole |
| FastCGI client (`http.c` `serve_php`, `fastcgi.c`) | a blocking connection to php-fpm | begin, params, stdin, one stdout record | the records are well formed and say what the client meant; the length is the body's |
| Connection pool (`connection_pool.c`) | a table of connections, a counter of those in it and one of calls | create, get, put, close | no connection is shared or lost |
| Configuration, sockets (`util.c`), logging (`dbg.h`) | none | once at start; print | - |

The thread pool and the connection pool are compiled in but the server uses
neither; they are modelled as libraries, for any program that does.

## 2. How the parts interact, and what is hard

The master and the workers share `pid[]`'s processes, signals and `wait()`.
The workers share the listening socket and one lock file. Inside a worker
everything runs in one thread, but not in one flow: `epoll_wait` returns ids of
coroutines, the loop first resumes at most one coroutine whose timer expired,
then the ones of the batch, and each of them may end, free its request, mark its
timer, or (the accepting one) give the id of an ended coroutine to a new
connection before an older event of the same batch is dispatched. Timer nodes
are freed lazily, after the request they point to. What makes the code hard:

* *the batch is stale by the time it is used*: ids in it may be dead or belong to another
  connection (`dlyhttpd.c:312`), and the timer pass runs before it;
* *edge-triggered epoll*: after a keep-alive answer the coroutine yields without
  having read until EAGAIN (`http.c:229`);
* *a full buffer reads as end of file* (`http.c:29`);
* *signals between any two steps*, of the master (fork, store, wait) and of the
  workers (test of `isexit`, `epoll_wait`);
* *a wait that starts again*: at each signal `epoll_wait_new` sleeps its whole timeout anew
  (`epoll_new.c:70`), so signals postpone the timeouts and the exit they ask for;
* *one lock, released before the socket is withdrawn* (`dlyhttpd.c:282`), and
  holders that die or become full;
* *a stack shared by copying*, and save buffers reused at different depths;
* *loops over an array while elements move*, and an array that grows and shrinks;
* *parsers entered again in the middle of any token*;
* *mutex, condition variable and joins*, with a decrement outside of the mutex;
* *writes to a socket that does not block*, whose results are not looked at, on a
  connection that is kept (`http.c:344`), from a file that is looked at, announced
  and opened at three different times;
* *a blocking exchange with php-fpm inside a coroutine* (`http.c:379`), of one read per record;
* *locals that outlive a request* (`querystring`, `http_handle.c:207`) and *fields nobody
  assigned* (`req->method`, `http.c:110`).

`PROJECT.json` lists these hazards one by one, each at its line, with the
properties that cover it or the reason why none does.

## 3. The modules and the code

**CoroutineSpec** is the contract of the scheduler: live ids with a status and a
private frame, at most one running. **Coroutine** is `coroutine.c`: `co`, `nco`,
`cap`, `running` and `stack` are the fields of `schedule_t`; a frame is its depth
and one value. `coroutine_new` searches the array as the code does
(`(i + nco) % cap`) or doubles it; `coroutine_yield` saves into a buffer that is
replaced only when it is too small, and a frame that does not fit is cut.
`ImplementsContract` is the refinement.

**Worker** is one worker process, built on CoroutineSpec, so that the scheduler's array
need not be carried along. `pc` is the place in `workerloop`; `PrepareWait`,
`WaitReturn`, `TimeoutFires`/`NoTimeout`, `Dispatch`, `EndOfBatch` are one turn of it. `time` is
the timeout `epoll_wait_new` was called with and `deadline` what is left of it; `changestate_handler`
may run at any moment and any number of times, and one that interrupts the wait sets `deadline` back to `time`.
`task[id].frame` holds the locals of `dorequest` that live across a yield and
where it goes on. `req` and `node` are the blocks in use, so that freed, reused and
dangling blocks are visible. `et`, `edge`, `rx`, `peer`, `cstate` are the
kernel's side: registrations, edges not yet reported, unread segments, the client,
the state of the connection. The timer queue is the set of nodes ordered by the
time left; that `heap.c` implements such a queue is what Heap shows. Bytes
are segments of four kinds: a part of a request, the end of one that keeps the
connection, the end of one that closes it, the end of one for a name without a dot.

**PriorityQueue** and **Heap**: the promise of `heap.h` and the array of `heap.c`. A pass of the
loop of `swim` or `sink` is a step, so the order is stated between swaps too. `endi`
is computed in `size_t`.

**HttpParse** is `http_parse.c` and the calls `dorequest` makes: a step per byte,
with the saved position and state, the marks of the request line and of the
header under way, and the list of finished headers. Requests in good form are
records; `Encoded` is what they look like on the wire, for the client is not part of the code.

**Prefork** is `main` and its handlers: `fork()`, the assignment of its result,
`wait()`, the scan of `pid[]` are separate steps, and a handler may run between
any two. A worker asked to leave leaves at a time of its own, or never (REBOOT2 only sets
a flag it may not look at). `kill(-1, ..)` reaches every process, as the table entry of a failed
fork makes it do. Workers are processes that start, serve, leave or die.

**Listeners** is the same turn of `workerloop` seen by several workers: the
lock is `fcntl`'s, which the kernel releases when the owner dies. What a worker does to a
connection is left to Worker; `serve_fd_num` is the number of connections served, which
Worker's `ServeCount` checks.

**ThreadPool** is `threadpool.c`: a critical section is one action, everything outside
of it has steps of its own; a condition variable is the set of threads at
"wait", which may also wake up unasked; `lock` is not NULL only when a thread leaves
a critical section without unlocking. A call starts when it takes the mutex (section 8).

**Interpret** is `http_handle.c` as operators: from the marks HttpParse sets to a method
(any, where none is assigned), a file name, what `querystring` holds then (the tail of what
it held, or of what the stack held, follows), a type, and whether the connection is kept.
Bytes, method names and suffixes are members of small sets; `strncmp` by the length of the
client's word is what it is, a prefix test.

**FastCgi** is `fastcgi.c` and the record side of `serve_php`: headers with their two-byte
lengths, one-byte name and value lengths, padding, and `cal_length_of_message`. `BYTE` is the number of
values of a byte. `ParamIn` is what a responder reads, with the four-byte form from `BYTE \div 2` on.

**Answer** puts them together: it is `dorequest` from a complete request to the next read. `pc` is the
place, `answers` what was begun so far with what the code knew then, `stream` the bytes the
socket has taken, `drained` how many of them are with the client. `Handle` is
everything up to the first `write`; then each pass of `rio_writen`'s loop, the one `sendfile`, and
the two `write`s of `serve_php` are steps, between which the client reads or leaves. A reply of php-fpm is what its block of memory holds after
the one `read`, the part `read` did not fill included, so any content is possible. The file system may
change between the look and the `open`. It takes over where HttpParse ends ("parsed") and returns
to where Worker's `ReadKeep` or `ReadLast` goes on.

**ConnectionPool** is `connection_pool.c`, with any users that put back what they got.

Each `MC*` module holds the definitions a configuration needs; each `*Proofs` module
holds the theorems about the module it is named after. `PROJECT.json` "map" gives
the lines of `src/` behind each definition.

## 4. The runs

| Run | Bounds | Why they are enough | What it shows |
|---|---|---|---|
| `coroutine` | 3 coroutines, capacity 1, stack depth 2 | the array is enlarged twice and slots are freed in any order, so the probing wraps; two depths make the save buffer too small and too large | asserts, exact counter, whole frames; refinement of the contract |
| `worker` | 2 connections, 2 segments each, 3 request blocks, 4 timers, 2 events per wait, limit 1 | two events fit in a batch, the batch can be cut, a second connection can take the id of the first; two timers can wait for deletion; one connection makes a worker busy, two make it full; symmetric blocks and connections | ownership of blocks, timers never dangle, exact count, no stall, timeouts are one's own |
| `worker_live` | 2 connections, one of 2 segments and one silent, buffer of 1 segment, 2 timers, 1 event per wait | one event per wait is the worst case for starvation; two segments are more than the buffer holds, so that a part fills it and the next read asks for no byte, and allow a request sent ahead of the answer to another; an old marked timer can lie beside a new one; requests that end their connection are in `worker` | reads stay inside the buffer; what is sent is read, hangups and silence close a connection if the signals end; a worker that is awake exits when asked, one that sleeps until a timer if the signals end |
| `prefork` | 2 slots, 3 pids, 2 deaths, 2 reboots, 1 failed fork | a pid can be used again while another waits to be reaped; both slots can die at once; a reboot can follow a death at each step | no worker lost or counted twice, slots filled again, a reboot reaches every worker but the one between `fork()` and the table |
| `listeners` | 2 workers, 3 connections, limit 1, 2 deaths | both can be busy, one full and one idle; the holder can die before and after the unlock | somebody listens, one busy listener, no lock left behind, acceptance |
| `heap` | 7 items, two pairs of equal keys, initial capacity 2 | three levels, capacity 2, 4, 8 and back | heap order at each step, no item twice; refinement of PriorityQueue |
| `http_parse` | 64 requests in good form, and every deletion, change and insertion of one byte in another; buffer of 26 bytes | one and two headers, empty and non-empty gaps, bytes after the end; every cut into reads; the buffer is longer than all but some of them, so that both outcomes occur | good requests are understood, none is refused; marks in order for all |
| `threadpool` | 3 threads, 3 tasks, 2 callers, any thread's creation may fail, 2 destroys | more tasks than sleepers and the reverse; a destroy during the adds of another caller; a second destroy | no task lost or run twice, both shutdowns, no lost wakeup, ends |
| `answer` | 2 of 10 requests on a connection, send buffer of 7 bytes, segments of 3, headers and error pages of 2, files of up to 2, `BYTE` 16, 2 states of the file system and one change, 3 replies of php-fpm | the first answer can leave any room, from none to all, to the second; a file can grow, shrink, vanish or become unreadable between look and open; a long query comes before a short one; a query on each side of the one-byte form, the long one with a method the server does not know, whose records must be framed all the same (that a long name is cut as it is, section 6 shows); unknown method, path without '/', no such file, a directory, an empty file, HEAD, OPTIONS | answers are the right ones, without holes, whole when they fit; php-fpm is asked for the right file; every answer ends |
| `conn_pool` | 2 users, 2 connections opened ahead, 4 at most | the pool is exhausted with connections put back and not | nothing shared, lost, or lent twice |
| `threadpool_twice` | 2 threads, 1 task, 2 destroys | - | a violation, see section 7 |
| `not_modified` | as `answer`, 1 request, for a page with its own time in If-Modified-Since | - | a violation, see section 7 |

`CHECK_DEADLOCK FALSE` stands where the program may really stop: an exited worker, a master
without workers, a pool that is gone, a request that ended, a heap that is
closed. The coroutine run keeps the deadlock check. A bound on the environment (sends, deaths,
reboots, failed forks, destroys) limits how often something is done to the
program, never what the program may do.

The type invariants of the modules are checked in `worker_live`, `heap` and `answer`, where they
bound an index, a buffer or a read (those of Worker and Heap are proved too); the others, and `OneRunning`, `SaveAreaHoldsFrame` of Coroutine and
`Distinct` of Heap, are proved (section 6) and not run.

Every property of a passing run has a mutant in `PROJECT.json`: a change of one
mapped definition, of the kind a plausible bug would make (a flag not tested, an
element past the end, a timer left armed, a lost state), under which TLC finds
that property violated in the same run.

## 5. Fairness

* Worker: `WF(Process)`, the operating system schedules the process, and `WF(Tick)`, time
  passes. Nothing is assumed of clients, of other workers or of the lock; so a
  property may not rest on anybody being kind. Of the one who signals, `SignalsEnd`
  (`<>[][~ changestate_handler]_vars`) is assumed, and by name, inside the properties that need it:
  whoever sends signal 16 again and again keeps `epoll_wait` from ever timing out (`epoll_new.c:68-71`), and with it
  every timer and the close or the exit that waits for one. All four properties are false without it.
  The first half of `ExitsOnWakeup` (a worker that is awake, or has an event at hand) needs no such assumption.
* Prefork: `WF` of the master's steps and of a worker that starts. Nothing is assumed of a worker
  that was asked to leave: Worker's `ExitsOnWakeup` says that it leaves when it is woken, and one with no client
  and no timer sleeps for ever (`dlyhttpd.c:242`). So `Refilled` counts such a worker as filling its slot, and
  what a reboot does is a property of the handler's step (`RebootReaches`) and not of what follows.
* Listeners: `WF` of each worker's turn (an awake worker runs), and of its replacement.
* ThreadPool: `WF` of each thread, of the joins and the end of a destroy, of the
  rest of an init once begun. Nobody must start a call, and a spurious wakeup is
  never owed.

* Answer: `WF(Writes)`, the process goes on, and `WF` of php-fpm, which answers, closes or is not
  there. Nothing is assumed of the client: it may never read. That php-fpm answers in the end is an
  assumption on the server's surroundings: `serve_php` has no timeout, and with a php-fpm
  that accepts and stays silent the worker stops for good, all its coroutines with it.

Strong fairness is used nowhere: mutexes are taken in whole critical sections, and
where a thread could starve (the LIFO list) the property is stated for finitely many
tasks.

## 6. The proofs

A theorem holds for every value of the constants under the assumptions named in
the module (`ASSUME`), which TLC evaluates in the runs. All are proved to
the leaves with Z3, Zenon and LS4.

**CoroutineProofs.** `SchedulerSafe`: TypeOK, NcoCountsUsed, OneRunning,
SaveAreaHoldsFrame. These with `CapBounded` (the array doubles only while `nco` is below the
bound, so ids stay in the contract's set) are inductive together: the
search of `coroutine_new` ends because the counter is exact (lemma `NewFindsFreeSlot`, by
a cardinality argument and arithmetic modulo `cap`), and the counter stays exact
because the slot found was empty. `SchedulerImplementsContract`: each step maps to a step
of CoroutineSpec or to a stutter, so that Worker may stand on the contract.

**HeapProofs.** `HeapCorrect` and `HeapIsPriorityQueue`. HeapOrder excepts the
element that moves and is not inductive: after a swap the children of `k` get the
element that was its parent. `Moving` says that they do not precede it. `CapBound` keeps
the array inside what `size_t` can index, without which `endi` wraps. That the first
element comes before all others needs a least counterexample (`TopComesFirst`).

**WorkerProofs.** `WorkerSafe` (TypeOK, RequestsOwned, TimersSafe, ServeCount, NoSilentStall)
and `TimeoutsOwn` (TimeoutIsOwn). None of the five but the last is near to being inductive; `IInv` says
what holds them together:

* `LoopInv`: a coroutine runs only in the dispatching part of the loop, and the batch is used up
  before `epoll_wait` is called again. Without it `WaitReturn` could drop events by overwriting the batch.
* `OwnInv`, `AllocInv`, `RegInv`: the three maps coroutine to request, request to coroutine and
  registration to coroutine are inverse to each other, and the registrations are the open connections.
  RequestsOwned follows; that the maps are injective is what lets a close of one
  connection leave every other alone. `OwnInv` also says where a coroutine can be that does not run, and
  that it has no timer before it first yields.
* `TimerInv`, `ArmedInv`: a request's timer names it, and an unmarked timer is named by its request. A
  *marked* timer of a request in use has run out and its coroutine, resumed for it, runs and has yet
  to look: this is why the lazy deletion, which only happens while no coroutine runs, frees no
  timer a request still names, and why `req->timer->istimeout` at `http.c:60` cannot be true for any
  other reason. TimeoutIsOwn is this and one step.
* `CountInv`: the open connections are finitely many, so that their cardinality goes up and down by one.
* NoSilentStall is inductive relative to these. The hard steps: the timer that fires takes the
  promise from an armed timer to the running coroutine (`StallTimeout`); a keep-alive yield, which
  leaves segments unread, leaves a fresh armed timer (`StallKeepAlive`); what `epoll_wait` takes out of
  the edges is in the batch, which was empty (`StallWait`).

The proof has one lemma for each effect (`KeptAlive`, `Fired`, `Accepted`, `CloseFacts`), stated pointwise, and uses of
CoroutineSpec only through lemmas on its five calls (`ResumeFacts` and the ones after it). The kernel's edges, clients and other
workers are the actions of Worker, under no fairness.

**PreforkProofs.** `NoWorkerLost` (TypeOK, Tracked). Added: `IndexInv` (where the loop
index points and what lies behind it), `BornInv` (the child between `fork()` and the
assignment is in no other slot) and `GoneInv` (what `wait()` returned is gone, and its
slot is the one being filled). With them no signal between two steps can make
the table forget a process. `RebootsReach` (RebootReaches) follows from Tracked: a worker that runs and is not
the newborn is in the table, so the handler's loop comes to it.

**ListenersProofs.** `AcceptLockSafe` (SomebodyListens, OneBusyListener,
LockHolderSleeps). Added: `LockInv`, that the flag and the lock agree and that a sleeping,
busy, listening worker holds the lock; `BatchInv`, that the events in hand are of connections
served, so that a worker cannot become idle behind its own back.

**PoolProofs.** `PoolSafe` (OneCopy, GracefulDrains, QuietWhenDestroyed, NoLostWakeup)
and `PoolStops` (ImmediateStops). Added: `HandsFull` (a task is in hand exactly while it
runs), `LeftForGood` (a thread leaves only when nothing is left, or at once) and
`JoinedEnded` (what was joined has ended, and nobody creates threads meanwhile).

And for ConnectionPool, in the same module, `PoolIsExclusive`
(Exclusive, FreshUntilFull). Added: `TableInOrder`, the table
holds the connections in the order they were opened, and `HeldWereLent`. From them the first probe of
`get_connection` is always free (lemma `FirstIsFree`): its loop never goes round.

**HttpParseProofs.** `MarksInOrder`: TypeOK and SpansInOrder for every byte sequence and
every way to cut it. The invariant gives, for each state of the two
machines, the marks that are set and that they lie before the byte to come
(`LinePart`, `CurPart`), the order of the saved list (`ListPart`) and that
position and state survive the return to `dorequest` (`ControlPart`).

`RequestsParsed` (ParsedAsSent) and `GoodFormAnswered` (GoodFormIsAnswered) are about *every* set of
requests in good form: any names, values, blanks and number of headers, cut into reads in any way.
`EncodedHeaders` is a recursive function; that it is one at all (`HeadersAre`) and what it is for n headers
(`HeadersHold`) is shown by induction up to a number (`UpTo`), which needs the library only for a least
number of a set. From these:

* `LineBytes`, `HeaderBytes`, `EndBytes`: where each part stands in the encoding (`KeyAt`, `ValueEnd`, ...) and
  which bytes can stand there, so that a delimiter comes where a part ends and not before.
* `Placed`: in each state the parser is between the two ends of the part the state is for, what it has
  marked are the ends it has passed, and the saved headers are the first ones, the latest in front. One
  lemma per action shows that the byte there is one the action takes, and which of its branches.
* A parsed request has its position and all marks at the ends of its parts (`PlacedRight`); before that the
  position is inside the encoding (`NotAtEnd`), so that EAGAIN means that not all of it is read.

The only assumption is what good form is (`WellFormed`): a header at least, no header without a value.

**AnswerProofs.** `AnswersSent` (TypeOK, NoHoles, Whole), with the requests, the disks, the replies of
php-fpm, the send buffer and every length as parameters. Added to them:

* `PlaceInv`: what kind of answer is being written in each place, and which byte is next there. Without
  it nothing says that a file's body follows its whole header, or that php-fpm is
  asked before anything has gone out.
* `LastInv` (nothing from `next` on has gone out), `FullInv` (of an answer that is not given up in
  the middle everything before has) and `RoomInv` (of one the socket had room for everything
  before has, and the rest still fits). NoHoles is the order of the stream with the first
  two, Whole is the third where the answer ends: as the client only ever makes room, EAGAIN cannot
  strike an answer that fitted at its first byte.
* `ShapeInv`: an answer's total is that of its kind, and is not changed once its bytes go out. For HEAD it is the
  header's length, which is why nothing of a file follows it (`HeadAlone`).

`Write(k)` says once what every write does (`write`, `sendfile`, the two of `serve_php`): the
socket takes k bytes, and where the rest is given up nothing follows in the same answer
that NoHoles is about. `WriteStep` proves that it keeps the invariant if an answer that ends is whole
(`EndsWhole`); the four lemmas after it show that each write of the code is one.

`AnswersRight` (RightAnswer) and `PhpIsAsked` (PhpAsked) say what is answered and asked, with the
root, the index, the header names, the table of types and the requests as parameters too. Each
operator of Interpret and FastCgi has a lemma of its own: for *every* request where its url, its
path and its query lie in the line (`UrlIs`, `NameBounded`), and for a plain one which file, query and
method are found (`PlainName`, `PlainQuery`, `PlainMethod`) and whether the connection is kept
(`PlainKeeps`: the handlers run on a beginning of a name, so it needs that no name begins another);
which type a suffix is given (`TypeIs`); where the blank line is for a
search that compares every other byte (`LengthIs`); that a parameter's record is framed, padding included
(`ParamsFramed`), and is read as it was written if one byte can say each length (`ParamRoundTrip`).

* RightAnswer is `Right` of every answer; an answer is right from its first byte (`HandleRight`), for
  php's when php-fpm has answered (`PhpRight`), and nothing it speaks of changes later (`RightKept`). It speaks of plain requests without an
  If-Modified-Since header, which the server does not obey (section 7).
* PhpAsked needs `QueryInv`: whatever `strncpy` leaves behind the query, `querystring` never
  outgrows what one record holds (`QueryFits`); without it the second byte of a length could wrap.

What the two assume of the constants, beyond types, is `InterpretAssumption` (no header name
of the program begins another, a suffix has exactly one dot and it is the first byte), the absence of '?' in a
path (the first one ends it), and `LengthAssumption`: a byte has 16 values or more, the parameters' names
are shorter than half of that, and what `req->buf`, the root and `querystring` can hold is shorter
than two bytes can say. It is the one place where the buffers' sizes (`MAX_BUF`, `SHORTLINE`) are used.

Only model-checked: all liveness properties (the provers do not handle fairness
and ENABLED). Every invariant and every action property of the runs that pass is a theorem.

## 7. What the project found, and the exceptions its properties name

* `threadpool_twice`: a second `threadpoolDestroy` sees `shutdown` set and leaves
  by `break` without unlocking (`threadpool.c:104`); the threads that the first call
  is joining need the mutex to leave, so the first call never returns, against the
  promise of an execution status (`threadpool.h:62`).
* `not_modified`: of version 1.0 `README.md:7` says that it supports if_modified_since (`支持if_modified_since`) and the request block has a field
  for what the header says of the file (`http_base.h:81`), but the table of handlers gives the header to
  `http_process_ignore` (`http_handle.c:40`): whoever has the file as it is gets it again, with 200. `RightAnswer`
  leaves out requests with this header; what is wrong with them is `ModifiedIsDecided`.
* `ShutdownEnds` excepts the call `threadpoolInit` makes when a thread cannot be
  created: the type is 0, neither immediate nor graceful, the threads go on
  waiting and the join with them.
* `SomebodyListens` and `PendingAccepted` except the presence of a full worker: it
  may be the one the others have left the listening socket to, and nothing wakes the
  others until a client or a timer does. The excepted case happens: connections then wait in the queue while
  workers with room sleep (`dlyhttpd.c:258`).
* `Refilled` excepts a failed fork: its slot is filled only when `wait()` fails, which is
  when no child is left. It takes a worker that was asked to leave and sleeps as a worker still there.
* `RebootReaches` excepts the process between `fork()` and its entry in the table, which the handler's loop
  misses (`dlyhttpd.c:163`): it goes on as if no signal had been sent.
* The server's own exits are modelled as they are: an accept error other than EAGAIN
  and a file name without a dot end the worker (`AcceptFails`, `ReadNodot`).

* `rio.c:28` calls `rio_writen` robust, and `http.c:319` checks that a header went out in whole. On
  a socket that does not block neither holds: at EAGAIN the rest is given up, and where the
  connection is kept the next answer follows the torn one. `Whole` therefore speaks of the
  answers the send buffer had room for, `NoHoles` of what goes out of the others. That
  a body is as long as announced `Whole` says of files and of the server's own pages, not of php's.
* HEAD of a script gets php's message all the same (`http.c:455-456` do not look at the method); that nothing
  follows the header is said of files only.
* Between `stat` and `open` the file may change, and the permission test is of the owner's bit
  (`http.c:170`): a 200 with a length can be followed by fewer bytes, or none. `Whole` excepts it.
* A query of one byte is dropped (`http_handle.c:202`), and a query is followed by what
  was in `querystring` behind it (`http_handle.c:207`): `PhpAsked` says both.
* Of php-fpm's answer one record is read, with one read (`http.c:434`, `449`). Another record than
  STDOUT, or none, leaves `message` and its length without a value; a message that
  ends in CR can get a negative length. `cal_length_of_message` looks at every CR whose
  next but one byte is a CR, whatever lies between: `RightAnswer` speaks of messages with a blank line
  before which every CR ends a line.
* A beginning of "Connection" or of "keep-alive" is taken for the whole (`http_handle.c:228`, `246`);
  `RightAnswer` speaks of requests without such words.
* The connection pool never lends a connection again (`connection_pool.c:74`): `FreshUntilFull`.

Where a failure is in a model but nothing in the repository promises otherwise, the
hazard says so and no property is claimed.

## 8. Abstractions, and what is not modelled

`malloc` succeeds everywhere, and so do pthread calls other than `pthread_create`. The
macro `check` logs and goes on: a step the code would make after a failed check is
made. Time is a counter of ticks per timer; two timers may expire together. Data is
reduced to what a property tells apart: frames, segments, tasks, items, bytes in
four named values and two classes.

In ThreadPool a call and its taking of the mutex are one step: a caller that is already blocked on the mutex while
`threadpoolDestroy` destroys it (`threadpool.c:140-156`) is not represented, as if programs did not call into a pool
that another of their threads is about to free. What a caller does after the mutex is free again is.

In Answer lengths are those that fit the buffers of the code (`met`, `SHORTLINE`, `MAXLINE`), header
names and values have one letter case (`strncasecmp`), and printing to the standard output is left
out. A signal does not interrupt a `write` that does not block, so EINTR does not occur in
`rio_writen`. The list of headers is freed while it is walked (`http_handle.c:237`): every
allocator in use leaves the link that is read alone, and the model walks the whole list.

Not modelled, with the status and reason in `PROJECT.json`:

* configuration, listening socket and logging: input and output once, no state that interacts;
* of `http_handle.c`, `set_protocol_for_request` (its version is only logged), `body_length` (nobody
  reads it) and `http_process_if_modified_since` (the table of handlers does not name it);
* what is called by nothing: `epoll_mod`, `epoll_add`, the read lock and the lock test of `filelock.c`,
  the buffered readers of `rio.c`;
* memory that is never given back: the headers of a request that ends before they are handled,
  the copy a Content-Length header makes.

## 9. The plan

Done, in this order: the scheduler and its contract; the worker on top of it; the
thread pool; the master; the accept lock; the heap and its contract; the
parser; interpretation, answers and FastCGI; the connection pool. Proofs of the safety of all of
them.

Next:

1. Worker over Heap: the timer set replaced by the array, composed.
