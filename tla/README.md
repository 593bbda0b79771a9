# Specification of My_TinyWebServer

TLA+ models of the web server in `src/src`, checked with TLC on small instances,
with theorems checked by TLAPS for every instance. Paths are relative to the
repository's root (`src/`), line numbers are those of the modelled commit.

## The system

A process with one *main thread* (the event loop) and `m_thread_num` *worker*
threads. The main thread accepts connections, watches sockets with epoll and a
pipe that its signal handler writes to, and keeps one idle timer per connection.
Workers take tasks (pointers to `http_conn` objects) from a bounded queue. In
*Proactor* (`-a 0`) the main thread reads and writes the sockets and workers only
parse and answer; in *Reactor* (`-a 1`) workers do the reading and writing too and
report back through two plain integers of the object, `improv` and `timer_flag`.

| Component | State it keeps | Operations | Interacts with |
|---|---|---|---|
| event loop, `Websever` (webserver.cpp) | `users[fd]`, `user_timer[fd]`, the timeout flag, the epoll set, the pipe | `deal_clentdata`, `timer`, `deal_timer`, `adjust_timer`, `deal_signal`, `deal_read`, `deal_write`, `eventloop` | everything; the kernel lends it fds |
| `http_conn` (http_conn.cpp) | per object: socket, read and write buffers, parser state, response, `m_state`, `improv`, `timer_flag`; shared: `m_user_count`, the user map | `init`, `read_once`, `process` (`process_read`, `process_write`), `write`, `close_conn`, `do_request` | called by the main thread and by workers; re-arms its own fd with `modfd` |
| timer list, `sort_timer_lst` (lst_timer.cpp) | a doubly linked list in ascending order of expiry | `add_timer`, `adjust_timer`, `delete_timer`, `tick` | main thread only; `tick` calls back `callback_function`, which closes the fd |
| `Utils` (lst_timer.cpp) | pipe, `TIMESLOT` | `sig_handler`, `timer_handler`, `addfd`, `show_error` | event loop |
| thread pool (threadpool.h) | `m_queue`, a mutex, a semaphore | `append`, `append_p`, `run` | main thread appends, workers run |
| database connection pool (sql_connection_pool.cpp) | `m_connList`, `m_FreeConn`, `m_CurConn`, a mutex, a semaphore | `GetConnection`, `ReleaseConnection`, `connectionRAII` | workers, around `process()` |
| lock wrappers (locker.h) | `sem`, `locker`, `cond` | `wait`, `post`, `lock`, ... | both pools, the log |
| log and `block_queue` (log.cpp, block_queue.h) | the file, the line counter, the queue of lines | `write_log`, `flush`, the flushing thread, `push`, `pop` | every thread |
| accounts (`do_request`, http_conn.cpp:297-341) | the map from names to passwords, the table `user` | register, log in | workers, the database |
| configuration and start-up (config.cpp, main.cpp) | option values | parse, then the set-up calls in order | before any thread exists |

What is hard about it, and what each component must guarantee:

* **fds are reused at once.** The kernel lends the lowest free number; objects,
  timer slots and queued tasks all go by the number, not by the connection. So an
  open connection must own the timer its slot points at; no freed timer may be
  used; a client must never get what was meant for the last one on its fd; a timer
  must close nobody but its owner.
* **Two threads, one object.** `EPOLLONESHOT` is meant to keep an object in one
  thread at a time; it guards the fd, not the object.
* **A bounded queue whose refusals nobody looks at** (webserver.cpp:287, 310, 330).
* **A busy wait of the main thread** for a worker (webserver.cpp:289-302), during
  which no timer runs.
* **Edge-triggered accepting**, where a connection missed once is not reported again.
* **Hand-written list surgery** that leaves dangling pointers (`tick` resets
  neither `tail` nor `prev`).
* **Semaphore waits interrupted by SIGALRM** (installed without `SA_RESTART`,
  webserver.cpp:158), whose result both pools ignore.
* **Input cut anywhere, output cut anywhere.** The parser keeps its place in indices
  and a state from one call to the next; `write` keeps its place in two buffers and
  two counters. What a request says must not depend on the pieces it came in, and
  the client must get each byte of a response once and in order.
* **One object, many requests.** `init()` resets an object member by member; what it
  forgets meets the next request or the next client.
* **A map read without the lock that guards its changes** (http_conn.cpp:317, 334),
  and a row in the database for every entry of it: an account must be registered
  once, and map and table must agree, after a restart too.
* **A log whose lock is released between the steps of one line**: rotation, the
  formatting, the writing and the flush of a line are four critical sections. No
  line may be lost, or be in two files, and a file must keep to its length.

`PROJECT.json` lists these hazards with the line each bites at and the properties
that would catch it.

## Modules

| Module | Models | Kind |
|---|---|---|
| `TimerSet` | what the timer container promises: a set of timers with expiry times | abstract specification |
| `TimerList` | `sort_timer_lst` pointer by pointer, with addresses that are allocated again | detailed; implements `TimerSet` |
| `TimerListProofs` | theorems about `TimerList` | proofs |
| `TaskQueue` | what the pool promises: a bounded FIFO queue, each task to one worker | abstract specification |
| `ThreadPool` | `append`/`run` with mutex, semaphore and interrupted waits | detailed; implements `TaskQueue` |
| `ThreadPoolProofs` | theorems about `ThreadPool` | proofs |
| `ConnPool` | `GetConnection`/`ReleaseConnection`/`connectionRAII` step by step | detailed |
| `ConnPoolProofs` | theorems about `ConnPool` | proofs |
| `WebServer` | the running server: event loop, objects, workers, timers, kernel, clients, in both actor models and all trigger modes | composition |
| `WebServerProofs` | theorems about `WebServer` | proofs |
| `MCWebServer` | symmetry for the runs of `WebServer` | model checking |
| `HttpConn` | one `http_conn` object in one hand: reading, the parser, the response, `write` over several `writev` calls | detailed |
| `MCHttpConn` | the requests for the runs of `HttpConn` | model checking |
| `HttpConnProofs` | theorems about the buffers and the response of `HttpConn` | proofs |
| `HttpConnInputProofs` | theorems about what `HttpConn` makes of its input | proofs |
| `Accounts` | the user map, the table and `m_lock`, with workers that register and log in, and restarts | detailed |
| `AccountsProofs` | theorems about `Accounts` | proofs |
| `Log` | `write_log`, `flush`, `block_queue` and the flushing thread | detailed |
| `LogProofs` | theorems about `Log` | proofs |

`WebServer` composes the others through their abstractions: the timer list is the
set of timers that `TimerList` is shown to implement, the pool's queue is the FIFO
queue that `ThreadPool` is shown to implement, and taking or returning a database
handle changes nothing the event loop can see. `HttpConn` is the inside of the
handlers that `WebServer` takes in one step: it looks at one object and assumes
that one thread at a time has it, which is what `ProactorOneHandler` is about.
`Accounts` is the part of `do_request` that two workers share, and `Log` what all
threads share; neither changes anything the other modules can see.

Operators named for a fault (each preceded by a comment `Fault:`) are not part of
any specification. They are definitions of the model with a plausible bug, and
`PROJECT.json` pairs each with the property that the bug breaks.

### TimerList and TimerSet

State: `lst` holds `head`, `tail` and the `next`/`prev` of the node at each
address, `expire` its expiry time, `heap` the addresses that hold a live node, and
`now` the clock. Each member function is called by the main thread only and is one
step. A freed node keeps its contents and its address may be allocated again, so a
pointer left dangling by `tick` can meet a new node. `Walk` follows `next` at most
as far as there are nodes. `Adjust` has the contract of `adjust_timer` as its
guard: expiry times move forward only. The refinement maps the live nodes to their
expiry times.

### ThreadPool and TaskQueue

`Call`, `MainLock`, `MainPush`, `MainUnlock`, `MainPost` are `append` (and
`append_p`, which differs in one assignment to the task) between its locks;
`SemWait`, `Lock`, `Check`, `Pop`, `Unlock`, `Run` are one turn of `run`.
`Interrupted` is `sem_wait` failing with EINTR. The refinement maps `m_queue` to
the waiting tasks and each worker's local `request` to the task it serves.

### ConnPool

One action per statement of `GetConnection` that other threads can see: the test
for emptiness outside the lock (`TestEmpty`), the wait (`Wait`, `Wake`,
`Interrupted`), the lock, `front()` and `pop_front()`, the unlock; and the reverse
for `ReleaseConnection`. `front()` of an empty list is undefined behaviour: the
worker stops there (pc `"undefined"`) and `NeverPopsEmpty` (a part of
`AlwaysServed`) says when that cannot be.

### WebServer

* A *connection* is what `accept()` returned, an *fd* a number. `sock[f]` is the
  connection behind fd `f`, `net[c]` what client and kernel hold of `c`: phase,
  unread input, send buffer, epoll registration, and the answers it has got.
* `mode` is chosen once, by `TRIGMod`. Mode 2 writes `==` for `=` (webserver.cpp:76)
  and leaves `m_LISTENTrigmode` unassigned, so there it is any of 0, 1, or another
  number, which registers the socket level-triggered but accepts in a loop.
* `main` is where the main thread is: in `epoll_wait`, between two events, in the
  accepting loop, in the loop waiting for a worker (`spin`, or `glance` for
  `deal_write`, whose `break` is unconditional, webserver.cpp:343), about to clear
  `improv`, or in `tick`. `events` is what is left of the batch, in any order.
* Workers go through `run` and `process`: `task`, then the socket call and `improv`
  and `timer_flag` one by one in Reactor, then `Process` (`process_read`, which leaves
  the mapped `file` in the object) and `ProcessWrite` (which answers with the file the
  object has by then), `close_conn` in two steps (the fd is closed before `m_sockfd` is
  forgotten), and the final `modfd`.
* An answer is known by the connection whose request it answers (`file`, and its copy
  in `resp`), so `net[c].got` shows who got whose. Both `init` functions reset all of
  the object but the mapping (`Reset`).
* Input comes in pieces: an incomplete request, or one that completes a request
  for a file that exists (keep-alive or not) or does not. A missing file makes
  `process_write` fail (http_conn.cpp:654), which is how a worker comes to close
  a connection.
* `alarm` is the timer signal: armed, fired (a byte in the pipe), seen (`timeout`).
  `Pass` brings every timer closer and lets an armed alarm go off, at any time: a task
  may be queued or running for longer than its connection's timer.
* `heir` is history: the connection was accepted on an fd that somebody had still to
  handle (`Busy`), because a tick or a worker had closed the fd under a task, or with an
  event for it left in the batch. The object belongs to the fd, so an heir shares it with
  what is left of the connection before. `ProactorOneHandler` and `RightClient`
  except heirs and nobody else: not the connections on other fds, nor those that follow
  the heir.

### HttpConn

* A byte is CR, LF, NUL, a byte of a body, or a token for the whole text of a line:
  the analysis functions look at the text of a line and at nothing else. `rd` holds
  the members that reading uses, `wr` those of writing, `inbox` the socket's receive
  buffer, `client` what the client waits for.
* `at` says where the object is: armed for reading or writing, in `process_read`,
  `process_write` or `write`, or closed. `ReadOnce` is `read_once` in both trigger
  modes; `NextLine` is one turn of the loop of `process_read` with the call of
  `parse_line` and the analysis function; `process_write` prepares a response of any
  of the given lengths; `StartWrite`, `Writev`, `WriteAgain`, `WriteError` are `write`,
  a step for each `writev`. `Accept` and `Reset` are the two `init` functions.
* `process_read` has no `return` after its loop. Built as the makefile does, without
  optimisation, the value in the register is `NO_REQUEST`, and so it is in the model.
* `m_linger`, `m_string`, `m_iv` and the mapping survive exactly where the code lets
  them. `InPlace` compares the base and the length of `m_iv[0]` and `m_iv[1]` with what
  has been sent: are the bytes a `writev` takes the next ones of the response? `cuts`
  counts the `writev` calls that end inside the header, on which that depends, and
  nothing bounds them. A vector that has come to length 0 (`VecLen`) makes `writev`
  return 0.
* `Ended` is `text[m_content_length] = '\0'` (http_conn.cpp:401): it may fall within what
  has been read, on the zeros behind it, or past the end of `m_read_buf`, where `past`
  says how far. A length may be negative (`minus`); -1 stands for all of them.
* Neither `open()` nor `mmap()` is checked (http_conn.cpp:391-394): `Return` leaves the
  file mapped or `"failed"`, and then `writev` can take the header at most (`Offered`)
  and the rest is an error.
* Which file a name stands for, what a page says and how long a header is are choices.
* `announced` records whether the clients of this connection have kept to their length
  lines: the last one gives the length of the body (`Announces`), and without one there
  is no body. The server cannot know better: `process_read` takes the length from that
  line and from nowhere else. Clients may break it, and what the server then makes of
  their requests is anything; `RightAnswer`, `NeverStuck` and `RefusedOnlyIfTooLong` are
  about those that keep to it, and the other properties about all.

### Accounts

* Each worker goes through `do_request` from line 297 statement by statement: `Find`
  without the lock, `Lock`, `Query`, `Insert`/`Inserted`, `Unlock`; or `Find` and
  `Compare` for a log-in; then `Answer`, when the client has its page.
* `users.insert()` takes time. While a worker is `"inserting"`, a search by another
  one, which takes no lock, may find the new entry or not, and may miss an old one
  (the tree is being rebalanced): that is a data race, and the model takes every
  answer a search can come back with. `users[name]` of a log-in that misses makes an
  entry of its own (`damaged`). A crash of the process is `Restart`.
* `table` is external: it takes a row, or refuses it because of its key, or for
  another reason; `failed` has the names for which that happened since the server
  started. The schema is not in the repository, so `unique` is either.
* The code puts an account into the map whatever became of the INSERT. So `Agree` and
  `Remembered` say of all names what holds of them: a success has its row, a row has its
  name in the map, and only a name in `failed` is in the map without a row. That the
  password is the row's they say of names not in `failed`, with a unique key and
  without `damaged` entries.
* `Restart` is the end of the process at any point and its next start: memory goes,
  the table stays, `init_mysql` loads the map.

### Log

* `Call` is the macro with the day it reads before it takes the lock; `Count` and
  `Open` are the first critical section (with the file closed between them), `Format`
  and `Copy` the second, `Put` the third, `Flush` the fourth, after which the macro
  returns. `Lock` enters any of them.
* `buffer` is what stdio keeps, `disk` what has left the process, as pairs of a file
  and a line. A file is a day and a number. `fclose` flushes.
* `LockQueue`, `Push`, `Pop` are `block_queue`; `Push` returns without `unlock` as the
  code does. Whoever waits on a condition is at `"full"` or `"empty"`, and `Broadcast`
  sends them all back to the lock.
* `late` records that a thread came to the lock with an older day than the log's.

## Runs

All of them take the configuration file of the same name.

| Run | Module | Result | Shows |
|---|---|---|---|
| `timer_list` | `TimerList` | pass | the list is well linked and ascending after any history, with reused addresses, and implements the set of timers |
| `thread_pool` | `ThreadPool` | pass | never pops an empty list, loses no wake-up, implements the FIFO queue; accepted tasks are served and `append` returns |
| `conn_pool` | `ConnPool` | pass | no handle in two hands, none idle while a thread sleeps; the list is not popped empty with as many handles as threads, or without interrupted waits; with as many, no NULL |
| `server` | `MCWebServer` | pass | timers, slots and fds stay matched, no freed timer is used, with an fd for every client no waiting connection is forgotten: both actor models, modes 1, 2, 3, tasks of any length, missing files; in Proactor one object in one hand, heirs excepted |
| `server_turns` | `MCWebServer` | pass | with one fd going from client to client and every file found: own answers only, heirs excepted; a tick closes for its own timer only |
| `server_live` | `MCWebServer` | pass | every accepted connection is in the end closed, every alarm is followed by a tick; a connection in the backlog is accepted, edge-triggered only if an fd is free all the while |
| `http_conn` | `MCHttpConn` | pass | whatever pieces it comes in and whatever came before it on the object, an announced request is understood as it was sent; none waits with all of it read; only one that fills the buffer is refused; the NUL behind a body stays in the buffer, or level-triggered goes one byte past it; up to a second cut inside the header a response arrives byte for byte and both loops end; a response is over with its last byte |
| `accounts` | `Accounts` | pass | a success is remembered through restarts and map and table agree, except for names of failed INSERTs and damaged entries; without those nobody is welcomed with another password; every request is answered |
| `log` | `Log` | pass | a synchronous line is on the disk once when its macro returns; a file exceeds its limit by one line for each other thread at most; nobody is kept for ever |
| `stale_timer` | `MCWebServer` | violation | `close_conn` in a worker leaves a timer that later closes the next client on the fd |
| `http_body` | `MCHttpConn` | violation | a POST body in two pieces is never found complete |
| `log_async` | `Log` | violation | the asynchronous log writes nothing: `push` keeps the queue's mutex |

### Bounds, and why they are enough

* `TimerList`: 3 addresses, distances 1 to 3, a clock up to 3. Three nodes give
  every position (head, middle, tail, alone) and every branch of the list code, and
  more timers are started than there are addresses, so each address is used again.
* `ThreadPool`: 3 workers, a queue of 2, 4 calls of `append` (`MaxAppends`), 2
  interrupted waits (`MaxSignals`). The queue fills and empties and refuses; a
  worker let through without a task meets one that has been posted for.
* `ConnPool`: 3 workers, 1, 2 or 3 handles, 2 interrupted waits.
* `WebServer`: 2 connections on 1 or 2 fds. Two are what it takes for one to follow
  another on an fd or to be beside it. 1 or 2 workers; a queue of 1, so that it
  overflows with 2 fds; 1 or 2 pieces of input a client (`MaxSend`); a response
  meets a full send buffer at most once (`Drain`; `HttpConn` cuts it anywhere); `Slots`
  counts the alarm periods before a timer is due (3 in the code; 1, and 2 in
  `stale_timer`: the runs need the timer to be pushed back and to become due, not the
  number). Tasks last as long as they like, so heirs occur in `server`, `server_turns` and
  `server_live`: without its exception TLC violates `ProactorOneHandler` in `server` and
  `RightClient` in `server_turns`. `MaxUsers` is 1, so that the limit would bite if the
  counter worked.
* `HttpConn`: `BufSize` 10 stands for the 2048 bytes of `m_read_buf`: requests that
  fit, that fill it exactly, and that do not fit, are all among `MCRequests`.
  `IntMax` 7 with files of 2 and 6 bytes behind a header of 4: the sum fits, or wraps.
  `MaxRequests` 3 counts requests and connections, so a request follows another on
  one connection and on the next. Responses are cut anywhere, headers too, and any number
  of times; a header of 4 bytes (`HeadSizes`) can be cut three times. `CutBody`
  is FALSE in `http_conn`, so a body arrives whole, and TRUE in `http_body`, which
  shows why.
* `Accounts`: 2 workers, 2 names, 2 passwords, 4 requests, 1 restart: two race at one
  name while the map is being changed for the same or the other, and two more come
  after it or after the restart.
* `Log`: 2 threads, files of 2 lines, 5 lines, 2 days: files rotate by count and by
  day, and one thread rotates while the other is at each point of its line. The
  bound of `SplitLimit` is met exactly. 3 threads with 4 lines give the same result
  (900 000 states). `log_async` needs one thread and two lines.
* `server_live` has one fd for two clients and a queue of one, so that appends are
  refused in both actor models. In Reactor the refused task is one for the fd the main
  thread waits for, and the older task of the same fd sets `improv`; that the main thread
  waits for ever when the queue is full of other fds' tasks needs a second fd and is not
  in this run.

Deadlock is not checked in `thread_pool` and `conn_pool`, where workers really do
wait for ever when nobody appends, or when one has stopped in undefined behaviour;
nor in the runs of `HttpConn`, `Accounts` and `Log`, whose requests and lines are
bounded and which may end when there are no more (that nobody waits for ever there
is what `Returns` and `Answered` say).

### Fairness

`FairSpec` gives weak fairness to the main thread, to each worker, and to the
passing of time: POSIX threads get the processor, the spin in `deal_read` reads a
plain integer in memory (the makefile builds with `-g` and without optimisation,
makefile:3-5, so the load stays in the loop), and clocks go on. Clients owe
nothing: no fairness on connecting, sending, reading or hanging up. `ThreadPool`
has weak fairness on the steps inside `append` and `run`; calls of `append` and
interruptions are not fair. `HttpConn` has it on the steps of the thread that works
on the object (not on the network or the client), `Accounts` and `Log` on the steps
of each thread, except that nobody need register, log in or log; a lock that is free
for good is got, and no more is assumed of locks.

## Proofs

`tlapm` checks every theorem in eight modules; there are no unproved steps. The
assumptions are those stated in the models (`TimerListAssumption`, `ThreadPoolAssumption`,
`ConnPoolAssumption`, `WebServerAssumption`, `HttpConnAssumption`,
`AccountsAssumption`, `LogAssumption`, `ThreadsAssumption`): finite sets where something
is counted, positive bounds, and model values that differ. Two theorems assume more of
the constants: `OwnTimerOnly` that every file is found, `NotLeftWaiting` that no body is
cut.

**TimerListProofs.** For any number of addresses and any finite set of timeouts.
`WellLinked` speaks of what `Walk` meets from `head` on, and a step that redirects one
pointer says nothing of `Walk`. The invariant `IInv` hides a listing instead: some
function `s` on `0..n`, with the live nodes at `0..(n - 1)`, each once, and NULL at `n`,
along which `next` leads and, from the second node on, `prev` leads back, in ascending
order of expiry, with `tail` the last. An insertion puts a node into the listing
(lemmas on inserting and removing give the new one), a deletion takes one out, `tick`
drops a prefix, and what other addresses hold does not matter, so neither do the
pointers that `tick` leaves dangling. That such a listing is what `Walk` computes
(`ListWellLinked`) would be an induction; it is a least counterexample here, the first
place where the two differ. `TypeCorrect` comes from the same invariant. `Refinement`: the
prefix that `tick` drops is the set of timers that are due, because the list is ascending.

**ThreadPoolProofs.** `TypeCorrect`, `NeverEmpty`, `AllWoken`, `Refinement`. Who is
between `lock()` and `unlock()` holds the lock, so what `Check` saw still holds at
`Pop`. `AllWoken` counts: queued tasks never outnumber units of the semaphore plus
workers on their way plus a post about to be made. `Refinement` maps each step to
one of `TaskQueue` or to a stutter.

**ConnPoolProofs.** The invariant `IInv` (types, lock ownership, who has a handle at
which pc, no sharing) gives `NeverShared`. `HandleInv` counts: handles on the list
plus handles in hands are `m_MaxConn`; it gives `TypeCorrect`. With as many handles
as threads (`Enough`, as in the defaults of config.cpp, 8 and 8) a thread that asks
cannot find the list empty, since each of the others has one handle at most:
`AlwaysAHandle`, for both halves of `AlwaysServed`. With fewer handles the rest of it and
`NeverIdle` are a counting of units (`CountInv`): the semaphore's, those of the threads past
their wait and those of the posts to come are at least as many as the handles on the list,
and exceed them by the interrupted waits at most. So without such a wait whoever is past
`wait()` has a handle on the list, however old its test for emptiness.

**WebServerProofs.** For any number of connections, workers and fds and every mode:

* `TypeCorrect`: the state is well typed, the queue within its bound.
* `EveryoneTimed` (`TimerOwned`) and `NoUseAfterFree` (`NoFreedTimer`). Neither is
  inductive. The invariant `TimerInv` adds: a slot never points at a running timer
  of another fd (`SlotInv`), because a slot is left pointing at its last timer when
  the fd is closed; a connection that has not been accepted has left no trace
  (`FreshInv`), because its timer must not be found on the list already; and the
  events of a batch are for different fds, none of them for the fd in hand, and all
  handled before `tick` (`EventInv`), because each may free a timer.
* `NobodyForgotten` (`EdgeDrained`): with an fd for every client. The connections
  behind the fds are different and none of them is waiting, so by the pigeonhole
  principle an fd is free as long as anybody waits, and the loop goes on; that
  `m_user_count` never exceeds 0 keeps it from stopping at the limit.
* `OwnTimerOnly` (`TickClosesOwn`): if every file is found. Then no worker closes an
  fd (`NoWorkerCloses`) and every running timer is that of the connection behind
  its fd (`RunningInv`), however long tasks take: `close_conn` in a worker
  (http_conn.cpp:656) is the only way to a stale timer.
* `OneHand` (`ProactorOneHandler`): in Proactor, with tasks of any length and files
  missing or not. `HandInv` is `TimerInv` and `Hands`: an object's `m_sockfd` is its own
  number or -1, so that a worker's `modfd` or `close_conn` hits its own fd or none; and
  the fd of a connection that is no heir (`Clean`) is `Held`: at most one task is for it,
  nothing is armed or reported for it while a task or an event is, and no worker is about
  to forget its socket. A connection becomes clean only on an fd that is not `Busy`, so
  it finds `Held` true there whatever happened before; whoever closes the connection
  makes the fd nobody's, and no promise about it is left until the next accept.
* `OwnAnswers` (`RightClient`): in both actor models, so without `Held`: in Reactor several
  threads may be at one object. `AnswerInv` is `TimerInv` and `Answering`, which is about
  what travels: for a clean connection, the pieces in the buffer, the file with which a
  worker is between `process_read` and `process_write`, and the response are its own, or
  there is no file; and no worker is about to forget the socket. Whatever steps the
  threads at one object take in turn, each puts there only what comes from the fd of that
  object. A step on one fd leaves the objects of the others alone, so what befalls an
  heir stays with it.

**HttpConnProofs.** For any requests, pieces, buffer and int size:

* `TypeCorrect`: among other things `m_read_buf` is never filled past its end.
* `NulStaysInside` (`NulInside`): the parser's indices are within what has been read, so a
  body that is found complete ends there or just behind; edge-triggered a full buffer
  never gets to the parser (`NulInv`). A negative length puts the NUL before the body.
* `IntactIfCutOnce` (`Intact`) and `DoneWithLastByte` (`WholeResponse`). `Intact` says
  nothing of where `m_iv` points before the next `writev`, so it is not inductive;
  `SizeInv` relates the counters to the length of the response, and `PlaceInv` says where
  `m_iv[0]` and `m_iv[1]` stand when the header has not been cut, has been cut once, and
  is out.

**HttpConnInputProofs.** For connections whose clients announce what they send, beside
others that do not (`announced`), with any requests, buffer, pieces and either trigger
mode, on an object with any past:

* `AnswersRight` (`RightAnswer`) and `RefusesOnlyTooLong` (`RefusedOnlyIfTooLong`), from
  one invariant, `ReadInv`. The request's bytes are in `m_read_buf`, the inbox and the
  client, in this order and each once (`InFlight`); the buffer has what was sent, except
  that `parse_line` has put NULs in place of the marks before `m_check_idx` (`Held`). The
  parser has taken some number of lines and its members say what those lines say
  (`AtLine`), `m_content_length` what the last length line among them gives; or it is in the
  body (`AtBody`). Between requests the object is `Fresh`: both `init` functions reset
  all that the parser reads. What `Encode` has at each place is lemma `EncodeShape`;
  `LineInHand` is that `parse_line` finds a line's end where the client put it and
  nowhere else. `read_once` gives up when the buffer is full, and all that is
  in it are bytes of this one request.
* `NotLeftWaiting` (`NeverStuck`), where no body is cut (`~CutBody`): `WholeInv` says that
  with any byte of the body in the buffer all of it is there, unless the buffer is full,
  so that `parse_line` never gets into a part of a body that will grow. With
  a body cut in two it does, and `NeverStuck` fails (run `http_body`).

**AccountsProofs.** For any number of workers, names, requests and restarts.
`TypeCorrect` says who holds `m_lock`. No other property is inductive; `IInv` adds
where a worker may have which page in mind (`PageInv`); that every success, told or
about to be, has its row, and with a unique key there is one row a name and nobody is
about to be told of a name whose success has been told (`WinInv`); and what the map knows (`MapInv`): a row has its name in the map or is in the
hands of the one worker between `Query` and `Inserted`, which has the lock (`NamesInv`); an
entry has its row or is one of a failed INSERT (`EntriesInv`); and, with the key and no
damaged entry, the password of a name without a failed INSERT is its row's (`RowsInv`).
They give `AlwaysRemembered`, `MapIsTable` and `WelcomeRight`, each under
the conditions its property states and no other.

**LogProofs.** For any number of threads, rotations and days. `Roles` says that the
flusher does only what it is there for; `LineInv` that each thread has one line and
that no two have the same; `PlaceInv` where a line is from its `fputs` on: in stdio's
buffer or on the disk, and in no other file. `Close` and `Flush` of one thread move
the lines of all (lemma `Emptied`). They give `DurableOnReturn`.
`FilesKeepTheirLength` (for a finite set of threads) needs three more: with the
asynchronous queue the flusher never has a line to put, since the lock of the queue is
lost with the first `push` (`QueueInv`); the open file is the one the day and the count
say, and one about to be opened is new unless a thread has come late (`FileInv`); and
the lines of the open file plus those on their way are at most what the count says
plus one a thread, those that were counted for the file before (`SizeInv`).

Only model-checked: all liveness (`IdleIsClosed`, `BacklogIsServed`, `AlarmIsServed`,
`Served`, `Answered`, `Returns`), which rests on fairness and so on ENABLED. Every
invariant, action property and refinement that a passing run checks is also a theorem.

## What the models say about the code

Besides the three violation runs, these came up while modelling. They are built into
the models or outside their bounds, and no run is devoted to them.

The event loop and the pools:

* `m_user_count` is never incremented, so `MAX_FD` is never reached and the test at
  webserver.cpp:205 and 225 does not bound the arrays.
* A task that outlasts its connection's timer, or an event of the batch that is left when
  a worker closes the fd, shares its object with the client that takes the fd over (an
  heir); that one may get an answer that was not meant for it. `RightClient` says that
  nobody else does.
* In Reactor, `write()` re-arms the fd before `init()` resets the object
  (http_conn.cpp:590-591, 635-638): the main thread may give the object to a second
  worker in between, and the reset falls into that one's work, though the comment at
  lst_timer.cpp:173 says that one at a time handles the file. That is why
  `ProactorOneHandler` is about Proactor; without `mode.actor = 0` TLC violates it.
* In Reactor a flag that a worker sets for the last response, when `deal_write` has
  already looked, is found at a later event: the main thread closes the connection
  though its next task is between `process_read` and `process_write`, and the fd and the
  object may go to the next client with the task still on them. That client is an heir
  and may get the answer; `RightClient` says that the damage ends with it.
* In Reactor with a full queue the refused `append` is not looked at
  (webserver.cpp:287), and the main thread waits for `improv` of a task that nobody has:
  for ever, unless an older task of the same fd is still to set it.
* The clock may step back. `adjust_timer` then gets an earlier expiry, does not move
  the timer, and the list is no longer ascending; timers behind it are late.
* Edge-triggered and out of fds (EMFILE), the accepting loop stops with connections
  in the backlog, which are reported again only with the next arrival. They wait for ever
  if there is none, and `BacklogIsServed` excepts them.
* A worker sets `improv` before `timer_flag` (threadpool.h:159-160, 169-170) and
  `deal_write` looks only once: a failed connection may stay until its timer is due.
* A `GetConnection` let through by an interrupted wait takes a handle without a unit
  and posts one later, so the semaphore may count more than the list holds; with fewer
  handles than threads it may call `front()` on an empty list.
* In Proactor a refused task leaves the fd disarmed until the timer closes it.

Requests and responses:

* `process_read` runs off its end without a `return` when it needs more input. That is
  undefined; built without optimisation `NO_REQUEST` is what comes out, and the models
  rely on it. An optimising compiler may take the loop for endless.
* A body that arrives in two pieces (run `http_body`): `parse_line` moves `m_check_idx`
  into it, and the object waits until its timer is due.
* A `\r` with something else than `\n` behind it (`LINE_BAD`) ends the loop like a line
  that is not complete; the object waits for more in vain.
* Edge-triggered, a request of exactly 2048 bytes closes the connection: the next
  `recv` is for 0 bytes, returns 0, and is taken for the client's end. A longer one
  does the same.
* `init()` drops what has been read behind a request, so a client that sends two
  requests at once gets one answer.
* `init()` does not reset `m_string`, `m_iv` or the mapping. `m_string` is used only
  when the request at hand has set it (`cgi`), unless a POST has no body; a connection
  closed between two partial writes keeps its file mapped until the object's next
  response replaces the pointer.
* A header cut twice inside: the second `iov_len -= byte_have_send` (http_conn.cpp:623)
  subtracts the first piece again, so bytes at the end of the header are left out and those
  of the file, if any, come too early, or from before the mapping. Without a file there may
  be nothing left in `m_iv` while `byte_to_send` is greater than 0: `writev` returns 0, and
  the loop at lines 596-643 goes on for ever, with the thread in it. `Intact` and `Returns`
  say what holds up to the second cut (`cuts <= 1`); TLC violates both without that. The
  length does not wrap: it is at least what is subtracted, or the other branch is taken.
* `text[m_content_length] = '\0'` (line 401): level-triggered, a body that ends where
  `m_read_buf` ends makes this a write one past the array. On x86-64 it falls on the lowest
  byte of `m_read_idx` (offset 2408, behind 2048 bytes at 360), which is 0 then, as 2048 is
  a multiple of 256; `NulInside` says that it goes no further. A negative
  `Content-Length` is complete at once, before the body is there, and the NUL falls
  before the body.
* `open()` and `mmap()` are not checked (lines 391-394): when one fails the response has a
  length for the file and no mapping, `writev` fails with EFAULT after the header at the
  latest, and the connection is closed. An empty file is answered without its mapping.
* The header is misspelt (`Connectino`), and the `Content-Length` of the error pages is
  the length of another text.
* A file of 2 GB or more wraps `byte_to_send`; the response is taken for done early.

Accounts:

* Without a unique key in the table two registrations of one name can both be told
  that they succeeded; the map has the first, and after a restart the row read last.
* An INSERT that fails for a reason other than the key leaves the name in the map and
  not in the table, and the client is told it failed, though it can log in.
* A log-in's `users[name]` may come while the map is being changed; missing the entry
  it makes one with an empty password.
* The copy of the password (line 308) gets no `'\0'`: which password is registered
  depends on the stack. `Passwords` stands for what comes out.

The log:

* The day is read before the lock. A thread that comes late opens yesterday's file
  again, and the next one today's, each time with the count at 0; `SplitLimit` leaves
  those files out, `Durable` does not.
* The first file after a start has one line less than the others (the count starts at 0 and
  is incremented before the first line; a new day sets it to 0 with its first line), and a
  restart on the same day appends to the day's file with the count at 0.
* `localtime` returns one buffer for all threads (log.cpp:71, before the lock), and a
  failing `fopen` in the rotation is not noticed. Neither is modelled.
* Asynchronous (run `log_async`), `init` logs the first line itself and the second one
  stops its thread, before or soon after the server listens.

## Not modelled, and why

* The text of pages, headers and log lines, the analysis of a line's text (which of
  the kinds of lines it is), and the names of files: each is a choice of the models.
* Parts that no code calls: `cond::timewait` and `cond::signal`.
* A database that cannot be reached: `init` exits the process, and a failing SELECT
  of `init_mysql` stops it before any thread runs.
* Configuration and start-up: straight-line code before any thread exists, except
  for `TRIGMod`, which `WebServer` has.
* `SIGTERM`: it sets only the timeout flag (webserver.cpp:269-271), as an alarm does.
* Failures of `epoll_wait`, `epoll_ctl` and allocation; memory ordering of `improv`.
* `src/root` (pages) and `src/test_presure` (a third-party load generator).

## Plan

In order of importance; all but the last are done.

1. `TimerSet`, `TimerList`: the timer container and its abstract specification.
2. `TaskQueue`, `ThreadPool`: the pool and its abstract specification, with proofs.
3. `ConnPool`: the database pool, with proofs.
4. `WebServer`: the composition in both actor models, runs for safety and liveness.
5. `WebServerProofs`: types, timers, accepting, stale timers.
6. `HttpConn`: `read_once`, the parser on input in pieces, and `write()` over several
   partial `writev` calls (http_conn.cpp:60-643), with proofs.
7. `Accounts`: registration and log-in by several workers with the database as
   external state and restarts (http_conn.cpp:297-341), with proofs.
8. `Log`: `write_log` with rotation, the blocking queue and the flushing thread, with
   proofs.
9. `OneHand` and `OwnAnswers`: what holds of one object and many clients, in Proactor and
   in Reactor, with proofs.
10. `TimerListProofs`: the order of the timer list and its refinement, for every
    instance.
11. `HttpConnInputProofs`: what the parser makes of input in pieces, for every request.
12. Abstract specifications of the database pool (handles lent and returned) and of
    the accounts (registration in one step), with proofs that the models implement them.
