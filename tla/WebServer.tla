------------------------------ MODULE WebServer ------------------------------
(***************************************************************************)
(* The running server: the event loop of src/src/webserver in the main     *)
(* thread, the http_conn objects, the worker threads of src/src/thredpool, *)
(* the connection timers, and the kernel's sockets and epoll set as the    *)
(* code uses them, in Proactor (the main thread reads and writes the       *)
(* sockets) or Reactor (the workers do), level- or edge-triggered.         *)
(*                                                                         *)
(* A connection is what accept() returned; its fd is only a number the     *)
(* kernel lends it, always the lowest free one, so that a closed number    *)
(* comes back at once.  http_conn objects, timer slots and queued tasks    *)
(* all go by the number, which is where most of the hard cases come from.  *)
(*                                                                         *)
(* The timer list appears as what TimerList shows it to implement: a set   *)
(* of running timers, of which a tick removes all that are due.            *)
(***************************************************************************)
EXTENDS Integers, Sequences, FiniteSets, SequencesExt

CONSTANTS
    Conns,        \* the connections clients make, each accepted at most once
    Workers,      \* the worker threads
    MaxFD,        \* the kernel lends the fds 1..MaxFD
    MaxUsers,     \* MAX_FD, the bound on m_user_count
    MaxRequest,   \* m_max_request of the thread pool
    Slots,        \* slots before an idle timer is due: 3 * TIMESLOT in the code
    MaxSend,      \* bound on the pieces of input one client sends
    Kinds,        \* the pieces of input clients send
    ActorModels,  \* values of option -a: 0 Proactor, 1 Reactor
    TrigModes,    \* values of option -m
    None

\* "part" is an incomplete request.  The others complete one, for a file that
\* exists, with keep-alive or without, and for a file that does not exist.
AllKinds == {"part", "keep", "close", "missing"}

ASSUME WebServerAssumption ==
    /\ IsFiniteSet(Conns) /\ None \notin Conns
    /\ {MaxFD, MaxUsers, MaxRequest, Slots} \subseteq Nat \ {0}
    /\ MaxSend \in Nat
    /\ Kinds \subseteq AllKinds
    /\ ActorModels \subseteq {0, 1} /\ TrigModes \subseteq 0..3

NoTask == [pc |-> "idle", fd |-> 0]

VARIABLES
    mode,         \* m_actor_model, m_LISTENTrigmode, m_CONNTrigmode
    net,          \* each connection, as its client and the kernel see it
    sock,         \* the connection behind each fd
    edge,         \* a connection arrived since epoll_wait last looked
    users,        \* the http_conn object of each fd
    user_timer,   \* user_timer[fd].timer, a timer being named by its connection
    timers,       \* the timers on the list, each with the fd of its user_data
                  \* and the slots before it is due
    m_user_count,
    m_queue,      \* the pool's queue, of pointers to http_conn objects: their fds
    worker,       \* what each worker thread is doing
    main,         \* what the main thread is doing, and on which fd
    events,       \* what is left of the array epoll_wait filled
    alarm         \* "armed", "fired" (a byte in the pipe) or "timeout"

vars == <<mode, net, sock, edge, users, user_timer, timers, m_user_count,
          m_queue, worker, main, events, alarm>>

FDs == 1..MaxFD

\* TRIGMod(): <<m_LISTENTrigmode, m_CONNTrigmode>>.  For 2 the former is not
\* assigned: it may be 0, or 1, or (2 here) any other number, which registers
\* the socket level-triggered and accepts in a loop.
TRIGMod(trigmod) ==
    CASE trigmod = 0 -> {<<0, 0>>}
      [] trigmod = 1 -> {<<0, 1>>}
      [] trigmod = 2 -> {0, 1, 2} \X {0}
      [] trigmod = 3 -> {<<1, 1>>}

-----------------------------------------------------------------------------
(* The kernel and the clients.                                              *)

NewConn == [ phase    |-> "none",    \* then "backlog", "open", "closed"
             inbox    |-> <<>>,      \* input not read yet
             sent     |-> 0,
             gone     |-> FALSE,     \* the client has shut down
             interest |-> "none",    \* in epoll; "off" after a one-shot event
             full     |-> "no",      \* the send buffer: "yes" is full, "was" has
                                     \* been full for the current response
             got      |-> {},        \* whose requests it got an answer to
             heir     |-> FALSE ]    \* history: it took over an fd that was Busy

\* Somebody has still to handle fd f: a task or an event of the batch is for it.
AtWork(f) == f \in ToSet(m_queue) \/ \E w \in Workers : worker[w].fd = f
Busy(f)   == AtWork(f) \/ \E e \in events : e.fd = f

\* addfd(): k is in the epoll set, by fd f.  Shut(k) is what is left of a closed one.
Opened(k, f) == [k EXCEPT !.phase = "open", !.interest = "in", !.heir = @ \/ Busy(f)]
Shut(k)      == [NewConn EXCEPT !.phase = "closed", !.got = k.got, !.heir = k.heir]

\* What s, an fd or -1, refers to.
Peer(s) == IF s \in FDs THEN sock[s] ELSE None

\* Connections that were n, after close(s), or after epoll_ctl on s.
CloseFd(n, s) == [c \in Conns |-> IF c = Peer(s) THEN Shut(n[c]) ELSE n[c]]

Modfd(n, s, ev) ==
    [c \in Conns |-> IF c = Peer(s) THEN [n[c] EXCEPT !.interest = ev] ELSE n[c]]

Connect(c) ==
    /\ net[c].phase = "none"
    /\ net' = [net EXCEPT ![c].phase = "backlog"]
    /\ edge' = (mode.listen = 1)
    /\ UNCHANGED <<mode, sock, users, user_timer, timers, m_user_count, m_queue,
                   worker, main, events, alarm>>

Client(c, k) ==
    /\ net[c].phase \in {"backlog", "open"}
    /\ net' = [net EXCEPT ![c] = k]
    /\ UNCHANGED <<mode, sock, edge, users, user_timer, timers, m_user_count, m_queue,
                   worker, main, events, alarm>>

Send(c) ==
    /\ ~net[c].gone /\ net[c].sent < MaxSend
    /\ \E kind \in Kinds :
           Client(c, [net[c] EXCEPT !.inbox = Append(@, kind), !.sent = @ + 1])

Hangup(c) == ~net[c].gone /\ Client(c, [net[c] EXCEPT !.gone = TRUE])

\* The client reads what has been sent.  Bound: a response meets a full send
\* buffer at most once.
Drain(c) == net[c].full = "yes" /\ Client(c, [net[c] EXCEPT !.full = "was"])

\* Time passes: timers come closer, and an armed alarm() writes to the pipe.
Pass ==
    /\ timers' = [i \in DOMAIN timers |->
                     [timers[i] EXCEPT !.rem = IF @ = 0 THEN 0 ELSE @ - 1]]
    /\ alarm' = IF alarm = "armed" THEN "fired" ELSE alarm
    /\ UNCHANGED <<mode, net, sock, edge, users, user_timer, m_user_count, m_queue,
                   worker, main, events>>

\* The event epoll_wait would report for c.  EPOLLRDHUP is part of every
\* registration, and the loop looks at it first.
Report(c) ==
    IF net[c].interest \notin {"in", "out"} THEN "none"
    ELSE IF net[c].gone THEN "hup"
    ELSE IF \/ net[c].interest = "in" /\ net[c].inbox # <<>>
            \/ net[c].interest = "out" /\ net[c].full # "yes"
         THEN net[c].interest ELSE "none"

Backlog == {c \in Conns : net[c].phase = "backlog"}
FreeFDs == {f \in FDs : sock[f] = None}

Ready ==
    {e \in [fd : FDs, ev : {"hup", "in", "out"}] :
         sock[e.fd] # None /\ e.ev = Report(sock[e.fd])}
    \cup {e \in [fd : {0}, ev : {"listen"}] :
              IF mode.listen = 1 THEN edge ELSE Backlog # {}}
    \cup {e \in [fd : {0}, ev : {"signal"}] : alarm = "fired"}

-----------------------------------------------------------------------------
(* http_conn.                                                               *)

\* file is the connection whose request m_file_address answers; resp is None, or the
\* response with its copy of m_file_address.
NewObject == [ m_sockfd |-> -1, rbuf |-> <<>>, file |-> None, resp |-> None,
               m_linger |-> FALSE, improv |-> 0, timer_flag |-> 0, m_state |-> 0 ]

\* Both init()s: all is reset but the mapping of a file.
Reset(o, s) == [NewObject EXCEPT !.m_sockfd = s, !.file = o.file]

\* What read_once() of f's object returns, leaves in the object, and leaves in
\* the kernel.  It fails on an fd that is closed; with nothing to read, if the
\* client has shut down or (level-triggered) on EAGAIN; and edge-triggered it
\* reads on to the end of the input, failing there if the client has shut down.
ReadOK(f) ==
    LET c == Peer(users[f].m_sockfd)
    IN  /\ c # None
        /\ IF mode.conn = 0 THEN net[c].inbox # <<>> ELSE ~net[c].gone

ReadObject(f) ==
    LET c == Peer(users[f].m_sockfd)
    IN  IF c = None THEN users[f]
        ELSE [users[f] EXCEPT !.rbuf =
                 @ \o [i \in DOMAIN net[c].inbox |->
                           [conn |-> c, kind |-> net[c].inbox[i]]]]

ReadNet(f) ==
    [c \in Conns |-> IF c = Peer(users[f].m_sockfd)
                     THEN [net[c] EXCEPT !.inbox = <<>>] ELSE net[c]]

\* What write() can meet: nothing to send, a full send buffer, an error (also when the
\* response has no file any more), or room for the whole response.
WriteResults(f) ==
    LET c == Peer(users[f].m_sockfd)
    IN  IF users[f].resp = None THEN {"nothing"}
        ELSE IF c = None \/ users[f].resp.file = None THEN {"error"}
        ELSE {"sent"} \cup (IF net[c].full = "no" THEN {"again"} ELSE {})
                      \cup (IF net[c].gone THEN {"error"} ELSE {})

\* What it does to the connections, ending with its modfd.
WriteNet(f, r) ==
    LET s == users[f].m_sockfd
        After(k) == IF r = "again" THEN [k EXCEPT !.full = "yes"]
                    ELSE IF r = "sent" THEN [k EXCEPT !.got = @ \cup {users[f].resp.file},
                                                       !.full = "no"]
                    ELSE k
        n == [c \in Conns |-> IF c = Peer(s) THEN After(net[c]) ELSE net[c]]
    IN  IF r = "error" THEN net ELSE Modfd(n, s, IF r = "again" THEN "out" ELSE "in")

WriteObject(f, r) ==
    CASE r = "sent"  -> [users[f] EXCEPT !.resp = None, !.file = None]
      [] r = "error" -> [users[f] EXCEPT !.file = None]
      [] OTHER       -> users[f]

\* Whether it then runs init() on the object, and whether it returns true.
WriteInits(f, r) == r = "nothing" \/ (r = "sent" /\ users[f].m_linger)
WriteTrue(f, r)  == r = "again" \/ WriteInits(f, r)

-----------------------------------------------------------------------------
(* The main thread: eventloop() and the functions it calls.                 *)

Goto(pc, f) == main' = [pc |-> pc, fd |-> f]

\* timers with a new timer i for fd f, with f's timer set back, without timer i.
Added(i, f) == [x \in DOMAIN timers \cup {i} |->
                   IF x = i THEN [fd |-> f, rem |-> Slots] ELSE timers[x]]
Adjusted(f) == [timers EXCEPT ![user_timer[f]].rem = Slots]
Removed(i)  == [x \in DOMAIN timers \ {i} |-> timers[x]]

\* callback_function(user_data): close fd f, one user less.
Callback(n, f) ==
    /\ net' = CloseFd(n, f)
    /\ sock' = [sock EXCEPT ![f] = None]
    /\ m_user_count' = m_user_count - 1

\* Fault: a registration without EPOLLONESHOT.
EpollWaitManyShots ==
    /\ main.pc = "wait" /\ Ready # {}
    /\ events' = Ready
    /\ edge' = FALSE
    /\ Goto("next", 0)
    /\ UNCHANGED <<mode, net, sock, users, user_timer, timers, m_user_count, m_queue,
                   worker, alarm>>

\* epoll_wait returns: a one-shot registration that reports is switched off.
EpollWait ==
    /\ main.pc = "wait" /\ Ready # {}
    /\ events' = Ready
    /\ net' = [c \in Conns |-> IF \E e \in Ready : e.fd # 0 /\ sock[e.fd] = c
                               THEN [net[c] EXCEPT !.interest = "off"] ELSE net[c]]
    /\ edge' = FALSE
    /\ Goto("next", 0)
    /\ UNCHANGED <<mode, sock, users, user_timer, timers, m_user_count, m_queue,
                   worker, alarm>>

\* Faults: the object of the fd's last connection is not reset, the fd's slot
\* still points at the last timer, the edge-triggered loop stops after one.
AcceptedStale(c, f) ==
    /\ net' = [net EXCEPT ![c] = Opened(@, f)]
    /\ sock' = [sock EXCEPT ![f] = c]
    /\ users' = [users EXCEPT ![f].m_sockfd = f]
    /\ user_timer' = [user_timer EXCEPT ![f] = c]
    /\ timers' = Added(c, f)
    /\ Goto(IF mode.listen # 0 THEN "accept" ELSE "next", 0)

AcceptedOldSlot(c, f) ==
    /\ net' = [net EXCEPT ![c] = Opened(@, f)]
    /\ sock' = [sock EXCEPT ![f] = c]
    /\ users' = [users EXCEPT ![f] = Reset(@, f)]
    /\ user_timer' = [user_timer EXCEPT ![f] = IF @ = None THEN c ELSE @]
    /\ timers' = Added(c, f)
    /\ Goto(IF mode.listen # 0 THEN "accept" ELSE "next", 0)

AcceptedOne(c, f) ==
    /\ net' = [net EXCEPT ![c] = Opened(@, f)]
    /\ sock' = [sock EXCEPT ![f] = c]
    /\ users' = [users EXCEPT ![f] = Reset(@, f)]
    /\ user_timer' = [user_timer EXCEPT ![f] = c]
    /\ timers' = Added(c, f)
    /\ Goto("next", 0)

\* deal_clentdata(): one accept(), or edge-triggered until one fails.  With no
\* fd to lend accept() fails and the connection stays in the backlog.
Accepted(c, f) ==
    IF m_user_count >= MaxUsers
    THEN /\ net' = [net EXCEPT ![c] = Shut(@)]
         /\ Goto("next", 0)
         /\ UNCHANGED <<sock, users, user_timer, timers>>
    ELSE /\ net' = [net EXCEPT ![c] = Opened(@, f)]
         /\ sock' = [sock EXCEPT ![f] = c]
         /\ users' = [users EXCEPT ![f] = Reset(@, f)]
         /\ user_timer' = [user_timer EXCEPT ![f] = c]
         /\ timers' = Added(c, f)
         /\ Goto(IF mode.listen # 0 THEN "accept" ELSE "next", 0)

deal_clentdata ==
    /\ main.pc = "accept"
    /\ IF Backlog = {} \/ FreeFDs = {}
       THEN Goto("next", 0) /\ UNCHANGED <<net, sock, users, user_timer, timers>>
       ELSE \E c \in Backlog, f \in FreeFDs :
                (\A g \in FreeFDs : f <= g) /\ Accepted(c, f)
    /\ UNCHANGED <<mode, edge, m_user_count, m_queue, worker, events, alarm>>

\* Fault: the timer stays on the list.
deal_timerNoDelete(n, f) == Callback(n, f) /\ UNCHANGED <<timers, user_timer>>

\* deal_timer(user_timer[f].timer, f), with the connections as in n.
deal_timer(n, f) ==
    /\ Callback(n, f)
    /\ timers' = Removed(user_timer[f])
    /\ UNCHANGED user_timer

\* Fault: the bound of the queue is off by one.
AppendedOffByOne(f) == IF Len(m_queue) > MaxRequest THEN m_queue ELSE Append(m_queue, f)

\* append_p() and append(): a full queue refuses the task, and the caller does
\* not look at the result.
Appended(f) == IF Len(m_queue) >= MaxRequest THEN m_queue ELSE Append(m_queue, f)

\* Proactor: read here, then leave the request to a worker.
ReadHere(f) ==
    /\ users' = [users EXCEPT ![f] = ReadObject(f)]
    /\ IF ReadOK(f)
       THEN /\ net' = ReadNet(f)
            /\ m_queue' = Appended(f)
            /\ timers' = Adjusted(f)
            /\ UNCHANGED <<sock, user_timer, m_user_count>>
       ELSE deal_timer(net, f) /\ UNCHANGED m_queue
    /\ Goto("next", 0)

\* Proactor: write here.
WriteHere(f) ==
    /\ \E r \in WriteResults(f) :
         /\ users' = [users EXCEPT ![f] =
                         IF WriteInits(f, r) THEN Reset(WriteObject(f, r), @.m_sockfd)
                         ELSE WriteObject(f, r)]
         /\ IF WriteTrue(f, r)
            THEN /\ net' = WriteNet(f, r)
                 /\ timers' = Adjusted(f)
                 /\ UNCHANGED <<sock, user_timer, m_user_count>>
            ELSE deal_timer(WriteNet(f, r), f)
    /\ UNCHANGED m_queue
    /\ Goto("next", 0)

\* Reactor: leave the reading or writing to a worker, and look for its result,
\* waiting for it only when it reads.
Delegate(f, state, pc) ==
    /\ timers' = Adjusted(f)
    /\ m_queue' = Appended(f)
    /\ users' = IF Len(m_queue) >= MaxRequest THEN users
                ELSE [users EXCEPT ![f].m_state = state]
    /\ Goto(pc, f)
    /\ UNCHANGED <<net, sock, user_timer, m_user_count>>

deal_read(f)  == IF mode.actor = 0 THEN ReadHere(f)  ELSE Delegate(f, 0, "spin")
deal_write(f) == IF mode.actor = 0 THEN WriteHere(f) ELSE Delegate(f, 1, "glance")

\* Fault: the loop goes on after it has deleted the timer.
LookAgain ==
    /\ \/ main.pc = "spin" /\ users[main.fd].improv = 1
       \/ main.pc = "glance"
    /\ IF users[main.fd].improv = 1 /\ users[main.fd].timer_flag = 1
       THEN deal_timer(net, main.fd) /\ UNCHANGED <<users, main>>
       ELSE /\ Goto("clear", main.fd)
            /\ UNCHANGED <<net, sock, timers, user_timer, m_user_count, users>>
    /\ UNCHANGED <<mode, edge, m_queue, worker, events, alarm>>

\* Reactor: `if improv == 1 and timer_flag == 1` ...
Look ==
    /\ \/ main.pc = "spin" /\ users[main.fd].improv = 1
       \/ main.pc = "glance"
    /\ IF users[main.fd].improv = 1 /\ users[main.fd].timer_flag = 1
       THEN deal_timer(net, main.fd) /\ users' = [users EXCEPT ![main.fd].timer_flag = 0]
       ELSE UNCHANGED <<net, sock, timers, user_timer, m_user_count, users>>
    /\ Goto("clear", main.fd)
    /\ UNCHANGED <<mode, edge, m_queue, worker, events, alarm>>

\* ... `improv = 0; break`.
ClearImprov ==
    /\ main.pc = "clear"
    /\ users' = [users EXCEPT ![main.fd].improv = 0]
    /\ Goto("next", 0)
    /\ UNCHANGED <<mode, net, sock, edge, user_timer, timers, m_user_count, m_queue,
                   worker, events, alarm>>

\* One turn of the loop over the events.  The kernel orders them as it likes.
Dispatch ==
    /\ main.pc = "next"
    /\ \E e \in events :
         /\ events' = events \ {e}
         /\ \/ /\ e.ev = "listen"
               /\ Goto("accept", 0)
               /\ UNCHANGED <<net, sock, users, user_timer, timers, m_user_count,
                              m_queue, alarm>>
            \/ /\ e.ev = "hup"
               /\ deal_timer(net, e.fd)
               /\ Goto("next", 0)
               /\ UNCHANGED <<users, m_queue, alarm>>
            \/ /\ e.ev = "signal"
               /\ alarm' = "timeout"
               /\ Goto("next", 0)
               /\ UNCHANGED <<net, sock, users, user_timer, timers, m_user_count,
                              m_queue>>
            \/ e.ev = "in" /\ deal_read(e.fd) /\ UNCHANGED alarm
            \/ e.ev = "out" /\ deal_write(e.fd) /\ UNCHANGED alarm
    /\ UNCHANGED <<mode, edge, worker>>

\* Fault: the timeout flag is not looked at.
BatchDoneNoTick ==
    /\ main.pc = "next" /\ events = {}
    /\ Goto("wait", 0)
    /\ UNCHANGED <<mode, net, sock, edge, users, user_timer, timers, m_user_count,
                   m_queue, worker, events, alarm>>

\* The batch is done: tick() if the alarm went off.
BatchDone ==
    /\ main.pc = "next" /\ events = {}
    /\ Goto(IF alarm = "timeout" THEN "tick" ELSE "wait", 0)
    /\ UNCHANGED <<mode, net, sock, edge, users, user_timer, timers, m_user_count,
                   m_queue, worker, events, alarm>>

\* One turn of tick(): the callback of a due timer gets the fd, not the timer.
Due == {i \in DOMAIN timers : timers[i].rem = 0}

\* Fault: the timer is freed and its callback not called.
TickOneNoCallback(i) ==
    /\ main.pc = "tick" /\ i \in Due
    /\ timers' = Removed(i)
    /\ UNCHANGED <<mode, net, sock, m_user_count, edge, users, user_timer, m_queue,
                   worker, main, events, alarm>>

TickOne(i) ==
    /\ main.pc = "tick" /\ i \in Due
    /\ Callback(net, timers[i].fd)
    /\ timers' = Removed(i)
    /\ UNCHANGED <<mode, edge, users, user_timer, m_queue, worker, main, events, alarm>>

\* Fault: alarm() is not called again.
TickDoneNoAlarm ==
    /\ main.pc = "tick" /\ Due = {}
    /\ alarm' = "off"
    /\ Goto("wait", 0)
    /\ UNCHANGED <<mode, net, sock, edge, users, user_timer, timers, m_user_count,
                   m_queue, worker, events>>

\* No timer is due any more, and timer_handler() calls alarm().
TickDone ==
    /\ main.pc = "tick" /\ Due = {}
    /\ alarm' = "armed"
    /\ Goto("wait", 0)
    /\ UNCHANGED <<mode, net, sock, edge, users, user_timer, timers, m_user_count,
                   m_queue, worker, events>>

Main == \/ EpollWait \/ deal_clentdata \/ Look \/ ClearImprov
        \/ Dispatch \/ BatchDone \/ TickDone
        \/ \E i \in Conns : TickOne(i)

-----------------------------------------------------------------------------
(* The worker threads: threadpool::run() and process().                     *)

Object(w) == users[worker[w].fd]

\* Steps of worker w: its next pc, and what it does to its object.
Step(w, pc)   == worker' = [worker EXCEPT ![w].pc = pc]
Finish(w)     == worker' = [worker EXCEPT ![w] = NoTask]
Set(w, o)     == users' = [users EXCEPT ![worker[w].fd] = o]

Take(w) ==
    /\ worker[w].pc = "idle" /\ m_queue # <<>>
    /\ worker' = [worker EXCEPT ![w] = [pc |-> "task", fd |-> Head(m_queue)]]
    /\ m_queue' = Tail(m_queue)
    /\ UNCHANGED <<mode, net, sock, edge, users, user_timer, timers, m_user_count,
                   main, events, alarm>>

\* Reactor, m_state = 0.  The main thread learns of improv before timer_flag.
WorkerRead(w) ==
    /\ worker[w].pc = "task" /\ mode.actor = 1 /\ Object(w).m_state = 0
    /\ net' = ReadNet(worker[w].fd)
    /\ Set(w, ReadObject(worker[w].fd))
    /\ Step(w, IF ReadOK(worker[w].fd) THEN "read" ELSE "failed")
    /\ UNCHANGED <<mode, sock, edge, user_timer, timers, m_user_count, m_queue,
                   main, events, alarm>>

\* Reactor, m_state = 1: write() up to its modfd, and then init().
WorkerWrite(w) ==
    /\ worker[w].pc = "task" /\ mode.actor = 1 /\ Object(w).m_state = 1
    /\ \E r \in WriteResults(worker[w].fd) :
         /\ net' = WriteNet(worker[w].fd, r)
         /\ Set(w, WriteObject(worker[w].fd, r))
         /\ Step(w, IF WriteInits(worker[w].fd, r) THEN "init"
                    ELSE IF WriteTrue(worker[w].fd, r) THEN "written" ELSE "failed")
    /\ UNCHANGED <<mode, sock, edge, user_timer, timers, m_user_count, m_queue,
                   main, events, alarm>>

WorkerInit(w) ==
    /\ worker[w].pc = "init"
    /\ Set(w, Reset(Object(w), Object(w).m_sockfd))
    /\ Step(w, "written")
    /\ UNCHANGED <<mode, net, sock, edge, user_timer, timers, m_user_count, m_queue,
                   main, events, alarm>>

\* improv = 1, after which comes process(), timer_flag = 1 or nothing.
SetImprov(w) ==
    /\ worker[w].pc \in {"read", "failed", "written"}
    /\ Set(w, [Object(w) EXCEPT !.improv = 1])
    /\ CASE worker[w].pc = "read"    -> Step(w, "process")
         [] worker[w].pc = "failed"  -> Step(w, "flag")
         [] worker[w].pc = "written" -> Finish(w)
    /\ UNCHANGED <<mode, net, sock, edge, user_timer, timers, m_user_count, m_queue,
                   main, events, alarm>>

SetTimerFlag(w) ==
    /\ worker[w].pc = "flag"
    /\ Set(w, [Object(w) EXCEPT !.timer_flag = 1])
    /\ Finish(w)
    /\ UNCHANGED <<mode, net, sock, edge, user_timer, timers, m_user_count, m_queue,
                   main, events, alarm>>

\* process_read(): which of the pieces that have been read complete a request.
Complete(rbuf) == {i \in DOMAIN rbuf : rbuf[i].kind # "part"}

\* What it leaves in the object when it has read a request of the given kind: for a
\* file that exists, the file has been mapped.
Parsed(w, kind) ==
    LET o == [Object(w) EXCEPT !.rbuf = <<>>, !.m_linger = @ \/ kind = "keep"]
    IN  IF kind = "missing" THEN Step(w, "close") /\ Set(w, o)
        ELSE Step(w, "answer") /\ Set(w, [o EXCEPT !.file = Object(w).rbuf[1].conn])

\* process() up to process_read(): wait for more, or take the first request that is
\* complete.
Process(w) ==
    LET rbuf == Object(w).rbuf
        ends == Complete(rbuf)
    IN  /\ \/ worker[w].pc = "task" /\ mode.actor = 0
           \/ worker[w].pc = "process"
        /\ IF ends = {} THEN Step(w, "rearm_in") /\ UNCHANGED users
           ELSE \E i \in ends : (\A j \in ends : i <= j) /\ Parsed(w, rbuf[i].kind)
        /\ UNCHANGED <<mode, net, sock, edge, user_timer, timers, m_user_count, m_queue,
                       main, events, alarm>>

\* process_write(), on the object as it is by now.
ProcessWrite(w) ==
    /\ worker[w].pc = "answer"
    /\ Set(w, [Object(w) EXCEPT !.resp = [file |-> Object(w).file]])
    /\ Step(w, "rearm_out")
    /\ UNCHANGED <<mode, net, sock, edge, user_timer, timers, m_user_count, m_queue,
                   main, events, alarm>>

\* close_conn(), when process_write() has nothing for the result: the fd is
\* closed ...
CloseConn(w) ==
    /\ worker[w].pc = "close"
    /\ IF Object(w).m_sockfd = -1
       THEN Step(w, "rearm_out") /\ UNCHANGED <<net, sock>>
       ELSE /\ net' = CloseFd(net, Object(w).m_sockfd)
            /\ sock' = [sock EXCEPT ![Object(w).m_sockfd] = None]
            /\ Step(w, "forget")
    /\ UNCHANGED <<mode, edge, users, user_timer, timers, m_user_count, m_queue,
                   main, events, alarm>>

\* ... then m_sockfd = -1 and m_user_count--.
ForgetSocket(w) ==
    /\ worker[w].pc = "forget"
    /\ Set(w, [Object(w) EXCEPT !.m_sockfd = -1])
    /\ m_user_count' = m_user_count - 1
    /\ Step(w, "rearm_out")
    /\ UNCHANGED <<mode, net, sock, edge, user_timer, timers, m_queue, main, events, alarm>>

\* The modfd that ends process().
Rearm(w) ==
    /\ worker[w].pc \in {"rearm_in", "rearm_out"}
    /\ net' = Modfd(net, Object(w).m_sockfd, IF worker[w].pc = "rearm_in" THEN "in" ELSE "out")
    /\ Finish(w)
    /\ UNCHANGED <<mode, sock, edge, users, user_timer, timers, m_user_count, m_queue,
                   main, events, alarm>>

Worker(w) == \/ Take(w) \/ WorkerRead(w) \/ WorkerWrite(w) \/ WorkerInit(w)
             \/ SetImprov(w) \/ SetTimerFlag(w) \/ Process(w)
             \/ ProcessWrite(w) \/ CloseConn(w) \/ ForgetSocket(w) \/ Rearm(w)

-----------------------------------------------------------------------------
Init ==
    /\ \E a \in ActorModels, t \in TrigModes : \E trig \in TRIGMod(t) :
           mode = [actor |-> a, listen |-> trig[1], conn |-> trig[2]]
    /\ net = [c \in Conns |-> NewConn]
    /\ sock = [f \in FDs |-> None]
    /\ edge = FALSE
    /\ users = [f \in FDs |-> NewObject]
    /\ user_timer = [f \in FDs |-> None]
    /\ timers = [i \in {} |-> [fd |-> 1, rem |-> 0]]
    /\ m_user_count = 0
    /\ m_queue = <<>>
    /\ worker = [w \in Workers |-> NoTask]
    /\ main = [pc |-> "wait", fd |-> 0]
    /\ events = {}
    /\ alarm = "armed"

Next == \/ \E c \in Conns : Connect(c) \/ Send(c) \/ Hangup(c) \/ Drain(c)
        \/ Pass
        \/ Main
        \/ \E w \in Workers : Worker(w)

Spec == Init /\ [][Next]_vars

\* Threads get the processor, and time passes.  Clients owe nothing.
Fairness == /\ WF_vars(Main)
            /\ \A w \in Workers : WF_vars(Worker(w))
            /\ WF_vars(Pass)

FairSpec == Spec /\ Fairness

-----------------------------------------------------------------------------
Socks   == FDs \cup {-1}
Pieces  == [conn : Conns, kind : Kinds]

Responses == [file : Conns \cup {None}]
Objects == [ m_sockfd : Socks, rbuf : Seq(Pieces), file : Conns \cup {None},
             resp : Responses \cup {None}, m_linger : BOOLEAN,
             improv : {0, 1}, timer_flag : {0, 1}, m_state : {0, 1} ]
ConnStates == [ phase : {"none", "backlog", "open", "closed"}, inbox : Seq(Kinds),
                sent : 0..MaxSend, gone : BOOLEAN,
                interest : {"none", "in", "out", "off"},
                full : {"no", "yes", "was"}, got : SUBSET Conns, heir : BOOLEAN ]
Jobs == [ pc : {"task", "read", "failed", "init", "written", "process", "answer",
                "flag", "close", "forget", "rearm_in", "rearm_out"},
          fd : FDs ]
Events == [fd : {0}, ev : {"listen", "signal"}] \cup [fd : FDs, ev : {"hup", "in", "out"}]
MainStates == [pc : {"wait", "next", "accept", "tick"}, fd : {0}]
              \cup [pc : {"spin", "glance", "clear"}, fd : FDs]

TypeOK ==
    /\ mode \in [actor : {0, 1}, listen : 0..2, conn : {0, 1}]
    /\ net \in [Conns -> ConnStates]
    /\ sock \in [FDs -> Conns \cup {None}]
    /\ edge \in BOOLEAN
    /\ users \in [FDs -> Objects]
    /\ user_timer \in [FDs -> Conns \cup {None}]
    /\ DOMAIN timers \subseteq Conns
    /\ timers \in [DOMAIN timers -> [fd : FDs, rem : 0..Slots]]
    /\ m_user_count \in Int
    /\ m_queue \in Seq(FDs) /\ Len(m_queue) <= MaxRequest
    /\ worker \in [Workers -> {NoTask} \cup Jobs]
    /\ main \in MainStates
    /\ events \subseteq Events
    /\ alarm \in {"armed", "fired", "timeout"}

\* Every open connection has its own timer on the list, with its own fd, and
\* the slot of that fd points at it: no connection, however its predecessor on
\* the fd ended, is left without a timer or with a dangling one.
TimerOwned ==
    \A f \in FDs : sock[f] # None =>
        /\ user_timer[f] = sock[f]
        /\ sock[f] \in DOMAIN timers /\ timers[sock[f]].fd = f

\* The timer the main thread is about to adjust or delete for an event has not
\* been freed, by a tick or by an earlier deal_timer.
NoFreedTimer ==
    /\ \A e \in events : e.fd # 0 => user_timer[e.fd] \in DOMAIN timers
    /\ main.pc \in {"spin", "glance"} => user_timer[main.fd] \in DOMAIN timers

\* The connection on fd f started with an fd that nobody had still to handle.
Clean(f) == sock[f] # None /\ ~net[sock[f]].heir

\* EPOLLONESHOT, "同一时刻只能有一个进程处理这个文件": the http_conn object of fd f is
\* in the hands of one thread: no two tasks are for it, and no event can come or has
\* come for it while a task is.
Armed(f) == sock[f] # None /\ net[sock[f]].interest \in {"in", "out"}

TaskCount(f) ==
    Cardinality({i \in DOMAIN m_queue : m_queue[i] = f})
    + Cardinality({w \in Workers : worker[w].fd = f})

OneHandler(f) ==
    /\ TaskCount(f) <= 1
    /\ TaskCount(f) = 1 => ~Armed(f) /\ \A e \in events : e.fd # f

\* In Proactor this holds for every connection but an heir: what a tick or close_conn()
\* cuts off from its connection disturbs the next one on the same fd, which is accepted
\* while a task or an event is left, and nobody else, neither the other fds nor the
\* connections after the heir.  In Reactor it fails: write() re-arms the fd before init().
ProactorOneHandler == mode.actor = 0 => \A f \in FDs : Clean(f) => OneHandler(f)

\* A client gets answers to its own requests only, whoever had its fd before and however
\* that connection ended, and however many threads are at its http_conn object, unless it
\* is an heir.
RightClient == \A c \in Conns : net[c].got \subseteq {c} \/ net[c].heir

\* "若一定时间内无数据交换则关闭连接": a tick closes a connection for that
\* connection's own timer, never for the timer of one that had its fd before.
TickClosesOwn ==
    [][\A i \in Conns : TickOne(i) =>
          \A c \in Conns : net[c].phase = "open" /\ net'[c].phase = "closed"
                               => c = i]_vars

\* "需要一次性将缓冲区中的连接请求读完": with an edge-triggered listening socket a
\* waiting connection has an event that is still to come or still being handled.
\* This takes an fd for every client: without, accept() fails and the loop stops.
EdgeDrained ==
    Cardinality(Conns) <= MaxFD /\ mode.listen = 1 /\ Backlog # {} =>
        edge \/ main.pc = "accept" \/ \E e \in events : e.ev = "listen"

\* A connection whose client has nothing more to say is closed in the end, after
\* whatever the server did for it.  (Clients send at most MaxSend pieces.)
IdleIsClosed == \A c \in Conns : net[c].phase = "open" ~> net[c].phase = "closed"

\* A connection that arrives is accepted in the end: level-triggered, however long fds
\* are lacking; edge-triggered, unless they are lacking at some time while it waits, when
\* accept() fails, the loop stops, and no further event comes of this connection.
Arrived(c) == net[c].phase = "backlog" /\ (mode.listen = 1 => edge)

BacklogIsServed ==
    \A c \in Conns : Arrived(c) ~>
        net[c].phase # "backlog" \/ (mode.listen = 1 /\ FreeFDs = {})

\* "SIGALRM每被触发一次，就调用一次定时任务处理函数": every alarm is followed by a
\* tick, whatever the clients and the workers are doing.
AlarmIsServed == alarm = "fired" ~> main.pc = "tick"
=============================================================================
