------------------------------ MODULE ConnPool ------------------------------
(***************************************************************************)
(* connection_pool and connectionRAII (src/src/sql_connection_pool), step  *)
(* by step, as the workers of the thread pool use them: GetConnection()    *)
(* before process(), ReleaseConnection() after it.                         *)
(*                                                                         *)
(* The list is tested for emptiness outside the lock, and the result of    *)
(* the semaphore's wait() is not looked at: a wait that blocks may be      *)
(* interrupted by SIGALRM (EINTR) and lets the caller through.             *)
(***************************************************************************)
EXTENDS Integers, Sequences, FiniteSets

CONSTANTS Workers,        \* m_thread_num threads
          Connections,    \* MYSQL handles
          Sizes,          \* values of sql_num: how many of them init() makes
          MaxSignals,     \* bound on the interrupted waits
          NULL

ASSUME ConnPoolAssumption ==
    /\ IsFiniteSet(Workers) /\ IsFiniteSet(Connections)
    /\ NULL \notin Workers \cup Connections
    /\ Sizes \subseteq Nat /\ MaxSignals \in Nat

VARIABLES m_MaxConn, m_connList, m_FreeConn, m_CurConn, m_reserve, m_lock,
          pc,           \* where each worker is
          conn,         \* the handle each worker has, or NULL
          signals

vars == <<m_MaxConn, m_connList, m_FreeConn, m_CurConn, m_reserve, m_lock, pc,
          conn, signals>>

Goto(w, l) == pc' = [pc EXCEPT ![w] = l]

-----------------------------------------------------------------------------
(* GetConnection()                                                          *)

\* `if(m_connList.size() == 0) return NULL;`
TestEmpty(w) ==
    /\ pc[w] = "out"
    /\ Goto(w, IF Len(m_connList) = 0 THEN "using" ELSE "wait")
    /\ UNCHANGED <<m_MaxConn, m_connList, m_FreeConn, m_CurConn, m_reserve, m_lock,
                   conn, signals>>

\* Fault: the test for emptiness is trusted.
WaitNothing(w) ==
    /\ pc[w] = "wait"
    /\ Goto(w, "lock")
    /\ m_reserve' = IF m_reserve > 0 THEN m_reserve - 1 ELSE 0
    /\ UNCHANGED <<m_MaxConn, m_connList, m_FreeConn, m_CurConn, m_lock, conn, signals>>

Wait(w) ==
    /\ pc[w] = "wait"
    /\ IF m_reserve > 0
       THEN m_reserve' = m_reserve - 1 /\ Goto(w, "lock")
       ELSE Goto(w, "blocked") /\ UNCHANGED m_reserve
    /\ UNCHANGED <<m_MaxConn, m_connList, m_FreeConn, m_CurConn, m_lock, conn, signals>>

Wake(w) ==
    /\ pc[w] = "blocked" /\ m_reserve > 0
    /\ m_reserve' = m_reserve - 1
    /\ Goto(w, "lock")
    /\ UNCHANGED <<m_MaxConn, m_connList, m_FreeConn, m_CurConn, m_lock, conn, signals>>

Interrupted(w) ==
    /\ pc[w] = "blocked" /\ signals < MaxSignals
    /\ signals' = signals + 1
    /\ Goto(w, "lock")
    /\ UNCHANGED <<m_MaxConn, m_connList, m_FreeConn, m_CurConn, m_reserve, m_lock, conn>>

\* Fault: no lock.
LockNothing(w) ==
    /\ pc[w] \in {"lock", "relock"}
    /\ Goto(w, IF pc[w] = "lock" THEN "front" ELSE "push")
    /\ UNCHANGED <<m_MaxConn, m_connList, m_FreeConn, m_CurConn, m_reserve, m_lock,
                   conn, signals>>

Lock(w) ==
    /\ pc[w] \in {"lock", "relock"} /\ m_lock = NULL
    /\ m_lock' = w
    /\ Goto(w, IF pc[w] = "lock" THEN "front" ELSE "push")
    /\ UNCHANGED <<m_MaxConn, m_connList, m_FreeConn, m_CurConn, m_reserve, conn, signals>>

\* front() of an empty list is undefined: what happens then is not modelled, and
\* the worker goes no further.
Front(w) ==
    /\ pc[w] = "front"
    /\ IF m_connList = <<>>
       THEN Goto(w, "undefined") /\ UNCHANGED conn
       ELSE Goto(w, "pop") /\ conn' = [conn EXCEPT ![w] = Head(m_connList)]
    /\ UNCHANGED <<m_MaxConn, m_connList, m_FreeConn, m_CurConn, m_reserve, m_lock,
                   signals>>

\* Fault: m_FreeConn-- is missing.
PopCountsOne(w) ==
    /\ pc[w] = "pop"
    /\ m_connList' = Tail(m_connList)
    /\ m_CurConn' = m_CurConn + 1
    /\ Goto(w, "unlock")
    /\ UNCHANGED <<m_MaxConn, m_FreeConn, conn, m_reserve, m_lock, signals>>

\* pop_front() and the counters.
Pop(w) ==
    /\ pc[w] = "pop"
    /\ m_connList' = Tail(m_connList)
    /\ m_FreeConn' = m_FreeConn - 1 /\ m_CurConn' = m_CurConn + 1
    /\ Goto(w, "unlock")
    /\ UNCHANGED <<m_MaxConn, conn, m_reserve, m_lock, signals>>

Unlock(w) ==
    /\ pc[w] \in {"unlock", "reunlock"}
    /\ m_lock' = NULL
    /\ Goto(w, IF pc[w] = "unlock" THEN "using" ELSE "post")
    /\ UNCHANGED <<m_MaxConn, m_connList, m_FreeConn, m_CurConn, m_reserve, conn, signals>>

-----------------------------------------------------------------------------
(* ReleaseConnection(), from the destructor of connectionRAII               *)

Release(w) ==
    /\ pc[w] = "using"
    /\ Goto(w, IF conn[w] = NULL THEN "out" ELSE "relock")
    /\ UNCHANGED <<m_MaxConn, m_connList, m_FreeConn, m_CurConn, m_reserve, m_lock,
                   conn, signals>>

\* connectionRAII goes out of scope with its handle.
Push(w) ==
    /\ pc[w] = "push"
    /\ m_connList' = Append(m_connList, conn[w])
    /\ m_CurConn' = m_CurConn - 1
    /\ m_FreeConn' = m_FreeConn + 1
    /\ conn' = [conn EXCEPT ![w] = NULL]
    /\ Goto(w, "reunlock")
    /\ UNCHANGED <<m_MaxConn, m_reserve, m_lock, signals>>

\* Fault: no post.
PostNothing(w) ==
    /\ pc[w] = "post"
    /\ Goto(w, "out")
    /\ UNCHANGED <<m_MaxConn, m_connList, m_FreeConn, m_CurConn, m_reserve, m_lock,
                   conn, signals>>

Post(w) ==
    /\ pc[w] = "post"
    /\ m_reserve' = m_reserve + 1
    /\ Goto(w, "out")
    /\ UNCHANGED <<m_MaxConn, m_connList, m_FreeConn, m_CurConn, m_lock, conn, signals>>

-----------------------------------------------------------------------------
\* init() fills the list before the threads exist.
Init ==
    /\ m_MaxConn \in Sizes
    /\ m_connList \in [1..m_MaxConn -> Connections]
    /\ \A i, j \in DOMAIN m_connList : i # j => m_connList[i] # m_connList[j]
    /\ m_FreeConn = m_MaxConn /\ m_CurConn = 0
    /\ m_reserve = m_FreeConn
    /\ m_lock = NULL
    /\ pc = [w \in Workers |-> "out"]
    /\ conn = [w \in Workers |-> NULL]
    /\ signals = 0

Step(w) == \/ TestEmpty(w) \/ Wait(w) \/ Wake(w) \/ Lock(w) \/ Front(w)
           \/ Pop(w) \/ Unlock(w) \/ Release(w) \/ Push(w) \/ Post(w)

Next == \E w \in Workers : Step(w) \/ Interrupted(w)

Spec == Init /\ [][Next]_vars

-----------------------------------------------------------------------------
TypeOK ==
    /\ m_MaxConn \in Sizes /\ m_connList \in Seq(Connections)
    /\ m_FreeConn \in 0..m_MaxConn /\ m_CurConn \in 0..m_MaxConn /\ m_reserve \in Nat
    /\ m_lock \in Workers \cup {NULL}
    /\ pc \in [Workers -> {"out", "wait", "blocked", "lock", "front", "pop", "unlock",
                           "using", "relock", "push", "reunlock", "post", "undefined"}]
    /\ conn \in [Workers -> Connections \cup {NULL}]
    /\ signals \in 0..MaxSignals

\* No MYSQL handle is in two hands: two workers never have the same one, and
\* the list has it at most once and not while a worker has it, except that the
\* worker between front() and pop_front() has the first.
NoSharing ==
    /\ \A v, w \in Workers : conn[v] = conn[w] /\ conn[v] # NULL => v = w
    /\ \A w \in Workers, i \in DOMAIN m_connList :
           conn[w] = m_connList[i] => pc[w] = "pop" /\ i = 1
    /\ \A i, j \in DOMAIN m_connList : m_connList[i] = m_connList[j] => i = j

\* As many handles as threads, as the defaults of src/src/config have it.
Enough == Cardinality(Workers) <= m_MaxConn

\* With as many handles as threads, GetConnection() never returns NULL, which
\* process() would hand to mysql_query().
NeverNull == Enough => \A w \in Workers : pc[w] = "using" => conn[w] # NULL

\* front() and pop_front() are never called on an empty list: with fewer handles than
\* threads too, though the test for emptiness is made without the lock and others may
\* take the last handle after it, as long as no wait has been interrupted; and with as
\* many handles as threads whatever is interrupted.
NeverPopsEmpty ==
    Enough \/ signals = 0 =>
        \A w \in Workers : pc[w] \in {"front", "pop"} => m_connList # <<>>

\* Whoever gets past the test and the wait finds a handle (NeverPopsEmpty), and with
\* as many handles as threads everybody does (NeverNull).
AlwaysServed == NeverNull /\ NeverPopsEmpty

\* No thread sleeps while a handle is free: for every handle on the list there
\* is a unit in the semaphore, a thread that has got past its wait, or one that
\* is about to post.
LetThrough == {w \in Workers : pc[w] \in {"lock", "front", "pop"}}
Unposted   == {w \in Workers : pc[w] \in {"reunlock", "post"}}

NoIdleConnection ==
    Len(m_connList) <= m_reserve + Cardinality(LetThrough) + Cardinality(Unposted)
=============================================================================
