----------------------------- MODULE ThreadPool -----------------------------
(***************************************************************************)
(* threadpool<http_conn> (src/src/thredpool) step by step: append() and    *)
(* append_p() in the main thread, run() in every worker, with the mutex    *)
(* and the semaphore of src/src/lock.                                      *)
(*                                                                         *)
(* SIGALRM is caught without SA_RESTART, so it may interrupt sem_wait()    *)
(* in any worker; sem::wait() then returns false, which run() does not     *)
(* look at.                                                                *)
(***************************************************************************)
EXTENDS Naturals, Sequences, FiniteSets

CONSTANTS Requests,     \* http_conn objects
          Workers,      \* m_thread_num threads
          MaxRequest,   \* m_max_request
          MaxAppends,   \* bound on the calls of append()
          MaxSignals,   \* bound on the interrupted sem_wait()s
          Main, None

ASSUME ThreadPoolAssumption ==
    /\ IsFiniteSet(Workers)
    /\ MaxRequest \in Nat \ {0}
    /\ MaxAppends \in Nat /\ MaxSignals \in Nat
    /\ Main \notin Workers /\ None \notin Workers \cup {Main} /\ None \notin Requests

VARIABLES m_queue, m_queuelock, m_sem,
          main,         \* where the main thread is in append(), and its argument
          worker,       \* where each worker is in run()
          request,      \* its local variable
          appends, signals

vars == <<m_queue, m_queuelock, m_sem, main, worker, request, appends, signals>>

-----------------------------------------------------------------------------
(* append(), append_p()                                                     *)

Call(r) ==
    /\ main.pc = "out" /\ appends < MaxAppends
    /\ main' = [pc |-> "lock", req |-> r]
    /\ appends' = appends + 1
    /\ UNCHANGED <<m_queue, m_queuelock, m_sem, worker, request, signals>>

MainLock ==
    /\ main.pc = "lock" /\ m_queuelock = None
    /\ m_queuelock' = Main
    /\ main' = [main EXCEPT !.pc = "check"]
    /\ UNCHANGED <<m_queue, m_sem, worker, request, appends, signals>>

\* Faults: the bound is off by one; a refusal leaves the lock held;
\* the request goes to the front.
MainPushOffByOne ==
    /\ main.pc = "check"
    /\ IF Len(m_queue) > MaxRequest
       THEN main' = [main EXCEPT !.pc = "giveup"] /\ UNCHANGED m_queue
       ELSE /\ m_queue' = Append(m_queue, main.req)
            /\ main' = [main EXCEPT !.pc = "unlock"]
    /\ UNCHANGED <<m_queuelock, m_sem, worker, request, appends, signals>>

MainPushKeepsLock ==
    /\ main.pc = "check"
    /\ IF Len(m_queue) >= MaxRequest
       THEN main' = [main EXCEPT !.pc = "out"] /\ UNCHANGED m_queue
       ELSE /\ m_queue' = Append(m_queue, main.req)
            /\ main' = [main EXCEPT !.pc = "unlock"]
    /\ UNCHANGED <<m_queuelock, m_sem, worker, request, appends, signals>>

MainPushFront ==
    /\ main.pc = "check"
    /\ IF Len(m_queue) >= MaxRequest
       THEN main' = [main EXCEPT !.pc = "giveup"] /\ UNCHANGED m_queue
       ELSE /\ m_queue' = <<main.req>> \o m_queue
            /\ main' = [main EXCEPT !.pc = "unlock"]
    /\ UNCHANGED <<m_queuelock, m_sem, worker, request, appends, signals>>

\* A full queue refuses the request.
MainPush ==
    /\ main.pc = "check"
    /\ IF Len(m_queue) >= MaxRequest
       THEN main' = [main EXCEPT !.pc = "giveup"] /\ UNCHANGED m_queue
       ELSE /\ m_queue' = Append(m_queue, main.req)
            /\ main' = [main EXCEPT !.pc = "unlock"]
    /\ UNCHANGED <<m_queuelock, m_sem, worker, request, appends, signals>>

MainUnlock ==
    /\ main.pc \in {"unlock", "giveup"}
    /\ m_queuelock' = None
    /\ main' = [main EXCEPT !.pc = IF @ = "unlock" THEN "post" ELSE "out"]
    /\ UNCHANGED <<m_queue, m_sem, worker, request, appends, signals>>

\* Fault: post() only when the queue was empty.
MainPostOnFirst ==
    /\ main.pc = "post"
    /\ m_sem' = IF Len(m_queue) = 1 THEN m_sem + 1 ELSE m_sem
    /\ main' = [main EXCEPT !.pc = "out"]
    /\ UNCHANGED <<m_queue, m_queuelock, worker, request, appends, signals>>

MainPost ==
    /\ main.pc = "post"
    /\ m_sem' = m_sem + 1
    /\ main' = [main EXCEPT !.pc = "out"]
    /\ UNCHANGED <<m_queue, m_queuelock, worker, request, appends, signals>>

-----------------------------------------------------------------------------
(* run()                                                                    *)

Goto(w, pc) == worker' = [worker EXCEPT ![w] = pc]

SemWait(w) ==
    /\ worker[w] = "wait" /\ m_sem > 0
    /\ m_sem' = m_sem - 1
    /\ Goto(w, "lock")
    /\ UNCHANGED <<m_queue, m_queuelock, main, request, appends, signals>>

\* EINTR: the call returns and the count stays as it is, even if it was posted
\* in the meantime.
Interrupted(w) ==
    /\ worker[w] = "wait" /\ signals < MaxSignals
    /\ signals' = signals + 1
    /\ Goto(w, "lock")
    /\ UNCHANGED <<m_queue, m_queuelock, m_sem, main, request, appends>>

Lock(w) ==
    /\ worker[w] = "lock" /\ m_queuelock = None
    /\ m_queuelock' = w
    /\ Goto(w, "check")
    /\ UNCHANGED <<m_queue, m_sem, main, request, appends, signals>>

\* Fault: run() trusts the semaphore and does not look whether the queue is empty.
CheckNothing(w) ==
    /\ worker[w] = "check"
    /\ Goto(w, "front")
    /\ UNCHANGED <<m_queue, m_queuelock, m_sem, main, request, appends, signals>>

Check(w) ==
    /\ worker[w] = "check"
    /\ Goto(w, IF m_queue = <<>> THEN "giveup" ELSE "front")
    /\ UNCHANGED <<m_queue, m_queuelock, m_sem, main, request, appends, signals>>

\* front() and pop_front(): request is not used before both are done.
Pop(w) ==
    /\ worker[w] = "front"
    /\ request' = [request EXCEPT ![w] = Head(m_queue)]
    /\ m_queue' = Tail(m_queue)
    /\ Goto(w, "unlock")
    /\ UNCHANGED <<m_queuelock, m_sem, main, appends, signals>>

Unlock(w) ==
    /\ worker[w] \in {"unlock", "giveup"}
    /\ m_queuelock' = None
    /\ Goto(w, IF worker[w] = "unlock" THEN "run" ELSE "wait")
    /\ UNCHANGED <<m_queue, m_sem, main, request, appends, signals>>

\* The task itself (module WebServer), then the next turn of the loop.
Run(w) ==
    /\ worker[w] = "run"
    /\ request' = [request EXCEPT ![w] = None]
    /\ Goto(w, "wait")
    /\ UNCHANGED <<m_queue, m_queuelock, m_sem, main, appends, signals>>

-----------------------------------------------------------------------------
Init ==
    /\ m_queue = <<>> /\ m_queuelock = None /\ m_sem = 0
    /\ main = [pc |-> "out", req |-> None]
    /\ worker = [w \in Workers |-> "wait"]
    /\ request = [w \in Workers |-> None]
    /\ appends = 0 /\ signals = 0

Appending == MainLock \/ MainPush \/ MainUnlock \/ MainPost
RunStep(w) == SemWait(w) \/ Lock(w) \/ Check(w) \/ Pop(w) \/ Unlock(w) \/ Run(w)

Next == \/ \E r \in Requests : Call(r)
        \/ Appending
        \/ \E w \in Workers : RunStep(w) \/ Interrupted(w)

Spec == Init /\ [][Next]_vars

\* Every thread gets the processor; nobody has to append or to be interrupted.
FairSpec == Spec /\ WF_vars(Appending) /\ \A w \in Workers : WF_vars(RunStep(w))

-----------------------------------------------------------------------------
Threads == Workers \cup {Main}

TypeOK ==
    /\ m_queue \in Seq(Requests) /\ Len(m_queue) <= MaxRequest
    /\ m_queuelock \in Threads \cup {None}
    /\ m_sem \in Nat
    /\ main \in [pc : {"out", "lock", "check", "unlock", "giveup", "post"},
                 req : Requests \cup {None}]
    /\ worker \in [Workers -> {"wait", "lock", "check", "front", "unlock", "giveup", "run"}]
    /\ request \in [Workers -> Requests \cup {None}]
    /\ appends \in 0..MaxAppends /\ signals \in 0..MaxSignals

\* front() and pop_front() are never called on an empty list, although an
\* interrupted sem_wait() lets a worker through without a task for it.
NeverPopsEmpty == \A w \in Workers : worker[w] = "front" => m_queue # <<>>

\* No wake-up is lost: for every queued task there is a unit in the semaphore, a
\* worker on its way to the queue, or a post() the main thread is about to make.
\* So workers are never all asleep while a task waits.
OnTheWay == {w \in Workers : worker[w] \in {"lock", "check", "front"}}
Posting  == IF main.pc \in {"unlock", "post"} THEN 1 ELSE 0

NoLostWakeup == Len(m_queue) <= m_sem + Cardinality(OnTheWay) + Posting

\* The pool implements the bounded FIFO queue: an accepted task is handed to
\* exactly one worker, in order, and a refused one leaves no trace.
Abstract == INSTANCE TaskQueue WITH waiting <- m_queue, serving <- request
ImplementsTaskQueue == Abstract!Spec

\* Every accepted task is taken, and append() always returns.
Served  == m_queue # <<>> ~> m_queue = <<>>
Returns == main.pc # "out" ~> main.pc = "out"
=============================================================================
