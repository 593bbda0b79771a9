-------------------------- MODULE ThreadPoolProofs --------------------------
(***************************************************************************)
(* Proofs about ThreadPool: for any number of workers, any queue length    *)
(* and any number of interrupted waits.                                    *)
(***************************************************************************)
EXTENDS ThreadPool, FiniteSetTheorems, TLAPS

\* Who is between lock() and unlock() holds the lock.
LockInv ==
    /\ main.pc \in {"check", "unlock", "giveup"} <=> m_queuelock = Main
    /\ \A w \in Workers : worker[w] \in {"check", "front", "unlock", "giveup"}
                              <=> m_queuelock = w

\* A call of append() has its argument, and a worker has a request from pop to
\* the end of its task.
RequestInv ==
    /\ main.pc # "out" => main.req \in Requests
    /\ \A w \in Workers : request[w] # None <=> worker[w] \in {"unlock", "run"}

IInv == TypeOK /\ LockInv /\ RequestInv /\ NeverPopsEmpty

-----------------------------------------------------------------------------
\* The initial states satisfy the invariant.
LEMMA InitIInv == Init => IInv
BY ThreadPoolAssumption
   DEF Init, IInv, TypeOK, LockInv, RequestInv, NeverPopsEmpty, Threads

\* The steps of append() keep it.
LEMMA MainIInv == IInv /\ (Appending \/ \E r \in Requests : Call(r)) => IInv'
<1> SUFFICES ASSUME IInv, Appending \/ \E r \in Requests : Call(r)
             PROVE  IInv'
    OBVIOUS
<1> USE ThreadPoolAssumption
    DEF IInv, TypeOK, LockInv, RequestInv, NeverPopsEmpty, Threads
<1>1. CASE \E r \in Requests : Call(r)
      BY <1>1 DEF Call
<1>2. CASE MainLock
      BY <1>2 DEF MainLock
<1>3. CASE MainPush
  <2>1. CASE Len(m_queue) >= MaxRequest
        BY <1>3, <2>1 DEF MainPush
  <2>2. CASE Len(m_queue) < MaxRequest
    <3>1. m_queue' = Append(m_queue, main.req) /\ main.req \in Requests
          BY <1>3, <2>2 DEF MainPush
    <3>2. m_queue' \in Seq(Requests) /\ Len(m_queue') <= MaxRequest /\ m_queue' # <<>>
          BY <3>1, <2>2
    <3> QED BY <1>3, <2>2, <3>2 DEF MainPush
  <2> QED BY <2>1, <2>2
<1>4. CASE MainUnlock
      BY <1>4 DEF MainUnlock
<1>5. CASE MainPost
      BY <1>5 DEF MainPost
<1> QED BY <1>1, <1>2, <1>3, <1>4, <1>5 DEF Appending

\* So do the steps of run().
LEMMA WorkerIInv ==
    ASSUME NEW w \in Workers, IInv, RunStep(w) \/ Interrupted(w)
    PROVE  IInv'
<1> USE ThreadPoolAssumption
    DEF IInv, TypeOK, LockInv, RequestInv, NeverPopsEmpty, Threads, Goto
<1>1. CASE SemWait(w)
      BY <1>1 DEF SemWait
<1>2. CASE Interrupted(w)
      BY <1>2 DEF Interrupted
<1>3. CASE Lock(w)
      BY <1>3 DEF Lock
<1>4. CASE Check(w)
      BY <1>4 DEF Check
<1>5. CASE Pop(w)
  <2>1. m_queue # <<>>
        BY <1>5 DEF Pop
  <2>2. Head(m_queue) \in Requests /\ Tail(m_queue) \in Seq(Requests)
        /\ Len(Tail(m_queue)) <= MaxRequest
        BY <2>1
  <2>3. \A v \in Workers : worker'[v] = "front" => FALSE
        BY <1>5 DEF Pop
  <2> QED BY <1>5, <2>2, <2>3 DEF Pop
<1>6. CASE Unlock(w)
      BY <1>6 DEF Unlock
<1>7. CASE Run(w)
      BY <1>7 DEF Run
<1> QED BY <1>1, <1>2, <1>3, <1>4, <1>5, <1>6, <1>7 DEF RunStep

LEMMA NextIInv == IInv /\ [Next]_vars => IInv'
<1> SUFFICES ASSUME IInv, [Next]_vars PROVE IInv'
    OBVIOUS
<1>1. CASE Appending \/ \E r \in Requests : Call(r)
      BY <1>1, MainIInv
<1>2. CASE \E w \in Workers : RunStep(w) \/ Interrupted(w)
      BY <1>2, WorkerIInv
<1>3. CASE UNCHANGED vars
      BY <1>3 DEF vars, IInv, TypeOK, LockInv, RequestInv, NeverPopsEmpty
<1> QED BY <1>1, <1>2, <1>3 DEF Next

\* Always: the types, the bound of the queue, and mutual exclusion.
THEOREM Invariance == Spec => []IInv
BY InitIInv, NextIInv, PTL DEF Spec

\* The queue is well typed and never longer than m_max_request.
THEOREM TypeCorrect == Spec => []TypeOK
BY Invariance, PTL DEF IInv

\* No worker ever takes the front of an empty list.
THEOREM NeverEmpty == Spec => []NeverPopsEmpty
BY Invariance, PTL DEF IInv

-----------------------------------------------------------------------------
(* No wake-up is lost.  The sum changes with the set of workers on the way. *)

\* The set is finite, and its cardinality a natural number.
LEMMA OnTheWayFinite == IsFiniteSet(OnTheWay) /\ Cardinality(OnTheWay) \in Nat
BY ThreadPoolAssumption, FS_Subset, FS_CardinalityType DEF OnTheWay

\* A worker that gets past the semaphore joins it.
LEMMA Joins ==
    ASSUME NEW w \in Workers, TypeOK, worker[w] = "wait",
           worker' = [worker EXCEPT ![w] = "lock"]
    PROVE  Cardinality(OnTheWay') = Cardinality(OnTheWay) + 1
<1>1. w \notin OnTheWay /\ OnTheWay' = OnTheWay \cup {w}
      BY DEF OnTheWay, TypeOK
<1> QED BY <1>1, OnTheWayFinite, FS_AddElement

\* A worker that has found the queue empty, or taken a request, leaves it.
LEMMA Leaves ==
    ASSUME NEW w \in Workers, TypeOK, worker[w] \in {"check", "front"},
           NEW pc \in {"unlock", "giveup"}, worker' = [worker EXCEPT ![w] = pc]
    PROVE  Cardinality(OnTheWay') = Cardinality(OnTheWay) - 1
<1>1. w \in OnTheWay /\ OnTheWay' = OnTheWay \ {w}
      BY DEF OnTheWay, TypeOK
<1> QED BY <1>1, OnTheWayFinite, FS_RemoveElement

\* Every other step of a worker leaves it as it is.
LEMMA Stays ==
    ASSUME NEW w \in Workers, TypeOK, NEW pc, worker' = [worker EXCEPT ![w] = pc],
           worker[w] \in {"lock", "check", "front"} <=> pc \in {"lock", "check", "front"}
    PROVE  OnTheWay' = OnTheWay
BY DEF OnTheWay, TypeOK

LEMMA InitWakeup == Init => NoLostWakeup
<1> SUFFICES ASSUME Init PROVE NoLostWakeup
    OBVIOUS
<1>1. Len(m_queue) = 0 /\ m_sem = 0 /\ Posting = 0
      BY DEF Init, Posting
<1>2. Cardinality(OnTheWay) \in Nat
      BY OnTheWayFinite
<1> QED BY <1>1, <1>2 DEF NoLostWakeup

LEMMA MainWakeup ==
    ASSUME IInv, NoLostWakeup, Appending \/ \E r \in Requests : Call(r)
    PROVE  NoLostWakeup'
<1>0. OnTheWay' = OnTheWay /\ Cardinality(OnTheWay) \in Nat
      BY OnTheWayFinite
      DEF OnTheWay, Appending, Call, MainLock, MainPush, MainUnlock, MainPost
<1> USE <1>0 DEF IInv, TypeOK, NoLostWakeup, Posting
<1>1. CASE \E r \in Requests : Call(r)
      BY <1>1 DEF Call
<1>2. CASE MainLock
      BY <1>2 DEF MainLock
<1>3. CASE MainPush
  <2>1. CASE Len(m_queue) >= MaxRequest
        BY <1>3, <2>1 DEF MainPush
  <2>2. CASE ~(Len(m_queue) >= MaxRequest)
    <3>1. m_queue' = Append(m_queue, main.req) /\ main.req \in Requests
          BY <1>3, <2>2 DEF MainPush, RequestInv
    <3>2. Len(m_queue') = Len(m_queue) + 1
          BY <3>1
    <3>3. Posting = 0 /\ Posting' = 1 /\ m_sem' = m_sem
          BY <1>3, <2>2 DEF MainPush
    <3> QED BY <3>2, <3>3
  <2> QED BY <2>1, <2>2
<1>4. CASE MainUnlock
      BY <1>4 DEF MainUnlock
<1>5. CASE MainPost
      BY <1>5 DEF MainPost
<1> QED BY <1>1, <1>2, <1>3, <1>4, <1>5 DEF Appending

LEMMA WorkerWakeup ==
    ASSUME NEW w \in Workers, IInv, NoLostWakeup, RunStep(w) \/ Interrupted(w)
    PROVE  NoLostWakeup'
<1>0. Posting' = Posting /\ Posting \in Nat /\ Cardinality(OnTheWay) \in Nat /\ TypeOK
      BY OnTheWayFinite
      DEF Posting, RunStep, SemWait, Interrupted, Lock, Check, Pop, Unlock, Run, IInv
<1>1. CASE SemWait(w)
  <2>1. Cardinality(OnTheWay') = Cardinality(OnTheWay) + 1
        BY <1>0, <1>1, Joins DEF SemWait, Goto
  <2>2. Len(m_queue') = Len(m_queue) /\ m_sem' = m_sem - 1
        BY <1>1 DEF SemWait
  <2> QED BY <1>0, <2>1, <2>2 DEF NoLostWakeup, TypeOK
<1>2. CASE Interrupted(w)
  <2>1. Cardinality(OnTheWay') = Cardinality(OnTheWay) + 1
        BY <1>0, <1>2, Joins DEF Interrupted, Goto
  <2>2. Len(m_queue') = Len(m_queue) /\ m_sem' = m_sem
        BY <1>2 DEF Interrupted
  <2> QED BY <1>0, <2>1, <2>2 DEF NoLostWakeup, TypeOK
<1>3. CASE Lock(w)
  <2>1. OnTheWay' = OnTheWay
        BY <1>0, <1>3, Stays DEF Lock, Goto
  <2> QED BY <1>0, <1>3, <2>1 DEF NoLostWakeup, Lock
<1>4. CASE Check(w)
  <2>1. CASE m_queue = <<>>
    <3>1. Cardinality(OnTheWay') = Cardinality(OnTheWay) - 1
          BY <1>0, <1>4, <2>1, Leaves DEF Check, Goto
    <3>2. w \in OnTheWay
          BY <1>4 DEF Check, OnTheWay
    <3>3. Cardinality(OnTheWay) # 0
          BY <3>2, OnTheWayFinite, FS_EmptySet
    <3>4. Len(m_queue') = 0 /\ m_sem' = m_sem
          BY <1>4, <2>1 DEF Check
    <3> QED BY <1>0, <3>1, <3>3, <3>4 DEF NoLostWakeup, TypeOK
  <2>2. CASE m_queue # <<>>
    <3>1. OnTheWay' = OnTheWay
          BY <1>0, <1>4, <2>2, Stays DEF Check, Goto
    <3> QED BY <1>0, <1>4, <3>1 DEF NoLostWakeup, Check
  <2> QED BY <2>1, <2>2
<1>5. CASE Pop(w)
  <2>1. Cardinality(OnTheWay') = Cardinality(OnTheWay) - 1
        BY <1>0, <1>5, Leaves DEF Pop, Goto
  <2>2. m_queue # <<>>
        BY <1>5 DEF Pop, IInv, NeverPopsEmpty
  <2>3. Len(m_queue') = Len(m_queue) - 1 /\ m_sem' = m_sem
        BY <1>0, <1>5, <2>2 DEF Pop, TypeOK
  <2> QED BY <1>0, <2>1, <2>3 DEF NoLostWakeup, TypeOK
<1>6. CASE Unlock(w)
  <2>1. OnTheWay' = OnTheWay
        BY <1>0, <1>6, Stays DEF Unlock, Goto
  <2> QED BY <1>0, <1>6, <2>1 DEF NoLostWakeup, Unlock
<1>7. CASE Run(w)
  <2>1. OnTheWay' = OnTheWay
        BY <1>0, <1>7, Stays DEF Run, Goto
  <2> QED BY <1>0, <1>7, <2>1 DEF NoLostWakeup, Run
<1> QED BY <1>1, <1>2, <1>3, <1>4, <1>5, <1>6, <1>7 DEF RunStep

\* Whatever the workers, the posts and the interruptions, there is for every
\* queued task somebody who is on the way to it or a unit that lets him through.
THEOREM AllWoken == Spec => []NoLostWakeup
<1>1. IInv /\ NoLostWakeup /\ [Next]_vars => NoLostWakeup'
  <2> SUFFICES ASSUME IInv, NoLostWakeup, [Next]_vars PROVE NoLostWakeup'
      OBVIOUS
  <2>1. CASE Appending \/ \E r \in Requests : Call(r)
        BY <2>1, MainWakeup
  <2>2. CASE \E w \in Workers : RunStep(w) \/ Interrupted(w)
        BY <2>2, WorkerWakeup
  <2>3. CASE UNCHANGED vars
        BY <2>3 DEF vars, NoLostWakeup, OnTheWay, Posting
  <2> QED BY <2>1, <2>2, <2>3 DEF Next
<1> QED BY <1>1, InitWakeup, Invariance, PTL DEF Spec

-----------------------------------------------------------------------------
(* Refinement.  The step that pushes is Accept, the one that pops is Hand,  *)
(* the end of the task is Finish, and every other step a stutter.           *)

\* The thread pool implements the bounded first-in-first-out queue.
THEOREM Refinement == Spec => ImplementsTaskQueue
<1>1. Init => Abstract!Init
      BY DEF Init, Abstract!Init
<1>2. IInv /\ [Next]_vars => [Abstract!Next]_(Abstract!vars)
  <2> SUFFICES ASSUME IInv, [Next]_vars PROVE [Abstract!Next]_(Abstract!vars)
      OBVIOUS
  <2>1. CASE MainPush
    <3>1. main.req \in Requests
          BY <2>1 DEF MainPush, IInv, RequestInv
    <3>2. CASE Len(m_queue) >= MaxRequest
          BY <2>1, <3>2 DEF MainPush, Abstract!vars
    <3>3. CASE ~(Len(m_queue) >= MaxRequest)
          BY <2>1, <3>1, <3>3, ThreadPoolAssumption
          DEF MainPush, IInv, TypeOK, Abstract!Next, Abstract!Accept
    <3> QED BY <3>2, <3>3
  <2>2. ASSUME NEW w \in Workers, Pop(w) PROVE Abstract!Hand(w)
        BY <2>2 DEF Pop, IInv, NeverPopsEmpty, RequestInv, Abstract!Hand
  <2>3. ASSUME NEW w \in Workers, Run(w) PROVE Abstract!Finish(w)
        BY <2>3 DEF Run, IInv, RequestInv, Abstract!Finish
  <2>4. CASE \/ \E r \in Requests : Call(r)
             \/ MainLock \/ MainUnlock \/ MainPost
             \/ \E w \in Workers : SemWait(w) \/ Interrupted(w) \/ Lock(w)
                                     \/ Check(w) \/ Unlock(w)
             \/ UNCHANGED vars
        BY <2>4 DEF Call, MainLock, MainUnlock, MainPost, SemWait, Interrupted,
                    Lock, Check, Unlock, vars, Abstract!vars
  <2> QED BY <2>1, <2>2, <2>3, <2>4 DEF Next, Appending, RunStep, Abstract!Next
<1> QED BY <1>1, <1>2, Invariance, PTL DEF Spec, ImplementsTaskQueue, Abstract!Spec
=============================================================================
