--------------------------- MODULE ConnPoolProofs ---------------------------
(***************************************************************************)
(* Proofs about ConnPool, for any number of workers and handles and any    *)
(* number of interrupted waits: that no handle is shared or forgotten, and *)
(* what more holds with as many handles as threads (predicate Enough), as  *)
(* the defaults of src/src/config/config.cpp have it (8 and 8).            *)
(***************************************************************************)
EXTENDS ConnPool, FiniteSetTheorems, TLAPS

Types ==
    /\ m_MaxConn \in Sizes /\ m_connList \in Seq(Connections)
    /\ m_FreeConn \in Int /\ m_CurConn \in Int /\ m_reserve \in Nat
    /\ m_lock \in Workers \cup {NULL}
    /\ pc \in [Workers -> {"out", "wait", "blocked", "lock", "front", "pop", "unlock",
                           "using", "relock", "push", "reunlock", "post", "undefined"}]
    /\ conn \in [Workers -> Connections \cup {NULL}]
    /\ signals \in 0..MaxSignals

\* Who is between lock() and unlock() holds the lock.
LockInv ==
    \A w \in Workers : m_lock = w <=>
        pc[w] \in {"front", "pop", "unlock", "push", "reunlock", "undefined"}

\* A worker has a handle from front() to push_back(), unless it got NULL.
ConnInv ==
    \A w \in Workers :
        /\ conn[w] # NULL => pc[w] \in {"pop", "unlock", "using", "relock", "push"}
        /\ pc[w] \in {"pop", "unlock", "relock", "push"} => conn[w] # NULL
        /\ pc[w] = "pop" => m_connList # <<>> /\ conn[w] = Head(m_connList)

IInv == Types /\ LockInv /\ ConnInv /\ NoSharing

-----------------------------------------------------------------------------
(* No handle is in two hands.                                               *)

LEMMA InitIInv == Init => IInv
<1> SUFFICES ASSUME Init PROVE IInv
    OBVIOUS
<1>1. m_MaxConn \in Nat
      BY ConnPoolAssumption DEF Init
<1>2. m_connList \in Seq(Connections) /\ DOMAIN m_connList = 1..m_MaxConn
      BY <1>1 DEF Init
<1>3. \A i \in DOMAIN m_connList : m_connList[i] \in Connections
      BY DEF Init
<1>4. Types /\ LockInv /\ ConnInv
      BY <1>1, <1>2, ConnPoolAssumption DEF Init, Types, LockInv, ConnInv
<1>5. NoSharing
      BY <1>3, ConnPoolAssumption DEF Init, NoSharing
<1> QED BY <1>4, <1>5 DEF IInv

\* The steps that touch neither the list nor a handle.
LEMMA QuietIInv ==
    ASSUME NEW w \in Workers, IInv,
           \/ TestEmpty(w) \/ Wait(w) \/ Wake(w) \/ Interrupted(w)
           \/ Lock(w) \/ Unlock(w) \/ Release(w) \/ Post(w)
    PROVE  IInv'
<1> USE ConnPoolAssumption DEF IInv, Types, LockInv, ConnInv, NoSharing, Goto
<1>1. CASE TestEmpty(w)
      BY <1>1 DEF TestEmpty
<1>2. CASE Wait(w)
      BY <1>2 DEF Wait
<1>3. CASE Wake(w)
      BY <1>3 DEF Wake
<1>4. CASE Interrupted(w)
      BY <1>4 DEF Interrupted
<1>5. CASE Lock(w)
      BY <1>5 DEF Lock
<1>6. CASE Unlock(w)
      BY <1>6 DEF Unlock
<1>7. CASE Release(w)
      BY <1>7 DEF Release
<1>8. CASE Post(w)
      BY <1>8 DEF Post
<1> QED BY <1>1, <1>2, <1>3, <1>4, <1>5, <1>6, <1>7, <1>8

\* front(): nobody else has the first handle, for he would hold the lock.
LEMMA FrontIInv == ASSUME NEW w \in Workers, IInv, Front(w) PROVE IInv'
<1> USE ConnPoolAssumption DEF IInv, Types, LockInv, ConnInv, NoSharing, Goto
<1>1. CASE m_connList = <<>>
      BY <1>1 DEF Front
<1>2. CASE m_connList # <<>>
  <2>1. /\ pc[w] = "front" /\ pc' = [pc EXCEPT ![w] = "pop"]
        /\ conn' = [conn EXCEPT ![w] = m_connList[1]]
        /\ 1 \in DOMAIN m_connList /\ m_connList[1] \in Connections
        /\ Head(m_connList) = m_connList[1]
        BY <1>2 DEF Front
  <2>2. UNCHANGED <<m_MaxConn, m_connList, m_FreeConn, m_CurConn, m_reserve, m_lock, signals>>
        BY DEF Front
  <2>3. \A v \in Workers : conn[v] # m_connList[1]
        BY <2>1
  <2>4. Types' /\ LockInv' /\ ConnInv'
        BY <1>2, <2>1, <2>2
  <2>5. NoSharing'
        BY <2>1, <2>2, <2>3
  <2> QED BY <2>4, <2>5
<1> QED BY <1>1, <1>2

\* pop_front(): what was the first is on the list no more.
LEMMA PopIInv == ASSUME NEW w \in Workers, IInv, Pop(w) PROVE IInv'
<1> USE ConnPoolAssumption DEF IInv, Types, LockInv, ConnInv, NoSharing, Goto
<1> DEFINE L == m_connList
<1>1. pc[w] = "pop" /\ L # <<>> /\ conn[w] = L[1]
      BY DEF Pop
<1>2. /\ L' = Tail(L) /\ L' \in Seq(Connections)
      /\ \A i \in DOMAIN L' : i + 1 \in DOMAIN L /\ L'[i] = L[i + 1] /\ i + 1 # 1
      BY <1>1 DEF Pop
<1>3. /\ UNCHANGED <<m_MaxConn, conn, m_reserve, m_lock, signals>>
      /\ pc' = [pc EXCEPT ![w] = "unlock"]
      BY DEF Pop
<1>4. m_FreeConn' \in Int /\ m_CurConn' \in Int
      BY DEF Pop
<1>5. \A v \in Workers : pc'[v] # "pop"
      BY <1>1, <1>3
<1>6. Types' /\ LockInv' /\ ConnInv'
      BY <1>1, <1>2, <1>3, <1>4, <1>5
<1>7. \A v \in Workers, i \in DOMAIN L' : conn[v] # L'[i]
      BY <1>2
<1>8. \A i, j \in DOMAIN L' : L'[i] = L'[j] => i = j
  <2> SUFFICES ASSUME NEW i \in DOMAIN L', NEW j \in DOMAIN L', L'[i] = L'[j]
               PROVE  i = j
      OBVIOUS
  <2>1. i + 1 = j + 1
        BY <1>2
  <2> QED BY <1>2, <2>1
<1>9. NoSharing'
      BY <1>3, <1>7, <1>8
<1> QED BY <1>6, <1>9

\* push_back(): the handle was not on the list, and is given up.
LEMMA PushIInv == ASSUME NEW w \in Workers, IInv, Push(w) PROVE IInv'
<1> USE ConnPoolAssumption DEF IInv, Types, LockInv, ConnInv, NoSharing, Goto
<1> DEFINE L == m_connList
<1>1. pc[w] = "push" /\ conn[w] # NULL /\ conn[w] \in Connections
      BY DEF Push
<1>2. /\ L' = Append(L, conn[w]) /\ L' \in Seq(Connections) /\ L' # <<>>
      /\ DOMAIN L' = 1..(Len(L) + 1) /\ L'[Len(L) + 1] = conn[w]
      /\ \A i \in DOMAIN L : L'[i] = L[i]
      /\ DOMAIN L = 1..Len(L) /\ Len(L) \in Nat
      BY <1>1 DEF Push
<1>3. /\ UNCHANGED <<m_MaxConn, m_reserve, m_lock, signals>>
      /\ pc' = [pc EXCEPT ![w] = "reunlock"] /\ conn' = [conn EXCEPT ![w] = NULL]
      BY DEF Push
<1>4. m_FreeConn' \in Int /\ m_CurConn' \in Int
      BY DEF Push
<1>5. \A v \in Workers : pc[v] # "pop" /\ pc'[v] # "pop"
      BY <1>1, <1>3
<1>6. \A v \in Workers, i \in DOMAIN L : conn[v] # L[i]
      BY <1>5
<1>7. Types' /\ LockInv' /\ ConnInv'
      BY <1>1, <1>2, <1>3, <1>4, <1>5
<1>8. \A v \in Workers, i \in DOMAIN L' : conn'[v] # L'[i]
  <2> SUFFICES ASSUME NEW v \in Workers, NEW i \in DOMAIN L' PROVE conn'[v] # L'[i]
      OBVIOUS
  <2>1. L'[i] \in Connections /\ L'[i] # NULL
        BY <1>2
  <2>2. CASE v = w
        BY <1>3, <2>1, <2>2
  <2>3. CASE v # w
        BY <1>1, <1>2, <1>3, <1>6, <2>1, <2>3
  <2> QED BY <2>2, <2>3
<1>9. \A i, j \in DOMAIN L' : L'[i] = L'[j] => i = j
      BY <1>2, <1>6
<1>10. \A u, v \in Workers : conn'[u] = conn'[v] /\ conn'[u] # NULL => u = v
      BY <1>3
<1> QED BY <1>7, <1>8, <1>9, <1>10

LEMMA NextIInv == IInv /\ [Next]_vars => IInv'
<1> SUFFICES ASSUME IInv, [Next]_vars PROVE IInv'
    OBVIOUS
<1>1. ASSUME NEW w \in Workers, Step(w) \/ Interrupted(w) PROVE IInv'
      BY <1>1, QuietIInv, FrontIInv, PopIInv, PushIInv DEF Step
<1>2. CASE UNCHANGED vars
      BY <1>2 DEF vars, IInv, Types, LockInv, ConnInv, NoSharing
<1> QED BY <1>1, <1>2 DEF Next

\* Always: the types, mutual exclusion, and who has a handle at which step.
THEOREM Invariance == Spec => []IInv
BY InitIInv, NextIInv, PTL DEF Spec

\* Scarce handles and interrupted waits or not, no two workers ever share one.
THEOREM NeverShared == Spec => []NoSharing
BY Invariance, PTL DEF IInv

-----------------------------------------------------------------------------
(* Every handle is on the list or held: from pop_front() to push_back() by  *)
(* a worker.  The two counters count them.                                  *)

Held == {w \in Workers : pc[w] \in {"unlock", "using", "relock", "push"} /\ conn[w] # NULL}

HandleInv ==
    /\ Len(m_connList) + Cardinality(Held) = m_MaxConn
    /\ m_FreeConn = Len(m_connList) /\ m_CurConn = Cardinality(Held)

\* A worker joins or leaves a set of workers.
LEMMA Joins ==
    ASSUME NEW S \in SUBSET Workers, NEW w \in Workers, w \notin S
    PROVE  Cardinality(S \cup {w}) = Cardinality(S) + 1 /\ Cardinality(S) \in Nat
BY ConnPoolAssumption, FS_Subset, FS_AddElement, FS_CardinalityType

LEMMA Leaves ==
    ASSUME NEW S \in SUBSET Workers, NEW w \in S
    PROVE  Cardinality(S \ {w}) = Cardinality(S) - 1 /\ Cardinality(S) \in Nat
BY ConnPoolAssumption, FS_Subset, FS_RemoveElement, FS_CardinalityType

LEMMA InitHandle == Init => HandleInv
<1> SUFFICES ASSUME Init PROVE HandleInv
    OBVIOUS
<1>1. m_MaxConn \in Nat /\ Len(m_connList) = m_MaxConn
      BY ConnPoolAssumption DEF Init
<1>2. Held = {}
      BY DEF Init, Held
<1>3. Cardinality(Held) = 0
      BY <1>2, FS_EmptySet
<1> QED BY <1>1, <1>3 DEF Init, HandleInv

LEMMA NextHandle ==
    ASSUME NEW w \in Workers, IInv, HandleInv, Step(w) \/ Interrupted(w)
    PROVE  HandleInv' /\ m_MaxConn' = m_MaxConn
<1> USE DEF IInv, Types, HandleInv, Goto
<1>0. Held \in SUBSET Workers
      BY DEF Held
<1>1. CASE Pop(w)
  <2>1. w \notin Held /\ m_connList # <<>> /\ conn[w] # NULL
        BY <1>1 DEF Pop, Held, ConnInv
  <2>2. Held' = Held \cup {w}
        BY <1>1, <2>1 DEF Pop, Held
  <2>3. Cardinality(Held') = Cardinality(Held) + 1 /\ Cardinality(Held) \in Nat
        BY <1>0, <2>1, <2>2, Joins
  <2>4. Len(m_connList') = Len(m_connList) - 1 /\ Len(m_connList) \in Nat
        BY <1>1, <2>1 DEF Pop
  <2>5. m_FreeConn' = m_FreeConn - 1 /\ m_CurConn' = m_CurConn + 1 /\ m_MaxConn' = m_MaxConn
        BY <1>1 DEF Pop
  <2> QED BY <2>3, <2>4, <2>5
<1>2. CASE Push(w)
  <2>1. w \in Held /\ conn[w] \in Connections
        BY <1>2 DEF Push, Held, ConnInv
  <2>2. Held' = Held \ {w}
        BY <1>2 DEF Push, Held
  <2>3. Cardinality(Held') = Cardinality(Held) - 1 /\ Cardinality(Held) \in Nat
        BY <1>0, <2>1, <2>2, Leaves
  <2>4. Len(m_connList') = Len(m_connList) + 1 /\ Len(m_connList) \in Nat
        BY <1>2, <2>1 DEF Push
  <2>5. m_FreeConn' = m_FreeConn + 1 /\ m_CurConn' = m_CurConn - 1 /\ m_MaxConn' = m_MaxConn
        BY <1>2 DEF Push
  <2> QED BY <2>3, <2>4, <2>5
<1>3. CASE Front(w)
  <2>1. Held' = Held
        BY <1>3 DEF Front, Held
  <2> QED BY <1>3, <2>1 DEF Front
<1>4. CASE TestEmpty(w) \/ Wait(w) \/ Wake(w) \/ Interrupted(w) \/ Lock(w)
  <2>1. /\ UNCHANGED <<m_MaxConn, m_connList, m_FreeConn, m_CurConn, conn>>
        /\ conn[w] = NULL \/ (pc[w] = "relock" /\ pc' = [pc EXCEPT ![w] = "push"])
        /\ \A v \in Workers \ {w} : pc'[v] = pc[v]
        BY <1>4 DEF TestEmpty, Wait, Wake, Interrupted, Lock, ConnInv
  <2>2. Held' = Held
        BY <2>1 DEF Held
  <2> QED BY <2>1, <2>2
<1>5. CASE Unlock(w) \/ Release(w) \/ Post(w)
  <2>1. UNCHANGED <<m_MaxConn, m_connList, m_FreeConn, m_CurConn, conn>>
        BY <1>5 DEF Unlock, Release, Post
  <2>2. Held' = Held
        BY <1>5 DEF Unlock, Release, Post, Held, ConnInv
  <2> QED BY <2>1, <2>2
<1> QED BY <1>1, <1>2, <1>3, <1>4, <1>5 DEF Step

\* No handle is lost: those on the list and those that are held are m_MaxConn.
THEOREM Accounted == Spec => []HandleInv
<1>1. IInv /\ HandleInv /\ [Next]_vars => HandleInv'
      BY NextHandle DEF Next, vars, HandleInv, Held
<1> QED BY <1>1, InitHandle, Invariance, PTL DEF Spec

\* The state is well typed and the counters count: neither is ever negative nor
\* greater than m_MaxConn.
THEOREM TypeCorrect == Spec => []TypeOK
<1>1. IInv /\ HandleInv => TypeOK
  <2> SUFFICES ASSUME IInv, HandleInv PROVE TypeOK
      OBVIOUS
  <2>1. Held \in SUBSET Workers /\ m_MaxConn \in Nat
        BY ConnPoolAssumption DEF Held, IInv, Types
  <2>2. Cardinality(Held) \in Nat /\ Len(m_connList) \in Nat
        BY <2>1, ConnPoolAssumption, FS_Subset, FS_CardinalityType DEF IInv, Types
  <2>3. m_FreeConn \in 0..m_MaxConn /\ m_CurConn \in 0..m_MaxConn
        BY <2>1, <2>2 DEF HandleInv
  <2> QED BY <2>3 DEF TypeOK, IInv, Types
<1> QED BY <1>1, Invariance, Accounted, PTL

-----------------------------------------------------------------------------
(* The units of the semaphore, the threads past their wait and the posts to *)
(* come against the list: they are no fewer than the handles on it, so no   *)
(* thread sleeps while one is free, and more by the interrupted waits only. *)

UnitsInHand == m_reserve + Cardinality(LetThrough) + Cardinality(Unposted)

CountInv == NoIdleConnection /\ UnitsInHand <= Len(m_connList) + signals

LEMMA InitCount == Init => CountInv
<1> SUFFICES ASSUME Init PROVE CountInv
    OBVIOUS
<1>1. LetThrough = {} /\ Unposted = {}
      BY DEF Init, LetThrough, Unposted
<1>2. Cardinality(LetThrough) = 0 /\ Cardinality(Unposted) = 0
      BY <1>1, FS_EmptySet
<1> QED BY <1>2, ConnPoolAssumption DEF Init, CountInv, NoIdleConnection, UnitsInHand

LEMMA NextCount ==
    ASSUME NEW w \in Workers, IInv, CountInv, Step(w) \/ Interrupted(w)
    PROVE  CountInv'
<1> USE DEF IInv, Types, CountInv, NoIdleConnection, UnitsInHand, Goto
<1>0. /\ LetThrough \in SUBSET Workers /\ Unposted \in SUBSET Workers
      /\ Cardinality(LetThrough) \in Nat /\ Cardinality(Unposted) \in Nat
      /\ Len(m_connList) \in Nat /\ signals \in Int
  <2>1. LetThrough \in SUBSET Workers /\ Unposted \in SUBSET Workers
        BY DEF LetThrough, Unposted
  <2>2. signals \in Int
        BY ConnPoolAssumption
  <2> QED BY <2>1, <2>2, ConnPoolAssumption, FS_Subset, FS_CardinalityType
<1>1. CASE (Wait(w) /\ m_reserve > 0) \/ Wake(w) \/ Interrupted(w)
  <2>1. w \notin LetThrough
        BY <1>1 DEF Wait, Wake, Interrupted, LetThrough
  <2>2. LetThrough' = LetThrough \cup {w} /\ Unposted' = Unposted
        BY <1>1 DEF Wait, Wake, Interrupted, LetThrough, Unposted
  <2>3. Cardinality(LetThrough') = Cardinality(LetThrough) + 1
        BY <1>0, <2>1, <2>2, Joins
  <2>4. /\ m_connList' = m_connList
        /\ \/ m_reserve' = m_reserve - 1 /\ signals' = signals
           \/ m_reserve' = m_reserve /\ signals' = signals + 1
        BY <1>1 DEF Wait, Wake, Interrupted
  <2> QED BY <1>0, <2>2, <2>3, <2>4
<1>2. CASE TestEmpty(w) \/ (Wait(w) /\ ~(m_reserve > 0)) \/ Lock(w) \/ Release(w)
           \/ Unlock(w) \/ (Front(w) /\ m_connList # <<>>)
  <2>1. LetThrough' = LetThrough /\ Unposted' = Unposted
        BY <1>2 DEF TestEmpty, Wait, Lock, Release, Unlock, Front, LetThrough, Unposted
  <2>2. UNCHANGED <<m_connList, m_reserve, signals>>
        BY <1>2 DEF TestEmpty, Wait, Lock, Release, Unlock, Front
  <2> QED BY <1>0, <2>1, <2>2
<1>3. CASE Front(w) /\ m_connList = <<>>
  <2>1. w \in LetThrough
        BY <1>3 DEF Front, LetThrough
  <2>2. LetThrough' = LetThrough \ {w} /\ Unposted' = Unposted
        BY <1>3 DEF Front, LetThrough, Unposted
  <2>3. /\ Cardinality(LetThrough') = Cardinality(LetThrough) - 1
        /\ Cardinality(LetThrough') \in Nat
        BY <1>0, <2>1, <2>2, Leaves, ConnPoolAssumption, FS_Subset, FS_CardinalityType
  <2>4. /\ m_connList = <<>> /\ m_connList' = <<>>
        /\ m_reserve' = m_reserve /\ signals' = signals
        BY <1>3 DEF Front
  <2> QED BY <1>0, <2>2, <2>3, <2>4
<1>4. CASE Pop(w)
  <2>1. w \in LetThrough /\ m_connList # <<>>
        BY <1>4 DEF Pop, LetThrough, ConnInv
  <2>2. LetThrough' = LetThrough \ {w} /\ Unposted' = Unposted
        BY <1>4 DEF Pop, LetThrough, Unposted
  <2>3. Cardinality(LetThrough') = Cardinality(LetThrough) - 1
        BY <1>0, <2>1, <2>2, Leaves
  <2>4. /\ Len(m_connList') = Len(m_connList) - 1 /\ m_reserve' = m_reserve
        /\ signals' = signals
        BY <1>4, <2>1 DEF Pop
  <2> QED BY <1>0, <2>2, <2>3, <2>4
<1>5. CASE Push(w)
  <2>1. w \notin Unposted /\ conn[w] \in Connections
        BY <1>5 DEF Push, Unposted, ConnInv
  <2>2. LetThrough' = LetThrough /\ Unposted' = Unposted \cup {w}
        BY <1>5 DEF Push, LetThrough, Unposted
  <2>3. Cardinality(Unposted') = Cardinality(Unposted) + 1
        BY <1>0, <2>1, <2>2, Joins
  <2>4. /\ Len(m_connList') = Len(m_connList) + 1 /\ m_reserve' = m_reserve
        /\ signals' = signals
        BY <1>5, <2>1 DEF Push
  <2> QED BY <1>0, <2>2, <2>3, <2>4
<1>6. CASE Post(w)
  <2>1. w \in Unposted
        BY <1>6 DEF Post, Unposted
  <2>2. LetThrough' = LetThrough /\ Unposted' = Unposted \ {w}
        BY <1>6 DEF Post, LetThrough, Unposted
  <2>3. Cardinality(Unposted') = Cardinality(Unposted) - 1
        BY <1>0, <2>1, <2>2, Leaves
  <2>4. /\ m_connList' = m_connList /\ m_reserve' = m_reserve + 1
        /\ signals' = signals
        BY <1>6 DEF Post
  <2> QED BY <1>0, <2>2, <2>3, <2>4
<1> QED BY <1>1, <1>2, <1>3, <1>4, <1>5, <1>6 DEF Step

LEMMA CountInvariance == Spec => []CountInv
<1>1. IInv /\ CountInv /\ [Next]_vars => CountInv'
      BY NextCount DEF Next, vars, CountInv, NoIdleConnection, UnitsInHand, LetThrough,
                       Unposted
<1> QED BY <1>1, InitCount, Invariance, PTL DEF Spec

\* Scarce handles and interrupted waits or not, a thread that sleeps in wait()
\* while a handle is on the list has a wake-up to come.
THEOREM NeverIdle == Spec => []NoIdleConnection
BY CountInvariance, PTL DEF CountInv

\* Without interrupted waits each thread past its wait has a handle on the list.
LEMMA OneEach ==
    ASSUME IInv, CountInv, signals = 0, NEW w \in Workers, pc[w] \in {"front", "pop"}
    PROVE  m_connList # <<>>
<1>1. LetThrough \in SUBSET Workers /\ Unposted \in SUBSET Workers /\ w \in LetThrough
      BY DEF LetThrough, Unposted
<1>2. /\ Cardinality(LetThrough) \in Nat /\ Cardinality(Unposted) \in Nat
      /\ Cardinality(LetThrough \ {w}) \in Nat
      BY <1>1, ConnPoolAssumption, FS_Subset, FS_CardinalityType
<1>3. Cardinality(LetThrough) > 0
      BY <1>1, <1>2, Leaves
<1>4. Len(m_connList) > 0
      BY <1>2, <1>3 DEF CountInv, UnitsInHand, IInv, Types
<1> QED BY <1>4

-----------------------------------------------------------------------------
(* As many handles as threads.  A worker from Wait to Post has a unit of    *)
(* the semaphore.                                                           *)

HasUnit == {"lock", "front", "pop", "unlock", "using", "relock", "push", "reunlock", "post"}
Busy    == {w \in Workers : pc[w] \in HasUnit}

UnitInv ==
    Enough => /\ \A w \in Workers : pc[w] \notin {"blocked", "undefined"}
              /\ \A w \in Workers : pc[w] = "using" => conn[w] # NULL
              /\ m_reserve + Cardinality(Busy) = m_MaxConn

\* A set of workers that misses one is smaller than the set of handles.
LEMMA SomeLeft ==
    ASSUME Enough, IInv, NEW S \in SUBSET Workers, NEW w \in Workers, w \notin S
    PROVE  Cardinality(S) \in Nat /\ Cardinality(S) < m_MaxConn
<1>1. IsFiniteSet(S) /\ Cardinality(S) \in Nat
      BY ConnPoolAssumption, FS_Subset, FS_CardinalityType
<1>2. Cardinality(S \cup {w}) = Cardinality(S) + 1
      BY <1>1, FS_AddElement
<1>3. Cardinality(S \cup {w}) <= Cardinality(Workers)
      BY ConnPoolAssumption, FS_Subset
<1>4. Cardinality(Workers) \in Nat /\ m_MaxConn \in Nat
      BY ConnPoolAssumption, FS_CardinalityType DEF IInv, Types
<1> QED BY <1>1, <1>2, <1>3, <1>4 DEF Enough

\* So a worker without a handle finds one on the list.
LEMMA OneLeft ==
    ASSUME Enough, IInv, HandleInv, NEW w \in Workers, w \notin Held
    PROVE  m_connList # <<>> /\ Len(m_connList) # 0
<1>1. Held \in SUBSET Workers /\ m_MaxConn \in Nat
      BY ConnPoolAssumption DEF Held, IInv, Types
<1>2. Cardinality(Held) < m_MaxConn /\ Cardinality(Held) \in Nat
      BY <1>1, SomeLeft
<1>3. Len(m_connList) # 0
      BY <1>1, <1>2 DEF HandleInv
<1> QED BY <1>3 DEF IInv, Types

LEMMA InitUnit == Init => UnitInv
<1> SUFFICES ASSUME Init PROVE UnitInv
    OBVIOUS
<1>1. Busy = {}
      BY DEF Init, Busy, HasUnit
<1>2. Cardinality(Busy) = 0
      BY <1>1, FS_EmptySet
<1> QED BY <1>2, ConnPoolAssumption DEF Init, UnitInv

LEMMA NextUnit ==
    ASSUME Enough, NEW w \in Workers, IInv, HandleInv, UnitInv,
           Step(w) \/ Interrupted(w), m_MaxConn' = m_MaxConn
    PROVE  UnitInv'
<1> USE DEF IInv, Types, UnitInv, Goto
<1>0. Busy \in SUBSET Workers
      BY DEF Busy
<1>1. CASE TestEmpty(w)
  <2>1. w \notin Held
        BY <1>1 DEF TestEmpty, Held
  <2>2. pc' = [pc EXCEPT ![w] = "wait"]
        BY <1>1, <2>1, OneLeft DEF TestEmpty
  <2>3. Busy' = Busy
        BY <1>1, <2>2 DEF TestEmpty, Busy, HasUnit
  <2> QED BY <1>1, <2>2, <2>3 DEF TestEmpty
<1>2. CASE Front(w)
  <2>1. w \notin Held
        BY <1>2 DEF Front, Held
  <2>2. pc' = [pc EXCEPT ![w] = "pop"]
        BY <1>2, <2>1, OneLeft DEF Front
  <2>3. Busy' = Busy
        BY <1>2, <2>2 DEF Front, Busy, HasUnit
  <2>4. \A v \in Workers : pc'[v] = "using" => conn'[v] # NULL
        BY <1>2, <2>2 DEF Front
  <2> QED BY <1>2, <2>2, <2>3, <2>4 DEF Front
<1>3. CASE Wake(w) \/ Interrupted(w)
      BY <1>3 DEF Wake, Interrupted
<1>4. CASE Lock(w)
  <2>1. Busy' = Busy
        BY <1>4 DEF Lock, Busy, HasUnit
  <2> QED BY <1>4, <2>1 DEF Lock
<1>5. CASE Unlock(w)
  <2>1. Busy' = Busy
        BY <1>5 DEF Unlock, Busy, HasUnit
  <2>2. pc[w] = "unlock" => conn[w] # NULL
        BY DEF ConnInv
  <2> QED BY <1>5, <2>1, <2>2 DEF Unlock
<1>6. CASE Release(w)
  <2>1. pc' = [pc EXCEPT ![w] = "relock"]
        BY <1>6 DEF Release
  <2>2. Busy' = Busy
        BY <1>6, <2>1 DEF Release, Busy, HasUnit
  <2> QED BY <1>6, <2>1, <2>2 DEF Release
<1>7. CASE Wait(w)
  <2>1. w \notin Busy
        BY <1>7 DEF Wait, Busy, HasUnit
  <2>2. m_reserve > 0
    <3>1. Cardinality(Busy) < m_MaxConn /\ Cardinality(Busy) \in Nat
          BY <1>0, <2>1, SomeLeft
    <3> QED BY <3>1, ConnPoolAssumption
  <2>3. pc' = [pc EXCEPT ![w] = "lock"] /\ m_reserve' = m_reserve - 1
        BY <1>7, <2>2 DEF Wait
  <2>4. Busy' = Busy \cup {w}
        BY <1>7, <2>3 DEF Wait, Busy, HasUnit
  <2>5. Cardinality(Busy') = Cardinality(Busy) + 1 /\ Cardinality(Busy) \in Nat
        BY <1>0, <2>1, <2>4, Joins
  <2>6. m_reserve' + Cardinality(Busy') = m_MaxConn
        BY <2>3, <2>5
  <2> QED BY <1>7, <2>3, <2>6 DEF Wait
<1>8. CASE Pop(w) \/ Push(w)
  <2>1. Busy' = Busy
        BY <1>8 DEF Pop, Push, Busy, HasUnit
  <2>2. \A v \in Workers : pc'[v] = "using" => conn'[v] # NULL
        BY <1>8 DEF Pop, Push
  <2> QED BY <1>8, <2>1, <2>2 DEF Pop, Push
<1>9. CASE Post(w)
  <2>1. w \in Busy
        BY <1>9 DEF Post, Busy, HasUnit
  <2>2. Busy' = Busy \ {w}
        BY <1>9 DEF Post, Busy, HasUnit
  <2>3. Cardinality(Busy') = Cardinality(Busy) - 1 /\ Cardinality(Busy) \in Nat
        BY <1>0, <2>1, <2>2, Leaves
  <2>4. m_reserve' + Cardinality(Busy') = m_MaxConn
        BY <1>9, <2>3 DEF Post
  <2> QED BY <1>9, <2>2, <2>4 DEF Post
<1> QED BY <1>1, <1>2, <1>3, <1>4, <1>5, <1>6, <1>7, <1>8, <1>9 DEF Step

LEMMA UnitInvariance == Spec => []UnitInv
<1>1. IInv /\ HandleInv /\ UnitInv /\ [Next]_vars => UnitInv'
  <2> SUFFICES ASSUME IInv, HandleInv, UnitInv, [Next]_vars, Enough' PROVE UnitInv'
      BY DEF UnitInv
  <2>1. ASSUME NEW w \in Workers, Step(w) \/ Interrupted(w) PROVE UnitInv'
    <3>1. m_MaxConn' = m_MaxConn
          BY <2>1, NextHandle
    <3>2. Enough
          BY <3>1 DEF Enough
    <3> QED BY <2>1, <3>1, <3>2, NextUnit
  <2>2. CASE UNCHANGED vars
        BY <2>2 DEF vars, UnitInv, Enough, Busy
  <2> QED BY <2>1, <2>2 DEF Next
<1> QED BY <1>1, InitUnit, Invariance, Accounted, PTL DEF Spec

\* With as many handles as threads GetConnection() never returns NULL, and with as many
\* or with fewer and no interrupted wait front() and pop_front() never meet an empty list.
THEOREM AlwaysAHandle == Spec => []AlwaysServed
<1>1. UnitInv => NeverNull
      BY DEF UnitInv, NeverNull
<1>2. IInv /\ HandleInv /\ CountInv => NeverPopsEmpty
      BY OneLeft, OneEach DEF NeverPopsEmpty, Held
<1>3. IInv /\ HandleInv /\ UnitInv /\ CountInv => AlwaysServed
      BY <1>1, <1>2 DEF AlwaysServed
<1> QED BY <1>3, UnitInvariance, Invariance, Accounted, CountInvariance, PTL
=============================================================================
