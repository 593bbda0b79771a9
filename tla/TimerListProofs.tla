-------------------------- MODULE TimerListProofs --------------------------
(***************************************************************************)
(* Proofs about sort_timer_lst: for every set of addresses, every set of   *)
(* expiry distances and every bound on the clock the list stays well       *)
(* linked and sorted, and it implements the set of running timers of       *)
(* TimerSet.                                                               *)
(*                                                                         *)
(* The inductive invariant hides a listing of the nodes: a function s on   *)
(* 0..n that gives the node at each position and NULL at n.  Every member  *)
(* function inserts one node in the listing, removes one, or drops a       *)
(* prefix.                                                                 *)
(***************************************************************************)
EXTENDS TimerList, FiniteSetTheorems, WellFoundedInduction, TLAPS

-----------------------------------------------------------------------------
(* Natural numbers: the least element of a set, the greatest of a finite one. *)

LEMMA LeastNat ==
    ASSUME NEW S \in SUBSET Nat, S # {}
    PROVE  \E m \in S : \A k \in S : m <= k
<1> DEFINE R == OpToRel(<, Nat)
<1>1. R = {ss \in Nat \X Nat : ss[1] < ss[2]}
  BY DEF OpToRel
<1>2. IsWellFoundedOn(R, Nat)
  BY NatLessThanWellFounded
<1> HIDE DEF R
<1>3. PICK m \in S : \A k \in S : ~(<<k, m>> \in R)
  BY <1>2, WFMin, Zenon
<1>4. ASSUME NEW k \in S
      PROVE  m <= k
  <2>1. ~(<<k, m>> \in R)
    BY <1>3
  <2>2. <<k, m>> \in Nat \X Nat
    BY Zenon
  <2>3. ~(k < m)
    BY <1>1, <2>1, <2>2, SMT
  <2> QED
    BY <2>3
<1> QED
  BY <1>4

LEMMA MinNat ==
    ASSUME NEW S \in SUBSET Nat, S # {}
    PROVE  Min(S) \in S /\ \A k \in S : Min(S) <= k
<1>1. \E m \in S : \A k \in S : m =< k
  BY LeastNat
<1> QED
  BY <1>1, Zenon DEF Min

\* A finite set of natural numbers has an upper bound.
LEMMA FiniteBounded ==
    ASSUME NEW S \in SUBSET Nat, IsFiniteSet(S)
    PROVE  \E b \in Nat : \A k \in S : k <= b
<1> DEFINE Unbounded(T) == \A b \in Nat : \E k \in T : ~(k <= b)
           Bad == {c \in Nat : \E T \in SUBSET Nat :
                      IsFiniteSet(T) /\ Cardinality(T) = c /\ Unbounded(T)}
<1> SUFFICES ASSUME Unbounded(S)
             PROVE  FALSE
  OBVIOUS
<1>1. Cardinality(S) \in Bad
  BY FS_CardinalityType
<1>2. PICK c \in Bad : \A k \in Bad : c <= k
  <2>1. Bad \in SUBSET Nat
    OBVIOUS
  <2> HIDE DEF Bad
  <2> QED
    BY <1>1, <2>1, LeastNat
<1>3. PICK T \in SUBSET Nat : IsFiniteSet(T) /\ Cardinality(T) = c /\ Unbounded(T)
  OBVIOUS
<1>4. PICK x \in T : TRUE
  BY <1>3
<1>5. /\ IsFiniteSet(T \ {x}) /\ Cardinality(T \ {x}) = c - 1
      /\ c \in Nat /\ c - 1 \in Nat
  <2>1. IsFiniteSet(T \ {x}) /\ Cardinality(T \ {x}) = c - 1
    BY <1>3, FS_RemoveElement
  <2>2. Cardinality(T \ {x}) \in Nat
    BY <2>1, FS_CardinalityType
  <2> QED
    BY <2>1, <2>2
<1>6. c - 1 \notin Bad
  <2> HIDE DEF Bad
  <2> QED
    BY <1>2, <1>5
<1>7. PICK b \in Nat : \A k \in T \ {x} : k <= b
  BY <1>5, <1>6
<1>8. b + x \in Nat /\ \A k \in T : k <= b + x
  BY <1>7
<1> QED
  BY <1>3, <1>8

LEMMA MaxNat ==
    ASSUME NEW S \in SUBSET Nat, IsFiniteSet(S), S # {}
    PROVE  Max(S) \in S /\ \A k \in S : k <= Max(S)
<1> DEFINE B == {b \in Nat : \A k \in S : k <= b}
<1>1. PICK m \in B : \A k \in B : m <= k
  <2>1. B \in SUBSET Nat /\ B # {}
    BY FiniteBounded
  <2> HIDE DEF B
  <2> QED
    BY <2>1, LeastNat
<1>2. m \in S
  <2> SUFFICES ASSUME m \notin S
               PROVE  FALSE
    OBVIOUS
  <2>1. PICK k \in S : TRUE
    OBVIOUS
  <2>2. m \in Nat /\ m - 1 \in Nat
    BY <2>1
  <2>3. \A j \in S : j <= m - 1
    BY <2>2
  <2> QED
    BY <1>1, <2>2, <2>3
<1>3. \A k \in S : m >= k
  OBVIOUS
<1>4. \E x \in S : \A y \in S : x >= y
  BY <1>2, <1>3
<1>5. Max(S) \in S /\ \A k \in S : Max(S) >= k
  BY <1>4, Zenon DEF Max
<1> QED
  BY <1>5

-----------------------------------------------------------------------------
(* Walk is a recursive function: that one satisfying its equation exists is *)
(* shown by taking the shortest walk that would not.                        *)

IsWalk(f, nx, p, n) ==
    f = [k \in 0..n |-> IF k = 0 THEN p
                        ELSE IF f[k - 1] = NULL THEN NULL ELSE nx[f[k - 1]]]

LEMMA WalkExists ==
    ASSUME NEW nx, NEW p
    PROVE  \A n \in Nat : \E f : IsWalk(f, nx, p, n)
<1> DEFINE Bad == {n \in Nat : ~ \E f : IsWalk(f, nx, p, n)}
<1> SUFFICES ASSUME Bad # {}
             PROVE  FALSE
  OBVIOUS
<1>1. PICK m \in Bad : \A k \in Bad : m <= k
  <2>1. Bad \in SUBSET Nat
    OBVIOUS
  <2> HIDE DEF Bad
  <2> QED
    BY <2>1, LeastNat
<1>2. m # 0
  <2>1. IsWalk([k \in 0..0 |-> p], nx, p, 0)
    BY DEF IsWalk
  <2> QED
    BY <2>1
<1>3. m \in Nat /\ m - 1 \in Nat /\ m - 1 \notin Bad
  <2>1. m \in Nat
    OBVIOUS
  <2>2. m - 1 \in Nat
    BY <1>2, <2>1
  <2>3. ~(m <= m - 1)
    BY <2>1
  <2> HIDE DEF Bad
  <2> QED
    BY <1>1, <2>1, <2>2, <2>3
<1>4. PICK f : IsWalk(f, nx, p, m - 1)
  BY <1>3
<1> DEFINE g == [k \in 0..m |-> IF k = 0 THEN p
                                ELSE IF f[k - 1] = NULL THEN NULL ELSE nx[f[k - 1]]]
<1>5. \A k \in 0..(m - 1) : g[k] = f[k]
  BY <1>3, <1>4 DEF IsWalk
<1>6. \A k \in 0..m : g[k] = IF k = 0 THEN p
                             ELSE IF g[k - 1] = NULL THEN NULL ELSE nx[g[k - 1]]
  <2> TAKE k \in 0..m
  <2>1. k # 0 => k - 1 \in 0..(m - 1)
    BY <1>3
  <2>2. k # 0 => g[k - 1] = f[k - 1]
    BY <2>1, <1>5
  <2>3. g[k] = IF k = 0 THEN p
               ELSE IF f[k - 1] = NULL THEN NULL ELSE nx[f[k - 1]]
    OBVIOUS
  <2> HIDE DEF g
  <2> QED
    BY <2>2, <2>3
<1>7. IsWalk(g, nx, p, m)
  BY <1>6, Zenon DEF IsWalk
<1>8. m \notin Bad
  BY <1>7
<1> QED
  BY <1>8

LEMMA WalkIs ==
    ASSUME NEW L, NEW p, N \in Nat
    PROVE  /\ Walk(L, p)[0] = p
           /\ \A k \in 1..(N + 1) :
                 Walk(L, p)[k] = IF Walk(L, p)[k - 1] = NULL THEN NULL
                                 ELSE L.next[Walk(L, p)[k - 1]]
<1>1. PICK f : IsWalk(f, L.next, p, N + 1)
  BY WalkExists
<1>2. f = [k \in 0..(N + 1) |->
              IF k = 0 THEN p
              ELSE IF f[k - 1] = NULL THEN NULL ELSE L.next[f[k - 1]]]
  BY <1>1 DEF IsWalk
<1>3. Walk(L, p) = CHOOSE g :
          g = [k \in 0..(N + 1) |->
                  IF k = 0 THEN p
                  ELSE IF g[k - 1] = NULL THEN NULL ELSE L.next[g[k - 1]]]
  BY Zenon DEF Walk
<1>4. IsWalk(Walk(L, p), L.next, p, N + 1)
  BY <1>2, <1>3, Zenon DEF IsWalk
<1> HIDE <1>3
<1> DEFINE w == Walk(L, p)
<1>5. IsWalk(w, L.next, p, N + 1)
  BY <1>4
<1> HIDE DEF w
<1>6. /\ w[0] = p
      /\ \A k \in 1..(N + 1) :
            w[k] = IF w[k - 1] = NULL THEN NULL ELSE L.next[w[k - 1]]
  <2>1. \A k \in 0..(N + 1) : w[k] = IF k = 0 THEN p
                                ELSE IF w[k - 1] = NULL THEN NULL ELSE L.next[w[k - 1]]
    BY <1>5, Zenon DEF IsWalk
  <2>2. 0 \in 0..(N + 1) /\ \A k \in 1..(N + 1) : k \in 0..(N + 1) /\ k # 0
    OBVIOUS
  <2> QED
    BY <2>1, <2>2, Zenon
<1> QED
  BY <1>6 DEF w

-----------------------------------------------------------------------------
(* The inductive invariant.                                                 *)

Lists == [head : Pointers, tail : Pointers,
          next : [Timers -> Pointers], prev : [Timers -> Pointers]]

\* s lists the n nodes of H in the order of the list L, sorted by expiry.
Listed(L, e, H, n, s) ==
    /\ n \in Nat
    /\ s \in [0..n -> Pointers]
    /\ H = {s[i] : i \in 0..(n - 1)} /\ s[n] = NULL
    /\ \A i \in 0..(n - 1) : s[i] \in Timers /\ L.next[s[i]] = s[i + 1]
    /\ \A i, j \in 0..(n - 1) : s[i] = s[j] => i = j
    /\ L.head = s[0]
    /\ n > 0 => L.tail = s[n - 1]
    /\ \A i \in 1..(n - 1) : L.prev[s[i]] = s[i - 1]
    /\ \A i, j \in 0..(n - 1) : i <= j => e[s[i]] <= e[s[j]]

IInv == TypeOK /\ \E n \in 0..N : \E s \in [0..n -> Pointers] :
                     Listed(lst, expire, heap, n, s)

LEMMA Constants ==
    /\ N \in Nat
    /\ Max(Timeouts) \in Nat /\ \A d \in Timeouts : d \in Nat /\ d <= Max(Timeouts)
BY TimerListAssumption, MaxNat, FS_CardinalityType DEF N

\* The first k nodes of a listing, which has no repetition, are k nodes.
LEMMA CountNodes ==
    ASSUME NEW s, NEW k \in Nat,
           \A i, j \in 0..(k - 1) : s[i] = s[j] => i = j
    PROVE  Cardinality({s[i] : i \in 0..(k - 1)}) = k
<1> DEFINE S == {s[i] : i \in 0..(k - 1)}
           b == [i \in 1..k |-> s[i - 1]]
<1>1. b \in [1..k -> S] /\ \A i, j \in 1..k : b[i] = b[j] => i = j
  <2>1. \A i \in 1..k : i - 1 \in 0..(k - 1)
    OBVIOUS
  <2>2. b \in [1..k -> S]
    BY <2>1
  <2>3. ASSUME NEW i \in 1..k, NEW j \in 1..k, s[i - 1] = s[j - 1]
        PROVE  i = j
    <3>1. i - 1 = j - 1
      BY <2>1, <2>3
    <3> QED
      BY <3>1
  <2> QED
    BY <2>2, <2>3
<1>2. \A t \in S : \E i \in 1..k : b[i] = t
  <2> TAKE t \in S
  <2>1. PICK i \in 0..(k - 1) : s[i] = t
    OBVIOUS
  <2>2. i + 1 \in 1..k /\ b[i + 1] = t
    BY <2>1
  <2> QED
    BY <2>2
<1> HIDE DEF b, S
<1>3. b \in Bijection(1..k, S)
  BY <1>1, <1>2 DEF Bijection, Injection, Surjection, IsInjective
<1>4. ExistsBijection(1..k, S)
  BY <1>3 DEF ExistsBijection
<1>5. Cardinality(S) = k
  BY <1>4, FS_CountingElements
<1> QED
  BY <1>5 DEF S

\* A listing of H has Cardinality(H) nodes.
LEMMA ListedCardinality ==
    ASSUME NEW L, NEW e, NEW H, NEW n, NEW s, Listed(L, e, H, n, s)
    PROVE  /\ H \subseteq Timers /\ n = Cardinality(H) /\ n <= N
<1>1. H \subseteq Timers
  BY DEF Listed
<1>2. n = Cardinality(H)
  <2>1. /\ n \in Nat /\ H = {s[i] : i \in 0..(n - 1)}
        /\ \A i, j \in 0..(n - 1) : s[i] = s[j] => i = j
    BY DEF Listed
  <2> QED
    BY <2>1, CountNodes
<1>3. n <= N
  BY <1>1, <1>2, TimerListAssumption, FS_Subset DEF N
<1> QED
  BY <1>1, <1>2, <1>3

\* The walk from the j-th node meets the nodes from the j-th on.
LEMMA WalkListed ==
    ASSUME NEW L, NEW e, NEW H, NEW n, NEW s, Listed(L, e, H, n, s),
           NEW j \in 0..n
    PROVE  \A i \in 0..(N + 1) :
              Walk(L, s[j])[i] = IF j + i <= n THEN s[j + i] ELSE NULL
<1> DEFINE w == Walk(L, s[j])
           Bad == {i \in 0..(N + 1) : w[i] # IF j + i <= n THEN s[j + i] ELSE NULL}
<1> SUFFICES ASSUME Bad # {}
             PROVE  FALSE
  OBVIOUS
<1>1. N \in Nat /\ n \in Nat /\ n <= N /\ NULL \notin Timers
  BY Constants, ListedCardinality, TimerListAssumption DEF Listed
<1>2. /\ w[0] = s[j]
      /\ \A k \in 1..(N + 1) :
            w[k] = IF w[k - 1] = NULL THEN NULL ELSE L.next[w[k - 1]]
  BY <1>1, WalkIs
<1> HIDE DEF w
<1>3. PICK m \in Bad : \A k \in Bad : m <= k
  <2>1. Bad \in SUBSET Nat
    OBVIOUS
  <2> HIDE DEF Bad
  <2> QED
    BY <2>1, LeastNat
<1>4. m # 0
  BY <1>1, <1>2
<1>5. m - 1 \in 0..(N + 1) /\ m \in 1..(N + 1) /\ ~(m <= m - 1)
  BY <1>1, <1>4
<1>6. w[m - 1] = IF j + (m - 1) <= n THEN s[j + (m - 1)] ELSE NULL
  BY <1>3, <1>5
<1>7. w[m] = IF w[m - 1] = NULL THEN NULL ELSE L.next[w[m - 1]]
  BY <1>2, <1>5
<1>8. w[m] = IF j + m <= n THEN s[j + m] ELSE NULL
  <2>1. CASE j + (m - 1) < n
    <3>1. /\ j + (m - 1) \in 0..(n - 1) /\ j + m <= n
          /\ (j + (m - 1)) + 1 = j + m
      BY <1>1, <1>5, <2>1
    <3>2. s[j + (m - 1)] \in Timers /\ L.next[s[j + (m - 1)]] = s[j + m]
      BY <3>1 DEF Listed
    <3> QED
      BY <1>1, <1>6, <1>7, <2>1, <3>1, <3>2
  <2>2. CASE j + (m - 1) >= n
    <3>1. w[m - 1] = NULL
      BY <1>1, <1>5, <1>6, <2>2 DEF Listed
    <3> QED
      BY <1>1, <1>5, <1>7, <2>2, <3>1
  <2> QED
    BY <1>1, <1>5, <2>1, <2>2
<1> QED
  BY <1>3, <1>8

-----------------------------------------------------------------------------
(* What the member functions do to a listing.                               *)

Inserted(s, n, m, t) ==
    [i \in 0..(n + 1) |-> IF i < m THEN s[i] ELSE IF i = m THEN t ELSE s[i - 1]]

Removed(s, n, m) == [i \in 0..(n - 1) |-> IF i < m THEN s[i] ELSE s[i + 1]]

\* If M is L with t linked in at position m, and t belongs there by its expiry,
\* M lists the nodes of L and t.
LEMMA LinkIn ==
    ASSUME NEW L \in Lists, NEW M \in Lists, NEW e \in [Timers -> Nat],
           NEW H, NEW n, NEW s, Listed(L, e, H, n, s),
           NEW t \in Timers, t \notin H, NEW m \in 0..n,
           m > 0 => e[s[m - 1]] <= e[t],
           m < n => e[t] <= e[s[m]],
           M.head = IF m = 0 THEN t ELSE L.head,
           M.tail = IF m = n THEN t ELSE L.tail,
           M.next[t] = s[m],
           m > 0 => M.next[s[m - 1]] = t,
           \A x \in H : (m > 0 => x # s[m - 1]) => M.next[x] = L.next[x],
           m > 0 => M.prev[t] = s[m - 1],
           m < n => M.prev[s[m]] = t,
           \A x \in H : x # s[m] => M.prev[x] = L.prev[x]
    PROVE  Listed(M, e, H \cup {t}, n + 1, Inserted(s, n, m, t))
<1> DEFINE r == Inserted(s, n, m, t)
<1>1. /\ n \in Nat /\ m \in Nat /\ m <= n
      /\ s \in [0..n -> Pointers] /\ s[n] = NULL
      /\ NULL \notin Timers
      /\ \A i \in 0..(n - 1) : s[i] \in H /\ s[i] \in Timers /\ s[i] # t
  BY TimerListAssumption DEF Listed
<1>2. /\ r \in [0..(n + 1) -> Pointers]
      /\ \A i \in 0..(m - 1) : r[i] = s[i]
      /\ r[m] = t
      /\ \A i \in (m + 1)..(n + 1) : r[i] = s[i - 1]
  BY <1>1 DEF Inserted, Pointers
<1> HIDE DEF r
<1>3. r[n + 1] = NULL
  BY <1>1, <1>2
<1>4. \A i \in 0..n : \/ i \in 0..(m - 1) /\ i \in 0..(n - 1) /\ r[i] = s[i]
                      \/ i = m /\ r[i] = t
                      \/ i \in (m + 1)..n /\ i - 1 \in 0..(n - 1) /\ r[i] = s[i - 1]
  BY <1>1, <1>2
<1>5. H \cup {t} = {r[i] : i \in 0..n}
  <2>1. \A i \in 0..n : r[i] \in H \cup {t}
    BY <1>1, <1>4
  <2>2. ASSUME NEW x \in H
        PROVE  \E i \in 0..n : r[i] = x
    <3>1. PICK i \in 0..(n - 1) : s[i] = x
      BY DEF Listed
    <3>2. CASE i < m
      BY <1>1, <1>2, <3>1, <3>2
    <3>3. CASE i >= m
      <4>1. i + 1 \in (m + 1)..n /\ i + 1 \in 0..n /\ r[i + 1] = s[i]
        BY <1>1, <1>2, <3>3
      <4> QED
        BY <3>1, <4>1
    <3> QED
      BY <1>1, <3>2, <3>3
  <2>3. m \in 0..n /\ r[m] = t
    BY <1>1, <1>2
  <2> QED
    BY <2>1, <2>2, <2>3
<1>6. ASSUME NEW i \in 0..n
      PROVE  r[i] \in Timers /\ M.next[r[i]] = r[i + 1]
  <2>1. CASE i \in 0..(m - 1) /\ i # m - 1
    <3>1. /\ r[i] = s[i] /\ i \in 0..(n - 1) /\ i + 1 \in 0..(m - 1)
          /\ m - 1 \in 0..(n - 1) /\ m > 0
      BY <1>1, <1>2, <2>1
    <3>2. s[i] # s[m - 1]
      BY <2>1, <3>1 DEF Listed
    <3>3. M.next[s[i]] = L.next[s[i]]
      BY <1>1, <3>1, <3>2
    <3>4. L.next[s[i]] = s[i + 1] /\ r[i + 1] = s[i + 1]
      BY <1>2, <3>1 DEF Listed
    <3> QED
      BY <1>1, <3>1, <3>3, <3>4
  <2>2. CASE i = m - 1
    <3>1. r[i] = s[m - 1] /\ i \in 0..(n - 1) /\ i + 1 = m /\ m > 0
      BY <1>1, <1>2, <2>2
    <3> QED
      BY <1>1, <1>2, <2>2, <3>1
  <2>3. CASE i = m
    <3>1. m + 1 \in (m + 1)..(n + 1) /\ (m + 1) - 1 = m
      BY <1>1
    <3>2. r[m + 1] = s[m]
      BY <1>2, <3>1
    <3> QED
      BY <1>2, <2>3, <3>2
  <2>4. CASE i \in (m + 1)..n
    <3>1. /\ r[i] = s[i - 1] /\ i - 1 \in 0..(n - 1) /\ i + 1 \in (m + 1)..(n + 1)
          /\ (i + 1) - 1 = i /\ (i - 1) + 1 = i
          /\ m > 0 => m - 1 \in 0..(n - 1) /\ i - 1 # m - 1
      BY <1>1, <1>2, <2>4
    <3>2. m > 0 => s[i - 1] # s[m - 1]
      BY <3>1 DEF Listed
    <3>3. M.next[s[i - 1]] = L.next[s[i - 1]]
      BY <1>1, <3>1, <3>2
    <3>4. L.next[s[i - 1]] = s[i] /\ r[i + 1] = s[i]
      BY <1>2, <3>1 DEF Listed
    <3> QED
      BY <1>1, <3>1, <3>3, <3>4
  <2> QED
    BY <1>1, <2>1, <2>2, <2>3, <2>4
<1>7. ASSUME NEW i \in 0..n, NEW j \in 0..n, r[i] = r[j]
      PROVE  i = j
  <2>1. \A k, l \in 0..(n - 1) : s[k] = s[l] => k = l
    BY DEF Listed
  <2>2. CASE i = m \/ j = m
    BY <1>1, <1>4, <1>7, <2>2
  <2>3. CASE i < m /\ j < m
    BY <1>1, <1>2, <1>7, <2>1, <2>3
  <2>4. CASE i > m /\ j > m
    <3>1. /\ i - 1 \in 0..(n - 1) /\ j - 1 \in 0..(n - 1)
          /\ s[i - 1] = s[j - 1]
      BY <1>1, <1>2, <1>7, <2>4
    <3>2. i - 1 = j - 1
      BY <2>1, <3>1
    <3> QED
      BY <3>2
  <2>5. CASE i < m /\ j > m
    <3>1. i \in 0..(n - 1) /\ j - 1 \in 0..(n - 1) /\ s[i] = s[j - 1] /\ i # j - 1
      BY <1>1, <1>2, <1>7, <2>5
    <3> QED
      BY <2>1, <3>1
  <2>6. CASE i > m /\ j < m
    <3>1. j \in 0..(n - 1) /\ i - 1 \in 0..(n - 1) /\ s[j] = s[i - 1] /\ j # i - 1
      BY <1>1, <1>2, <1>7, <2>6
    <3> QED
      BY <2>1, <3>1
  <2> QED
    BY <1>1, <2>2, <2>3, <2>4, <2>5, <2>6
<1>8. M.head = r[0]
  BY <1>1, <1>2 DEF Listed
<1>9. M.tail = r[(n + 1) - 1]
  <2>1. CASE m = n
    BY <1>1, <1>2, <2>1
  <2>2. CASE m < n
    <3>1. n \in (m + 1)..(n + 1) /\ n > 0 /\ (n + 1) - 1 = n
      BY <1>1, <2>2
    <3>2. r[n] = s[n - 1] /\ L.tail = s[n - 1]
      BY <1>2, <3>1 DEF Listed
    <3> QED
      BY <1>1, <2>2, <3>1, <3>2
  <2> QED
    BY <1>1, <2>1, <2>2
<1>10. ASSUME NEW i \in 1..n
       PROVE  M.prev[r[i]] = r[i - 1]
  <2>1. CASE i < m
    <3>1. /\ i \in 1..(n - 1) /\ i \in 0..(n - 1) /\ r[i] = s[i]
          /\ r[i - 1] = s[i - 1]
      BY <1>1, <1>2, <2>1
    <3>2. s[i] # s[m]
      <4>1. CASE m = n
        BY <1>1, <3>1, <4>1
      <4>2. CASE m < n
        <5>1. m \in 0..(n - 1) /\ i # m
          BY <1>1, <2>1, <4>2
        <5> QED
          BY <3>1, <5>1 DEF Listed
      <4> QED
        BY <1>1, <4>1, <4>2
    <3>3. M.prev[s[i]] = L.prev[s[i]]
      BY <1>1, <3>1, <3>2
    <3>4. L.prev[s[i]] = s[i - 1]
      BY <3>1 DEF Listed
    <3> QED
      BY <3>1, <3>3, <3>4
  <2>2. CASE i = m
    <3>1. m > 0 /\ m - 1 \in 0..(m - 1) /\ r[m - 1] = s[m - 1]
      BY <1>1, <1>2, <2>2
    <3> QED
      BY <1>2, <2>2, <3>1
  <2>3. CASE i = m + 1
    <3>1. m < n /\ i \in (m + 1)..(n + 1) /\ i - 1 = m
      BY <1>1, <2>3
    <3>2. r[i] = s[m]
      BY <1>2, <3>1
    <3> QED
      BY <1>2, <3>1, <3>2
  <2>4. CASE i > m + 1
    <3>1. /\ i \in (m + 1)..(n + 1) /\ i - 1 \in (m + 1)..(n + 1)
          /\ i - 1 \in 1..(n - 1) /\ i - 1 \in 0..(n - 1) /\ m \in 0..(n - 1)
          /\ i - 1 # m
      BY <1>1, <2>4
    <3>2. r[i] = s[i - 1] /\ r[i - 1] = s[(i - 1) - 1]
      BY <1>2, <3>1
    <3>3. s[i - 1] # s[m]
      BY <3>1 DEF Listed
    <3>4. M.prev[s[i - 1]] = L.prev[s[i - 1]]
      BY <1>1, <3>1, <3>3
    <3>5. L.prev[s[i - 1]] = s[(i - 1) - 1]
      BY <3>1 DEF Listed
    <3> QED
      BY <3>2, <3>4, <3>5
  <2> QED
    BY <1>1, <2>1, <2>2, <2>3, <2>4
<1>11. ASSUME NEW i \in 0..n, NEW j \in 0..n, i <= j
       PROVE  e[r[i]] <= e[r[j]]
  <2>1. \A k \in 0..n : r[k] \in Timers
    BY <1>6
  <2>2. e[r[i]] \in Nat /\ e[r[j]] \in Nat /\ e[t] \in Nat
    BY <2>1
  <2>3. \A k, l \in 0..(n - 1) : k <= l => e[s[k]] <= e[s[l]]
    BY DEF Listed
  <2>4. ASSUME NEW k \in 0..(m - 1)
        PROVE  e[s[k]] <= e[t]
    <3>1. m > 0 /\ m - 1 \in 0..(n - 1) /\ k \in 0..(n - 1) /\ k <= m - 1
      BY <1>1
    <3>2. e[s[k]] <= e[s[m - 1]] /\ e[s[m - 1]] <= e[t]
      BY <2>3, <3>1
    <3>3. e[s[k]] \in Nat /\ e[s[m - 1]] \in Nat /\ e[t] \in Nat
      BY <1>1, <3>1
    <3> QED
      BY <3>2, <3>3
  <2>5. ASSUME NEW k \in m..(n - 1)
        PROVE  e[t] <= e[s[k]]
    <3>1. m < n /\ m \in 0..(n - 1) /\ k \in 0..(n - 1) /\ m <= k
      BY <1>1
    <3>2. e[s[m]] <= e[s[k]] /\ e[t] <= e[s[m]]
      BY <2>3, <3>1
    <3>3. e[s[k]] \in Nat /\ e[s[m]] \in Nat /\ e[t] \in Nat
      BY <1>1, <3>1
    <3> QED
      BY <3>2, <3>3
  <2>6. CASE i < m /\ j < m
    BY <1>1, <1>2, <1>11, <2>3, <2>6
  <2>7. CASE i < m /\ j = m
    BY <1>1, <1>2, <2>4, <2>7
  <2>8. CASE i < m /\ j > m
    <3>1. /\ i \in 0..(n - 1) /\ j - 1 \in 0..(n - 1) /\ i <= j - 1
          /\ r[i] = s[i] /\ r[j] = s[j - 1]
      BY <1>1, <1>2, <2>8
    <3> QED
      BY <2>3, <3>1
  <2>9. CASE i = m /\ j = m
    BY <2>2, <2>9
  <2>10. CASE i = m /\ j > m
    <3>1. j - 1 \in m..(n - 1) /\ r[j] = s[j - 1] /\ r[i] = t
      BY <1>1, <1>2, <2>10
    <3> QED
      BY <2>5, <3>1
  <2>11. CASE i > m
    <3>1. /\ i - 1 \in 0..(n - 1) /\ j - 1 \in 0..(n - 1) /\ i - 1 <= j - 1
          /\ r[i] = s[i - 1] /\ r[j] = s[j - 1]
      BY <1>1, <1>2, <1>11, <2>11
    <3> QED
      BY <2>3, <3>1
  <2> QED
    BY <1>1, <1>11, <2>6, <2>7, <2>8, <2>9, <2>10, <2>11
<1>12. n + 1 \in Nat /\ (n + 1) - 1 = n
  BY <1>1
<1> QED
  BY <1>2, <1>3, <1>5, <1>6, <1>7, <1>8, <1>9, <1>10, <1>11, <1>12 DEF Listed, r

\* If M is L with the node at position m unlinked, M lists the other nodes; the
\* prev of the new head may be anything, and so may the tail of an empty list.
LEMMA LinkOut ==
    ASSUME NEW L \in Lists, NEW M \in Lists, NEW e, NEW f, NEW H, NEW n, NEW s,
           Listed(L, e, H, n, s), NEW m \in 0..(n - 1),
           \A x \in H : x # s[m] => f[x] = e[x],
           M.head = IF m = 0 THEN s[1] ELSE L.head,
           n > 1 => M.tail = IF m = n - 1 THEN s[m - 1] ELSE L.tail,
           m > 0 => M.next[s[m - 1]] = s[m + 1],
           \A x \in H : x # s[m] /\ (m > 0 => x # s[m - 1]) => M.next[x] = L.next[x],
           0 < m /\ m < n - 1 => M.prev[s[m + 1]] = s[m - 1],
           \A x \in H : x # s[m] /\ x # s[m + 1] => M.prev[x] = L.prev[x]
    PROVE  Listed(M, f, H \ {s[m]}, n - 1, Removed(s, n, m))
<1> DEFINE r == Removed(s, n, m)
<1>1. /\ n \in Nat /\ n > 0 /\ n - 1 \in Nat /\ m \in Nat /\ m < n
      /\ s \in [0..n -> Pointers] /\ s[n] = NULL
      /\ NULL \notin Timers
      /\ \A i \in 0..(n - 1) : s[i] \in H /\ s[i] \in Timers
  BY TimerListAssumption DEF Listed
<1>2. /\ r \in [0..(n - 1) -> Pointers]
      /\ \A i \in 0..(m - 1) : r[i] = s[i]
      /\ \A i \in m..(n - 1) : r[i] = s[i + 1]
  BY <1>1 DEF Removed, Pointers
<1> HIDE DEF r
<1>3. r[n - 1] = NULL
  <2>1. n - 1 \in m..(n - 1) /\ (n - 1) + 1 = n
    BY <1>1
  <2> QED
    BY <1>1, <1>2, <2>1
<1>4. \A k, l \in 0..(n - 1) : s[k] = s[l] => k = l
  BY DEF Listed
<1>5. \A i \in 0..(n - 2) :
         \/ i \in 0..(m - 1) /\ i \in 0..(n - 1) /\ r[i] = s[i] /\ i # m
         \/ i \in m..(n - 2) /\ i + 1 \in 0..(n - 1) /\ r[i] = s[i + 1] /\ i + 1 # m
  BY <1>1, <1>2
<1>6. \A i \in 0..(n - 2) : r[i] \in H /\ r[i] # s[m] /\ r[i] \in Timers
  BY <1>1, <1>4, <1>5
<1>7. H \ {s[m]} = {r[i] : i \in 0..(n - 2)}
  <2>1. ASSUME NEW x \in H, x # s[m]
        PROVE  \E i \in 0..(n - 2) : r[i] = x
    <3>1. PICK i \in 0..(n - 1) : s[i] = x
      BY DEF Listed
    <3>2. CASE i < m
      <4>1. i \in 0..(m - 1) /\ i \in 0..(n - 2)
        BY <1>1, <3>2
      <4> QED
        BY <1>2, <3>1, <4>1
    <3>3. CASE i > m
      <4>1. i - 1 \in m..(n - 1) /\ i - 1 \in 0..(n - 2) /\ (i - 1) + 1 = i
        BY <1>1, <3>3
      <4>2. r[i - 1] = s[i]
        BY <1>2, <4>1
      <4> QED
        BY <3>1, <4>1, <4>2
    <3>4. i # m
      BY <2>1, <3>1
    <3> QED
      BY <1>1, <3>2, <3>3, <3>4
  <2> QED
    BY <1>6, <2>1
<1>8. ASSUME NEW i \in 0..(n - 2)
      PROVE  M.next[r[i]] = r[i + 1]
  <2>1. CASE i < m - 1
    <3>1. /\ i \in 0..(m - 1) /\ i + 1 \in 0..(m - 1) /\ i \in 0..(n - 1)
          /\ m > 0 /\ m - 1 \in 0..(n - 1) /\ i # m - 1 /\ i # m
      BY <1>1, <2>1
    <3>2. r[i] = s[i] /\ r[i + 1] = s[i + 1]
      BY <1>2, <3>1
    <3>3. s[i] # s[m - 1] /\ s[i] # s[m]
      BY <1>4, <3>1
    <3>4. M.next[s[i]] = L.next[s[i]]
      BY <1>1, <3>1, <3>3
    <3>5. L.next[s[i]] = s[i + 1]
      BY <3>1 DEF Listed
    <3> QED
      BY <3>2, <3>4, <3>5
  <2>2. CASE i = m - 1
    <3>1. /\ i \in 0..(m - 1) /\ m > 0 /\ i + 1 = m /\ m \in m..(n - 1)
      BY <1>1, <2>2
    <3>2. r[i] = s[m - 1] /\ r[i + 1] = s[m + 1]
      BY <1>2, <2>2, <3>1
    <3> QED
      BY <3>1, <3>2
  <2>3. CASE i >= m
    <3>1. /\ i \in m..(n - 1) /\ i + 1 \in m..(n - 1) /\ i + 1 \in 0..(n - 1)
          /\ i + 1 # m /\ (m > 0 => m - 1 \in 0..(n - 1) /\ i + 1 # m - 1)
      BY <1>1, <2>3
    <3>2. r[i] = s[i + 1] /\ r[i + 1] = s[(i + 1) + 1]
      BY <1>2, <3>1
    <3>3. s[i + 1] # s[m] /\ (m > 0 => s[i + 1] # s[m - 1])
      BY <1>4, <3>1
    <3>4. M.next[s[i + 1]] = L.next[s[i + 1]]
      BY <1>1, <3>1, <3>3
    <3>5. L.next[s[i + 1]] = s[(i + 1) + 1]
      BY <3>1 DEF Listed
    <3> QED
      BY <3>2, <3>4, <3>5
  <2> QED
    BY <1>1, <2>1, <2>2, <2>3
<1>9. ASSUME NEW i \in 0..(n - 2), NEW j \in 0..(n - 2), r[i] = r[j]
      PROVE  i = j
  <2>1. CASE i < m /\ j < m
    BY <1>1, <1>2, <1>4, <1>9, <2>1
  <2>2. CASE i >= m /\ j >= m
    <3>1. i + 1 \in 0..(n - 1) /\ j + 1 \in 0..(n - 1) /\ s[i + 1] = s[j + 1]
      BY <1>1, <1>2, <1>9, <2>2
    <3>2. i + 1 = j + 1
      BY <1>4, <3>1
    <3> QED
      BY <3>2
  <2>3. CASE i < m /\ j >= m
    <3>1. i \in 0..(n - 1) /\ j + 1 \in 0..(n - 1) /\ s[i] = s[j + 1] /\ i # j + 1
      BY <1>1, <1>2, <1>9, <2>3
    <3> QED
      BY <1>4, <3>1
  <2>4. CASE i >= m /\ j < m
    <3>1. j \in 0..(n - 1) /\ i + 1 \in 0..(n - 1) /\ s[j] = s[i + 1] /\ j # i + 1
      BY <1>1, <1>2, <1>9, <2>4
    <3> QED
      BY <1>4, <3>1
  <2> QED
    BY <1>1, <2>1, <2>2, <2>3, <2>4
<1>10. M.head = r[0]
  <2>1. CASE m = 0
    <3>1. 0 \in m..(n - 1) /\ 0 + 1 = 1
      BY <1>1, <2>1
    <3> QED
      BY <1>2, <2>1, <3>1
  <2>2. CASE m > 0
    <3>1. 0 \in 0..(m - 1)
      BY <1>1, <2>2
    <3> QED
      BY <1>2, <2>2, <3>1 DEF Listed
  <2> QED
    BY <1>1, <2>1, <2>2
<1>11. n - 1 > 0 => M.tail = r[(n - 1) - 1]
  <2> SUFFICES ASSUME n > 1
               PROVE  M.tail = r[n - 2]
    BY <1>1
  <2>1. CASE m = n - 1
    <3>1. n - 2 \in 0..(m - 1) /\ m - 1 = n - 2
      BY <1>1, <2>1
    <3> QED
      BY <1>2, <2>1, <3>1
  <2>2. CASE m < n - 1
    <3>1. n - 2 \in m..(n - 1) /\ (n - 2) + 1 = n - 1 /\ m # n - 1
      BY <1>1, <2>2
    <3>2. M.tail = L.tail
      BY <3>1
    <3>3. L.tail = s[n - 1]
      BY <1>1 DEF Listed
    <3> QED
      BY <1>2, <3>1, <3>2, <3>3
  <2> QED
    BY <1>1, <2>1, <2>2
<1>12. ASSUME NEW i \in 1..(n - 2)
       PROVE  M.prev[r[i]] = r[i - 1]
  <2>1. CASE i < m
    <3>1. /\ i \in 0..(m - 1) /\ i - 1 \in 0..(m - 1) /\ i \in 1..(n - 1)
          /\ i \in 0..(n - 1) /\ i # m
      BY <1>1, <2>1
    <3>2. r[i] = s[i] /\ r[i - 1] = s[i - 1] /\ s[i] # s[m]
      BY <1>2, <1>4, <3>1
    <3>3. s[i] # s[m + 1]
      <4>1. CASE m = n - 1
        BY <1>1, <3>1, <4>1
      <4>2. CASE m < n - 1
        <5>1. m + 1 \in 0..(n - 1) /\ i # m + 1
          BY <1>1, <2>1, <4>2
        <5> QED
          BY <1>4, <3>1, <5>1
      <4> QED
        BY <1>1, <4>1, <4>2
    <3>4. M.prev[s[i]] = L.prev[s[i]]
      BY <1>1, <3>1, <3>2, <3>3
    <3>5. L.prev[s[i]] = s[i - 1]
      BY <3>1 DEF Listed
    <3> QED
      BY <3>2, <3>4, <3>5
  <2>2. CASE i = m
    <3>1. /\ i \in m..(n - 1) /\ i - 1 \in 0..(m - 1) /\ 0 < m /\ m < n - 1
      BY <1>1, <2>2
    <3>2. r[i] = s[m + 1] /\ r[i - 1] = s[m - 1]
      BY <1>2, <2>2, <3>1
    <3> QED
      BY <3>1, <3>2
  <2>3. CASE i > m
    <3>1. /\ i \in m..(n - 1) /\ i - 1 \in m..(n - 1) /\ (i - 1) + 1 = i
          /\ i + 1 \in 1..(n - 1) /\ i + 1 \in 0..(n - 1) /\ m + 1 \in 0..(n - 1)
          /\ i + 1 # m /\ i + 1 # m + 1 /\ (i + 1) - 1 = i
      BY <1>1, <2>3
    <3>2. r[i] = s[i + 1] /\ r[i - 1] = s[i]
      BY <1>2, <3>1
    <3>3. s[i + 1] # s[m] /\ s[i + 1] # s[m + 1]
      BY <1>4, <3>1
    <3>4. M.prev[s[i + 1]] = L.prev[s[i + 1]]
      BY <1>1, <3>1, <3>3
    <3>5. L.prev[s[i + 1]] = s[(i + 1) - 1]
      BY <3>1 DEF Listed
    <3> QED
      BY <3>1, <3>2, <3>4, <3>5
  <2> QED
    BY <1>1, <2>1, <2>2, <2>3
<1>13. ASSUME NEW i \in 0..(n - 2), NEW j \in 0..(n - 2), i <= j
       PROVE  f[r[i]] <= f[r[j]]
  <2>1. \A k, l \in 0..(n - 1) : k <= l => e[s[k]] <= e[s[l]]
    BY DEF Listed
  <2>2. f[r[i]] = e[r[i]] /\ f[r[j]] = e[r[j]]
    BY <1>6
  <2>3. CASE i < m /\ j < m
    <3>1. i \in 0..(n - 1) /\ j \in 0..(n - 1) /\ r[i] = s[i] /\ r[j] = s[j]
      BY <1>1, <1>2, <2>3
    <3> QED
      BY <1>13, <2>1, <2>2, <3>1
  <2>4. CASE i < m /\ j >= m
    <3>1. /\ i \in 0..(n - 1) /\ j + 1 \in 0..(n - 1) /\ i <= j + 1
          /\ r[i] = s[i] /\ r[j] = s[j + 1]
      BY <1>1, <1>2, <2>4
    <3> QED
      BY <2>1, <2>2, <3>1
  <2>5. CASE i >= m
    <3>1. /\ i + 1 \in 0..(n - 1) /\ j + 1 \in 0..(n - 1) /\ i + 1 <= j + 1
          /\ r[i] = s[i + 1] /\ r[j] = s[j + 1]
      BY <1>1, <1>2, <1>13, <2>5
    <3> QED
      BY <2>1, <2>2, <3>1
  <2> QED
    BY <1>1, <2>3, <2>4, <2>5
<1>14. (n - 1) - 1 = n - 2
  BY <1>1
<1> QED
  BY <1>1, <1>2, <1>3, <1>6, <1>7, <1>8, <1>9, <1>10, <1>11, <1>12, <1>13, <1>14
     DEF Listed, r

-----------------------------------------------------------------------------
(* The member functions, one by one.                                        *)

\* Fields and members of a list.
LEMMA ListsFields ==
    ASSUME NEW L \in Lists
    PROVE  /\ L.head \in Pointers /\ L.tail \in Pointers
           /\ L.next \in [Timers -> Pointers] /\ L.prev \in [Timers -> Pointers]
BY DEF Lists

\* InsertAfter from a node that does not expire after t puts t in its place.
LEMMA InsertAfterListed ==
    ASSUME NEW L \in Lists, NEW e \in [Timers -> Nat],
           NEW H, NEW n, NEW s, Listed(L, e, H, n, s),
           NEW t \in Timers, t \notin H, NEW j \in 0..(n - 1), e[s[j]] <= e[t]
    PROVE  /\ InsertAfter(L, e, t, s[j]) \in Lists
           /\ \E r : Listed(InsertAfter(L, e, t, s[j]), e, H \cup {t}, n + 1, r)
<1> DEFINE w == Walk(L, s[j])
           Q == {i \in 1..(N + 1) : w[i] = NULL \/ e[w[i]] > e[t]}
           k == Min(Q)
           m == j + k
           M == InsertAfter(L, e, t, s[j])
<1>1. /\ N \in Nat /\ n \in Nat /\ n <= N /\ j \in Nat /\ j < n /\ j \in 0..n
      /\ s[n] = NULL /\ NULL \notin Timers
      /\ \A i \in 0..(n - 1) : s[i] \in H /\ s[i] \in Timers /\ s[i] # t
      /\ s \in [0..n -> Pointers]
  <2>1. n <= N /\ N \in Nat
    BY Constants, ListedCardinality
  <2> QED
    BY <2>1, TimerListAssumption DEF Listed
<1>2. \A i \in 0..(N + 1) : w[i] = IF j + i <= n THEN s[j + i] ELSE NULL
  <2>1. j \in 0..n
    BY <1>1
  <2> QED
    BY <2>1, WalkListed
<1> HIDE DEF w
<1>3. n - j \in Q
  <2>1. n - j \in 0..(N + 1) /\ n - j \in 1..(N + 1) /\ j + (n - j) = n
    BY <1>1
  <2>2. w[n - j] = NULL
    BY <1>1, <1>2, <2>1
  <2> QED
    BY <2>1, <2>2
<1>4. k \in Q /\ \A i \in Q : k <= i
  <2>1. Q \in SUBSET Nat
    BY <1>1
  <2> HIDE DEF Q
  <2> QED
    BY <1>3, <2>1, MinNat
<1>5. /\ k \in Nat /\ k >= 1 /\ k <= n - j /\ m \in 1..n /\ m \in 0..n
      /\ k \in 0..(N + 1) /\ k - 1 \in 0..(N + 1) /\ m - 1 \in 0..(n - 1)
      /\ j + (k - 1) = m - 1 /\ m - 1 <= n
  <2>1. k \in 1..(N + 1) /\ k <= n - j
    BY <1>3, <1>4
  <2> HIDE DEF k
  <2> QED
    BY <1>1, <2>1
<1>6. w[k] = s[m] /\ w[k - 1] = s[m - 1]
  BY <1>1, <1>2, <1>5
<1>7. m < n => e[t] <= e[s[m]]
  <2> SUFFICES ASSUME m < n
               PROVE  e[t] <= e[s[m]]
    OBVIOUS
  <2>1. s[m] \in Timers /\ s[m] # NULL
    BY <1>1, <1>5
  <2>2. e[s[m]] > e[t]
    BY <1>4, <1>6, <2>1
  <2>3. e[s[m]] \in Nat /\ e[t] \in Nat
    BY <2>1
  <2> QED
    BY <2>2, <2>3
<1>8. e[s[m - 1]] <= e[t]
  <2>1. CASE k = 1
    BY <1>1, <2>1
  <2>2. CASE k # 1
    <3>1. k - 1 \in 1..(N + 1) /\ ~(k <= k - 1)
      BY <1>1, <1>5, <2>2
    <3>2. k - 1 \notin Q
      BY <1>4, <3>1
    <3>3. ~(e[s[m - 1]] > e[t])
      BY <1>6, <3>1, <3>2
    <3>4. e[s[m - 1]] \in Nat /\ e[t] \in Nat
      BY <1>1, <1>5
    <3> QED
      BY <3>3, <3>4
  <2> QED
    BY <2>1, <2>2
<1>9. /\ M = [ head |-> L.head,
               tail |-> IF s[m] = NULL THEN t ELSE L.tail,
               next |-> [L.next EXCEPT ![t] = s[m], ![s[m - 1]] = t],
               prev |-> [x \in Timers |-> CASE x = t    -> s[m - 1]
                                            [] x = s[m] -> t
                                            [] OTHER    -> L.prev[x]] ]
  <2>1. M = [ head |-> L.head,
              tail |-> IF w[k] = NULL THEN t ELSE L.tail,
              next |-> [L.next EXCEPT ![t] = w[k], ![w[k - 1]] = t],
              prev |-> [x \in Timers |-> CASE x = t    -> w[k - 1]
                                           [] x = w[k] -> t
                                           [] OTHER    -> L.prev[x]] ]
    BY Zenon DEF InsertAfter, w
  <2> HIDE DEF M, k, Q
  <2>2. ASSUME NEW suc, NEW pre, w[k] = suc, w[k - 1] = pre
        PROVE  M = [ head |-> L.head,
                     tail |-> IF suc = NULL THEN t ELSE L.tail,
                     next |-> [L.next EXCEPT ![t] = suc, ![pre] = t],
                     prev |-> [x \in Timers |-> CASE x = t   -> pre
                                                  [] x = suc -> t
                                                  [] OTHER   -> L.prev[x]] ]
    BY <2>1, <2>2
  <2> QED
    BY <1>6, <2>2
<1> HIDE DEF M, k, Q
<1>10. L.next \in [Timers -> Pointers] /\ L.prev \in [Timers -> Pointers]
       /\ L.head \in Pointers /\ L.tail \in Pointers
  BY ListsFields
<1>11. s[m] \in Pointers /\ s[m - 1] \in Timers /\ s[m - 1] \in Pointers
       /\ s[m - 1] # t /\ s[m] # t /\ t \in Pointers
  <2>1. s[m] # t
    <3>1. CASE m = n
      BY <1>1, <3>1
    <3>2. CASE m < n
      BY <1>1, <1>5, <3>2
    <3> QED
      BY <1>1, <1>5, <3>1, <3>2
  <2> QED
    BY <1>1, <1>5, <2>1 DEF Pointers
<1> HIDE DEF m
<1>12. /\ M.head = L.head
       /\ M.tail = IF s[m] = NULL THEN t ELSE L.tail
       /\ M.next[t] = s[m] /\ M.next[s[m - 1]] = t
       /\ \A x \in Timers : x # t /\ x # s[m - 1] => M.next[x] = L.next[x]
       /\ M.next \in [Timers -> Pointers]
  BY <1>9, <1>10, <1>11
<1>13. /\ M.prev[t] = s[m - 1]
       /\ s[m] \in Timers => M.prev[s[m]] = t
       /\ \A x \in Timers : x # t /\ x # s[m] => M.prev[x] = L.prev[x]
       /\ M.prev \in [Timers -> Pointers]
  <2>1. M.prev = [x \in Timers |-> CASE x = t    -> s[m - 1]
                                     [] x = s[m] -> t
                                     [] OTHER    -> L.prev[x]]
    BY <1>9
  <2>2. \A x \in Timers : x = t => M.prev[x] = s[m - 1]
    BY <1>11, <2>1
  <2>3. \A x \in Timers : x = s[m] => M.prev[x] = t
    BY <1>11, <2>1
  <2>4. \A x \in Timers : x # t /\ x # s[m] => M.prev[x] = L.prev[x]
    BY <1>11, <2>1
  <2>5. \A x \in Timers : M.prev[x] \in Pointers
    BY <1>10, <1>11, <2>2, <2>3, <2>4
  <2>6. M.prev \in [Timers -> Pointers]
    BY <2>1, <2>5
  <2> QED
    BY <2>2, <2>3, <2>4, <2>6
<1>14. M \in Lists
  <2>1. M.head \in Pointers /\ M.tail \in Pointers
    BY <1>10, <1>11, <1>12
  <2> QED
    BY <1>9, <1>12, <1>13, <2>1 DEF Lists
<1>15. H \subseteq Timers /\ \A x \in H : x # t
  BY ListedCardinality
<1>16. /\ M.head = IF m = 0 THEN t ELSE L.head
       /\ M.tail = IF m = n THEN t ELSE L.tail
       /\ m < n => M.prev[s[m]] = t
  <2>1. s[m] = NULL <=> m = n
    BY <1>1, <1>5
  <2>2. m < n => s[m] \in Timers
    BY <1>1, <1>5
  <2> QED
    BY <1>5, <1>12, <1>13, <2>1, <2>2
<1>17. /\ \A x \in H : (m > 0 => x # s[m - 1]) => M.next[x] = L.next[x]
       /\ \A x \in H : x # s[m] => M.prev[x] = L.prev[x]
  BY <1>5, <1>12, <1>13, <1>15
<1>18. Listed(M, e, H \cup {t}, n + 1, Inserted(s, n, m, t))
  BY <1>5, <1>7, <1>8, <1>12, <1>13, <1>14, <1>16, <1>17, LinkIn
<1> QED
  BY <1>14, <1>18 DEF M

\* Assigning one link of a list.
LEMMA SetNext ==
    ASSUME NEW L \in Lists, NEW x \in Timers, NEW p \in Pointers
    PROVE  /\ [L EXCEPT !.next[x] = p] \in Lists
           /\ [L EXCEPT !.next[x] = p].head = L.head
           /\ [L EXCEPT !.next[x] = p].tail = L.tail
           /\ [L EXCEPT !.next[x] = p].prev = L.prev
           /\ [L EXCEPT !.next[x] = p].next[x] = p
           /\ \A y \in Timers : y # x => [L EXCEPT !.next[x] = p].next[y] = L.next[y]
BY DEF Lists

LEMMA SetPrev ==
    ASSUME NEW L \in Lists, NEW x \in Timers, NEW p \in Pointers
    PROVE  /\ [L EXCEPT !.prev[x] = p] \in Lists
           /\ [L EXCEPT !.prev[x] = p].head = L.head
           /\ [L EXCEPT !.prev[x] = p].tail = L.tail
           /\ [L EXCEPT !.prev[x] = p].next = L.next
           /\ [L EXCEPT !.prev[x] = p].prev[x] = p
           /\ \A y \in Timers : y # x => [L EXCEPT !.prev[x] = p].prev[y] = L.prev[y]
BY DEF Lists

LEMMA SetEnd ==
    ASSUME NEW L \in Lists, NEW p \in Pointers
    PROVE  /\ [L EXCEPT !.head = p] \in Lists
           /\ [L EXCEPT !.head = p].head = p
           /\ [L EXCEPT !.head = p].tail = L.tail
           /\ [L EXCEPT !.head = p].next = L.next
           /\ [L EXCEPT !.head = p].prev = L.prev
           /\ [L EXCEPT !.tail = p] \in Lists
           /\ [L EXCEPT !.tail = p].head = L.head
           /\ [L EXCEPT !.tail = p].tail = p
           /\ [L EXCEPT !.tail = p].next = L.next
           /\ [L EXCEPT !.tail = p].prev = L.prev
BY DEF Lists

\* The first and the last node of a listing.
LEMMA Ends ==
    ASSUME NEW L, NEW e, NEW H, NEW n, NEW s, Listed(L, e, H, n, s)
    PROVE  /\ n \in Nat /\ NULL \notin Timers
           /\ L.head = NULL <=> n = 0
           /\ n > 0 => L.head = s[0] /\ L.head \in H /\ L.head \in Timers
           /\ n > 0 => L.tail = s[n - 1] /\ L.tail \in H /\ L.tail \in Timers
BY TimerListAssumption DEF Listed

\* add_timer links a node whose next is NULL in its place.
LEMMA AddTimerListed ==
    ASSUME NEW L \in Lists, NEW e \in [Timers -> Nat],
           NEW H, NEW n, NEW s, Listed(L, e, H, n, s),
           NEW t \in Timers, t \notin H, L.next[t] = NULL
    PROVE  /\ add_timer(L, e, t) \in Lists
           /\ \E r : Listed(add_timer(L, e, t), e, H \cup {t}, n + 1, r)
<1> DEFINE M == add_timer(L, e, t)
<1>1. /\ n \in Nat /\ NULL \notin Timers /\ s[n] = NULL
      /\ L.head = NULL <=> n = 0
      /\ n > 0 => L.head = s[0] /\ L.head \in H /\ L.head \in Timers
      /\ \A x \in H : x \in Timers /\ x # t
  <2>1. H \subseteq Timers
    BY ListedCardinality
  <2>2. s[n] = NULL
    BY DEF Listed
  <2> QED
    BY <2>1, <2>2, Ends
<1>2. CASE L.head = NULL
  <2>1. M = [L EXCEPT !.head = t, !.tail = t]
    BY <1>2 DEF add_timer
  <2>2. /\ M \in Lists /\ M.head = t /\ M.tail = t
        /\ M.next = L.next /\ M.prev = L.prev
    BY <2>1 DEF Lists, Pointers
  <2> HIDE DEF M
  <2>3. n = 0 /\ 0 \in 0..n /\ H = {}
    BY <1>1, <1>2 DEF Listed
  <2>4. Listed(M, e, H \cup {t}, n + 1, Inserted(s, n, 0, t))
    BY <1>1, <2>2, <2>3, LinkIn
  <2> QED
    BY <2>2, <2>4 DEF M
<1>3. CASE L.head # NULL /\ e[t] < e[L.head]
  <2>1. M = [L EXCEPT !.next[t] = L.head, !.prev[L.head] = t, !.head = t]
    BY <1>3 DEF add_timer
  <2>2. n > 0 /\ 0 \in 0..n /\ L.head = s[0] /\ L.head \in Timers /\ L.head \in Pointers
        /\ t \in Pointers /\ t # L.head
    BY <1>1, <1>3 DEF Pointers
  <2>3. /\ M \in Lists /\ M.head = t /\ M.tail = L.tail
        /\ M.next[t] = L.head /\ M.prev[L.head] = t
        /\ \A x \in Timers : x # t => M.next[x] = L.next[x]
        /\ \A x \in Timers : x # L.head => M.prev[x] = L.prev[x]
    <3> DEFINE A == [L EXCEPT !.next[t] = L.head]
               B == [A EXCEPT !.prev[L.head] = t]
    <3>1. M = [B EXCEPT !.head = t]
      BY <2>1
    <3> HIDE DEF M
    <3>2. /\ A \in Lists /\ A.tail = L.tail /\ A.next[t] = L.head /\ A.prev = L.prev
          /\ \A x \in Timers : x # t => A.next[x] = L.next[x]
      BY <2>2, SetNext
    <3> HIDE DEF A
    <3>3. /\ B \in Lists /\ B.tail = A.tail /\ B.next = A.next /\ B.prev[L.head] = t
          /\ \A x \in Timers : x # L.head => B.prev[x] = A.prev[x]
      BY <2>2, <3>2, SetPrev
    <3> HIDE DEF B
    <3>4. /\ M \in Lists /\ M.head = t /\ M.tail = B.tail /\ M.next = B.next
          /\ M.prev = B.prev
      BY <2>2, <3>1, <3>3, SetEnd
    <3> QED
      BY <2>2, <3>2, <3>3, <3>4
  <2> HIDE DEF M
  <2>4. e[t] <= e[s[0]]
    BY <1>3, <2>2
  <2>5. Listed(M, e, H \cup {t}, n + 1, Inserted(s, n, 0, t))
    BY <1>1, <2>2, <2>3, <2>4, LinkIn
  <2> QED
    BY <2>3, <2>5 DEF M
<1>4. CASE L.head # NULL /\ ~(e[t] < e[L.head])
  <2>1. M = InsertAfter(L, e, t, L.head)
    BY <1>4 DEF add_timer
  <2>2. n > 0 /\ 0 \in 0..(n - 1) /\ L.head = s[0] /\ L.head \in Timers
    BY <1>1, <1>4
  <2>3. e[s[0]] <= e[t]
    BY <1>4, <2>2
  <2> HIDE DEF M
  <2> QED
    BY <2>1, <2>2, <2>3, InsertAfterListed DEF M
<1> QED
  BY <1>2, <1>3, <1>4

\* delete_timer unlinks a node of the list.
LEMMA DeleteTimerListed ==
    ASSUME NEW L \in Lists, NEW e, NEW H, NEW n, NEW s, Listed(L, e, H, n, s),
           NEW t \in H
    PROVE  /\ delete_timer(L, t) \in Lists
           /\ \E r : Listed(delete_timer(L, t), e, H \ {t}, n - 1, r)
<1> DEFINE M == delete_timer(L, t)
<1>1. PICK m \in 0..(n - 1) : s[m] = t
  BY DEF Listed
<1>2. /\ n \in Nat /\ n > 0 /\ m \in Nat /\ m <= n - 1
      /\ NULL \notin Timers /\ NULL \in Pointers /\ Timers \subseteq Pointers
      /\ t \in Timers /\ L.head = s[0] /\ L.tail = s[n - 1] /\ s[n] = NULL
      /\ \A i \in 0..(n - 1) : s[i] \in H /\ s[i] \in Timers /\ L.next[s[i]] = s[i + 1]
      /\ \A i \in 1..(n - 1) : L.prev[s[i]] = s[i - 1]
      /\ \A i, k \in 0..(n - 1) : s[i] = s[k] => i = k
      /\ H \subseteq Timers
  <2>1. H \subseteq Timers
    BY ListedCardinality
  <2>2. n \in Nat /\ n > 0 /\ m \in Nat /\ m <= n - 1
    BY DEF Listed
  <2>3. NULL \notin Timers /\ NULL \in Pointers /\ Timers \subseteq Pointers
    BY TimerListAssumption DEF Pointers
  <2> QED
    BY <2>1, <2>2, <2>3 DEF Listed
<1>3. /\ t = L.head <=> m = 0
      /\ t = L.tail <=> m = n - 1
  <2>1. 0 \in 0..(n - 1) /\ n - 1 \in 0..(n - 1)
    BY <1>2
  <2> QED
    BY <1>1, <1>2, <2>1
<1>4. L.next[t] = s[m + 1] /\ (m > 0 => L.prev[t] = s[m - 1])
  BY <1>1, <1>2
<1>5. M \in Lists /\ Listed(M, e, H \ {t}, n - 1, Removed(s, n, m))
  <2>1. CASE m = 0 /\ m = n - 1
    <3>1. M = [L EXCEPT !.head = NULL, !.tail = NULL]
      BY <1>3, <2>1 DEF delete_timer
    <3>2. /\ M \in Lists /\ M.head = NULL /\ M.next = L.next /\ M.prev = L.prev
      BY <1>2, <3>1 DEF Lists
    <3> HIDE DEF M
    <3>3. n = 1 /\ s[1] = NULL
      BY <1>2, <2>1
    <3> QED
      BY <1>1, <1>2, <2>1, <3>2, <3>3, LinkOut
  <2>2. CASE m = 0 /\ m < n - 1
    <3>1. M = [L EXCEPT !.head = s[1], !.prev[s[1]] = NULL]
      BY <1>3, <1>4, <2>2 DEF delete_timer
    <3>2. s[1] \in Timers /\ s[m + 1] = s[1]
      BY <1>2, <2>2
    <3>3. /\ M \in Lists /\ M.head = s[1] /\ M.tail = L.tail /\ M.next = L.next
          /\ \A x \in Timers : x # s[1] => M.prev[x] = L.prev[x]
      <4> DEFINE A == [L EXCEPT !.head = s[1]]
      <4>1. M = [A EXCEPT !.prev[s[1]] = NULL] /\ s[1] \in Pointers
        BY <1>2, <3>1, <3>2
      <4> HIDE DEF M
      <4>2. A \in Lists /\ A.head = s[1] /\ A.tail = L.tail /\ A.next = L.next
            /\ A.prev = L.prev
        BY <4>1, SetEnd
      <4> HIDE DEF A
      <4>3. /\ M \in Lists /\ M.head = A.head /\ M.tail = A.tail /\ M.next = A.next
            /\ \A x \in Timers : x # s[1] => M.prev[x] = A.prev[x]
        BY <1>2, <3>2, <4>1, <4>2, SetPrev
      <4> QED
        BY <4>2, <4>3
    <3> HIDE DEF M
    <3> QED
      BY <1>1, <1>2, <2>2, <3>2, <3>3, LinkOut
  <2>3. CASE m > 0 /\ m = n - 1
    <3>1. M = [L EXCEPT !.tail = s[m - 1], !.next[s[m - 1]] = NULL]
      <4>1. t # L.head /\ t = L.tail /\ L.prev[t] = s[m - 1]
        BY <1>3, <1>4, <2>3
      <4>2. M = [L EXCEPT !.tail = L.prev[t], !.next[L.prev[t]] = NULL]
        BY <4>1, Zenon DEF delete_timer
      <4> HIDE DEF M
      <4> QED
        BY <4>1, <4>2
    <3>2. s[m - 1] \in Timers /\ s[m + 1] = NULL
      BY <1>2, <2>3
    <3>3. /\ M \in Lists /\ M.head = L.head /\ M.tail = s[m - 1] /\ M.prev = L.prev
          /\ M.next[s[m - 1]] = NULL
          /\ \A x \in Timers : x # s[m - 1] => M.next[x] = L.next[x]
      <4> DEFINE A == [L EXCEPT !.tail = s[m - 1]]
      <4>1. M = [A EXCEPT !.next[s[m - 1]] = NULL] /\ s[m - 1] \in Pointers
        BY <1>2, <3>1, <3>2
      <4> HIDE DEF M
      <4>2. A \in Lists /\ A.head = L.head /\ A.tail = s[m - 1] /\ A.next = L.next
            /\ A.prev = L.prev
        BY <4>1, SetEnd
      <4> HIDE DEF A
      <4>3. /\ M \in Lists /\ M.head = A.head /\ M.tail = A.tail /\ M.prev = A.prev
            /\ M.next[s[m - 1]] = NULL
            /\ \A x \in Timers : x # s[m - 1] => M.next[x] = A.next[x]
        BY <1>2, <3>2, <4>1, <4>2, SetNext
      <4> QED
        BY <4>2, <4>3
    <3> HIDE DEF M
    <3> QED
      BY <1>1, <1>2, <2>3, <3>2, <3>3, LinkOut
  <2>4. CASE m > 0 /\ m < n - 1
    <3>1. M = [L EXCEPT !.next[s[m - 1]] = s[m + 1], !.prev[s[m + 1]] = s[m - 1]]
      <4>1. t # L.head /\ t # L.tail /\ L.prev[t] = s[m - 1] /\ L.next[t] = s[m + 1]
        BY <1>3, <1>4, <2>4
      <4>2. M = [L EXCEPT !.next[L.prev[t]] = L.next[t], !.prev[L.next[t]] = L.prev[t]]
        BY <4>1, Zenon DEF delete_timer
      <4> HIDE DEF M
      <4> QED
        BY <4>1, <4>2
    <3>2. s[m - 1] \in Timers /\ s[m + 1] \in Timers
      BY <1>2, <2>4
    <3>3. /\ M \in Lists /\ M.head = L.head /\ M.tail = L.tail
          /\ M.next[s[m - 1]] = s[m + 1] /\ M.prev[s[m + 1]] = s[m - 1]
          /\ \A x \in Timers : x # s[m - 1] => M.next[x] = L.next[x]
          /\ \A x \in Timers : x # s[m + 1] => M.prev[x] = L.prev[x]
      <4> DEFINE A == [L EXCEPT !.next[s[m - 1]] = s[m + 1]]
      <4>1. /\ M = [A EXCEPT !.prev[s[m + 1]] = s[m - 1]]
            /\ s[m - 1] \in Pointers /\ s[m + 1] \in Pointers
        BY <1>2, <3>1, <3>2
      <4> HIDE DEF M
      <4>2. /\ A \in Lists /\ A.head = L.head /\ A.tail = L.tail /\ A.prev = L.prev
            /\ A.next[s[m - 1]] = s[m + 1]
            /\ \A x \in Timers : x # s[m - 1] => A.next[x] = L.next[x]
        BY <3>2, <4>1, SetNext
      <4> HIDE DEF A
      <4>3. /\ M \in Lists /\ M.head = A.head /\ M.tail = A.tail /\ M.next = A.next
            /\ M.prev[s[m + 1]] = s[m - 1]
            /\ \A x \in Timers : x # s[m + 1] => M.prev[x] = A.prev[x]
        BY <3>2, <4>1, <4>2, SetPrev
      <4> QED
        BY <4>2, <4>3
    <3> HIDE DEF M
    <3> QED
      BY <1>1, <1>2, <2>4, <3>3, LinkOut
  <2> QED
    BY <1>2, <2>1, <2>2, <2>3, <2>4
<1> QED
  BY <1>5

\* A later expiry that does not reach the next node's leaves the listing sorted.
LEMMA StaysSorted ==
    ASSUME NEW L \in Lists, NEW e \in [Timers -> Nat], NEW f \in [Timers -> Nat],
           NEW H, NEW n, NEW s, Listed(L, e, H, n, s), NEW m \in 0..(n - 1),
           e[s[m]] <= f[s[m]], \A x \in Timers : x # s[m] => f[x] = e[x],
           m < n - 1 => f[s[m]] <= f[s[m + 1]]
    PROVE  Listed(L, f, H, n, s)
<1>1. /\ n \in Nat /\ \A i \in 0..(n - 1) : s[i] \in Timers
      /\ \A i, j \in 0..(n - 1) : s[i] = s[j] => i = j
      /\ \A i, j \in 0..(n - 1) : i <= j => e[s[i]] <= e[s[j]]
  BY DEF Listed
<1>2. \A i \in 0..(n - 1) : e[s[i]] \in Nat /\ f[s[i]] \in Nat
  BY <1>1
<1>3. \A i \in 0..(n - 1) : i # m => f[s[i]] = e[s[i]]
  BY <1>1
<1>4. ASSUME NEW i \in 0..(n - 1), NEW j \in 0..(n - 1), i <= j
      PROVE  f[s[i]] <= f[s[j]]
  <2>1. CASE i = m /\ j = m
    BY <1>2, <2>1
  <2>2. CASE i # m /\ j # m
    BY <1>1, <1>3, <1>4, <2>2
  <2>3. CASE i # m /\ j = m
    <3>1. f[s[i]] = e[s[i]] /\ e[s[i]] <= e[s[m]]
      BY <1>1, <1>3, <1>4, <2>3
    <3> QED
      BY <1>2, <2>3, <3>1
  <2>4. CASE i = m /\ j # m
    <3>1. m + 1 \in 0..(n - 1) /\ m + 1 # m /\ m + 1 <= j /\ m < n - 1
      BY <1>1, <1>4, <2>4
    <3>2. /\ f[s[m + 1]] = e[s[m + 1]] /\ f[s[j]] = e[s[j]]
          /\ e[s[m + 1]] <= e[s[j]]
      BY <1>1, <1>3, <2>4, <3>1
    <3> QED
      BY <1>2, <2>4, <3>1, <3>2
  <2> QED
    BY <2>1, <2>2, <2>3, <2>4
<1> QED
  BY <1>4 DEF Listed

\* adjust_timer with a later expiry moves the node to its new place.
LEMMA AdjustTimerListed ==
    ASSUME NEW L \in Lists, NEW e \in [Timers -> Nat], NEW f \in [Timers -> Nat],
           NEW H, NEW n, NEW s, Listed(L, e, H, n, s), NEW t \in H,
           e[t] <= f[t], \A x \in Timers : x # t => f[x] = e[x]
    PROVE  /\ adjust_timer(L, f, t) \in Lists
           /\ \E r : Listed(adjust_timer(L, f, t), f, H, n, r)
<1> DEFINE M == adjust_timer(L, f, t)
<1>1. PICK m \in 0..(n - 1) : s[m] = t
  BY DEF Listed
<1>2. /\ n \in Nat /\ n > 0 /\ m \in Nat /\ m <= n - 1
      /\ NULL \notin Timers /\ NULL \in Pointers /\ Timers \subseteq Pointers
      /\ t \in Timers /\ L.head = s[0] /\ s[n] = NULL
      /\ \A i \in 0..(n - 1) : s[i] \in H /\ s[i] \in Timers /\ L.next[s[i]] = s[i + 1]
      /\ \A i \in 1..(n - 1) : L.prev[s[i]] = s[i - 1]
      /\ \A i, k \in 0..(n - 1) : s[i] = s[k] => i = k
      /\ H \subseteq Timers
      /\ s \in [0..n -> Pointers]
  <2>1. H \subseteq Timers
    BY ListedCardinality
  <2>2. n \in Nat /\ n > 0 /\ m \in Nat /\ m <= n - 1
    BY DEF Listed
  <2>3. NULL \notin Timers /\ NULL \in Pointers /\ Timers \subseteq Pointers
    BY TimerListAssumption DEF Pointers
  <2> QED
    BY <2>1, <2>2, <2>3 DEF Listed
<1>3. t = L.head <=> m = 0
  <2>1. 0 \in 0..(n - 1)
    BY <1>2
  <2> QED
    BY <1>1, <1>2, <2>1
<1>4. /\ L.next[t] = s[m + 1]
      /\ m > 0 => L.prev[t] = s[m - 1]
      /\ s[m + 1] = NULL <=> m = n - 1
      /\ m < n - 1 => s[m + 1] \in Timers /\ m + 1 \in 0..(n - 1)
      /\ m > 0 => s[m - 1] \in Timers
  <2>1. CASE m = n - 1
    <3>1. m + 1 = n
      BY <1>2, <2>1
    <3> QED
      BY <1>1, <1>2, <2>1, <3>1
  <2>2. CASE m < n - 1
    <3>1. m + 1 \in 0..(n - 1)
      BY <1>2, <2>2
    <3> QED
      BY <1>1, <1>2, <2>2, <3>1
  <2> QED
    BY <1>2, <2>1, <2>2
<1>5. CASE L.next[t] = NULL \/ f[t] < f[L.next[t]]
  <2>1. M = L
    BY <1>5, Zenon DEF adjust_timer
  <2> HIDE DEF M
  <2>2. m < n - 1 => f[t] <= f[s[m + 1]]
    <3> SUFFICES ASSUME m < n - 1
                 PROVE  f[t] <= f[s[m + 1]]
      OBVIOUS
    <3>1. f[t] < f[s[m + 1]]
      BY <1>2, <1>4, <1>5
    <3>2. f[t] \in Nat /\ f[s[m + 1]] \in Nat
      BY <1>2, <1>4
    <3> QED
      BY <3>1, <3>2
  <2>3. Listed(L, f, H, n, s)
    BY <1>1, <2>2, StaysSorted
  <2> QED
    BY <2>1, <2>3 DEF M
<1>6. CASE ~(L.next[t] = NULL \/ f[t] < f[L.next[t]]) /\ t = L.head
  <2> DEFINE A == [L EXCEPT !.head = s[1]]
             B == [A EXCEPT !.prev[s[1]] = NULL]
             C == [B EXCEPT !.next[t] = NULL]
  <2>1. m = 0 /\ m < n - 1 /\ s[1] \in Timers /\ L.next[t] = s[1] /\ s[m + 1] = s[1]
    <3>1. m = 0 /\ m # n - 1 /\ m + 1 = 1
      BY <1>2, <1>3, <1>4, <1>6
    <3> QED
      BY <1>2, <1>4, <3>1
  <2>2. M = add_timer(C, f, t)
    <3>1. M = add_timer([L EXCEPT !.head = L.next[t], !.prev[L.next[t]] = NULL,
                                  !.next[t] = NULL], f, t)
      BY <1>6, Zenon DEF adjust_timer
    <3> HIDE DEF M
    <3> QED
      BY <2>1, <3>1
  <2> HIDE DEF M
  <2>3. /\ A \in Lists /\ A.head = s[1] /\ A.tail = L.tail
        /\ A.next = L.next /\ A.prev = L.prev
    <3>1. s[1] \in Pointers
      BY <1>2, <2>1
    <3> QED
      BY <3>1, SetEnd
  <2> HIDE DEF A
  <2>4. /\ B \in Lists /\ B.head = A.head /\ B.tail = A.tail /\ B.next = A.next
        /\ \A x \in Timers : x # s[1] => B.prev[x] = A.prev[x]
    BY <1>2, <2>1, <2>3, SetPrev
  <2> HIDE DEF B
  <2>5. /\ C \in Lists /\ C.head = B.head /\ C.tail = B.tail /\ C.prev = B.prev
        /\ C.next[t] = NULL
        /\ \A x \in Timers : x # t => C.next[x] = B.next[x]
    <3>1. t \in Timers /\ NULL \in Pointers /\ B \in Lists
      BY <1>2, <2>4
    <3> QED
      BY <3>1, SetNext
  <2> HIDE DEF C
  <2>6. /\ C.head = s[1] /\ C.tail = L.tail
        /\ \A x \in H : x # t => C.next[x] = L.next[x] /\ f[x] = e[x]
        /\ \A x \in H : x # s[1] => C.prev[x] = L.prev[x]
    BY <1>2, <2>3, <2>4, <2>5
  <2>7. Listed(C, f, H \ {s[m]}, n - 1, Removed(s, n, m))
    <3>1. /\ C \in Lists /\ C.head = IF m = 0 THEN s[1] ELSE L.head
          /\ C.tail = IF m = n - 1 THEN s[m - 1] ELSE L.tail
          /\ ~(m > 0)
          /\ \A x \in H : x # s[m] => C.next[x] = L.next[x] /\ f[x] = e[x]
          /\ \A x \in H : x # s[m + 1] => C.prev[x] = L.prev[x]
      BY <1>1, <1>2, <2>1, <2>5, <2>6
    <3> QED
      BY <3>1, LinkOut
  <2>8. /\ add_timer(C, f, t) \in Lists
        /\ \E r : Listed(add_timer(C, f, t), f, (H \ {s[m]}) \cup {t}, (n - 1) + 1, r)
    <3>1. t \notin H \ {s[m]}
      BY <1>1
    <3> QED
      BY <1>2, <2>5, <2>7, <3>1, AddTimerListed
  <2>9. (H \ {s[m]}) \cup {t} = H /\ (n - 1) + 1 = n
    BY <1>1, <1>2
  <2> QED
    BY <2>2, <2>8, <2>9 DEF M
<1>7. CASE ~(L.next[t] = NULL \/ f[t] < f[L.next[t]]) /\ t # L.head
  <2> DEFINE r == Removed(s, n, m)
             A == [L EXCEPT !.next[s[m - 1]] = s[m + 1]]
             B == [A EXCEPT !.next[t] = NULL]
             C == [B EXCEPT !.prev[s[m + 1]] = s[m - 1]]
             D == [C EXCEPT !.prev[t] = NULL]
  <2>1. /\ m > 0 /\ m < n - 1 /\ s[m + 1] \in Timers /\ s[m - 1] \in Timers
        /\ L.next[t] = s[m + 1] /\ L.prev[t] = s[m - 1]
        /\ s[m - 1] # t /\ s[m + 1] # t
    <3>1. m > 0 /\ m < n - 1
      BY <1>2, <1>3, <1>4, <1>7
    <3>2. m - 1 \in 0..(n - 1) /\ m + 1 \in 0..(n - 1) /\ m - 1 # m /\ m + 1 # m
      BY <1>2, <3>1
    <3>3. s[m - 1] # s[m] /\ s[m + 1] # s[m]
      BY <1>2, <3>2
    <3> QED
      BY <1>1, <1>4, <3>1, <3>3
  <2>2. M = InsertAfter(D, f, t, s[m + 1])
    <3>1. M = InsertAfter([L EXCEPT
                 !.next = [@ EXCEPT ![L.prev[t]] = L.next[t], ![t] = NULL],
                 !.prev = [@ EXCEPT ![L.next[t]] = L.prev[t], ![t] = NULL]],
                 f, t, L.next[t])
      BY <1>7, Zenon DEF adjust_timer
    <3> HIDE DEF M
    <3>2. D = [L EXCEPT
                 !.next = [@ EXCEPT ![s[m - 1]] = s[m + 1], ![t] = NULL],
                 !.prev = [@ EXCEPT ![s[m + 1]] = s[m - 1], ![t] = NULL]]
      BY DEF Lists
    <3> HIDE DEF D
    <3> QED
      BY <2>1, <3>1, <3>2
  <2> HIDE DEF M
  <2>3. /\ A \in Lists /\ A.head = L.head /\ A.tail = L.tail /\ A.prev = L.prev
        /\ A.next[s[m - 1]] = s[m + 1]
        /\ \A x \in Timers : x # s[m - 1] => A.next[x] = L.next[x]
    BY <1>2, <2>1, SetNext
  <2> HIDE DEF A
  <2>4. /\ B \in Lists /\ B.head = A.head /\ B.tail = A.tail /\ B.prev = A.prev
        /\ \A x \in Timers : x # t => B.next[x] = A.next[x]
    BY <1>2, <2>3, SetNext
  <2> HIDE DEF B
  <2>5. /\ C \in Lists /\ C.head = B.head /\ C.tail = B.tail /\ C.next = B.next
        /\ C.prev[s[m + 1]] = s[m - 1]
        /\ \A x \in Timers : x # s[m + 1] => C.prev[x] = B.prev[x]
    <3>1. s[m + 1] \in Timers /\ s[m - 1] \in Pointers /\ B \in Lists
      BY <1>2, <2>1, <2>4
    <3> QED
      BY <3>1, SetPrev
  <2> HIDE DEF C
  <2>6. /\ D \in Lists /\ D.head = C.head /\ D.tail = C.tail /\ D.next = C.next
        /\ \A x \in Timers : x # t => D.prev[x] = C.prev[x]
    BY <1>2, <2>5, SetPrev
  <2> HIDE DEF D
  <2>7. /\ D.head = L.head /\ D.tail = L.tail
        /\ D.next[s[m - 1]] = s[m + 1] /\ D.prev[s[m + 1]] = s[m - 1]
        /\ \A x \in H : x # t /\ x # s[m - 1] => D.next[x] = L.next[x]
        /\ \A x \in H : x # t /\ x # s[m + 1] => D.prev[x] = L.prev[x]
        /\ \A x \in H : x # t => f[x] = e[x]
    BY <1>2, <2>1, <2>3, <2>4, <2>5, <2>6
  <2>8. Listed(D, f, H \ {s[m]}, n - 1, r)
    <3>1. /\ D \in Lists /\ D.head = IF m = 0 THEN s[1] ELSE L.head
          /\ D.tail = IF m = n - 1 THEN s[m - 1] ELSE L.tail
          /\ D.next[s[m - 1]] = s[m + 1] /\ D.prev[s[m + 1]] = s[m - 1]
          /\ \A x \in H : x # s[m] /\ x # s[m - 1] => D.next[x] = L.next[x]
          /\ \A x \in H : x # s[m] /\ x # s[m + 1] => D.prev[x] = L.prev[x]
          /\ \A x \in H : x # s[m] => f[x] = e[x]
          /\ m > 0
      BY <1>1, <1>2, <2>1, <2>6, <2>7
    <3> QED
      BY <3>1, LinkOut
  <2>9. r[m] = s[m + 1] /\ m \in 0..((n - 1) - 1) /\ f[r[m]] <= f[t]
    <3>1. m \in 0..(n - 1) /\ m \in 0..((n - 1) - 1) /\ ~(m < m)
      <4>1. n \in Nat /\ m \in Nat /\ m < n - 1
        BY <1>2, <2>1, Zenon
      <4> QED
        BY <4>1
    <3>2. r[m] = s[m + 1]
      BY <3>1 DEF Removed
    <3>3. ~(f[t] < f[s[m + 1]]) /\ f[t] \in Nat /\ f[s[m + 1]] \in Nat
      BY <1>2, <1>7, <2>1
    <3> HIDE DEF r
    <3> QED
      BY <3>1, <3>2, <3>3
  <2> HIDE DEF r
  <2>10. /\ InsertAfter(D, f, t, r[m]) \in Lists
         /\ \E q : Listed(InsertAfter(D, f, t, r[m]), f,
                          (H \ {s[m]}) \cup {t}, (n - 1) + 1, q)
    <3>1. t \notin H \ {s[m]}
      BY <1>1
    <3> QED
      BY <1>2, <2>6, <2>8, <2>9, <3>1, InsertAfterListed
  <2>11. (H \ {s[m]}) \cup {t} = H /\ (n - 1) + 1 = n
    BY <1>1, <1>2
  <2> QED
    BY <2>2, <2>9, <2>10, <2>11 DEF M
<1> QED
  BY <1>5, <1>6, <1>7

\* What tick() frees is a prefix of the listing: every node that is due.
LEMMA ExpiredPrefix ==
    ASSUME NEW L \in Lists, NEW e \in [Timers -> Nat], NEW cur \in Nat,
           NEW H, NEW n, NEW s, Listed(L, e, H, n, s)
    PROVE  \E k \in 0..n : /\ Expired(L, e, cur) = {s[i] : i \in 0..(k - 1)}
                           /\ Cardinality(Expired(L, e, cur)) = k
                           /\ Expired(L, e, cur) = {t \in H : e[t] <= cur}
                           /\ Walk(L, L.head)[k] = s[k]
<1> DEFINE w == Walk(L, L.head)
           Q == {i \in 0..(N + 1) : w[i] = NULL \/ cur < e[w[i]]}
           k == Min(Q)
           X == Expired(L, e, cur)
<1>1. /\ N \in Nat /\ n \in Nat /\ n <= N /\ NULL \notin Timers
      /\ s[n] = NULL /\ H = {s[i] : i \in 0..(n - 1)}
      /\ \A i \in 0..(n - 1) : s[i] \in H /\ s[i] \in Timers
      /\ \A i, j \in 0..(n - 1) : s[i] = s[j] => i = j
      /\ \A i, j \in 0..(n - 1) : i <= j => e[s[i]] <= e[s[j]]
  <2>1. N \in Nat /\ n <= N
    BY Constants, ListedCardinality
  <2> QED
    BY <2>1, TimerListAssumption DEF Listed
<1>2. \A i \in 0..(N + 1) : w[i] = IF i <= n THEN s[i] ELSE NULL
  <2>1. L.head = s[0] /\ 0 \in 0..n /\ \A i \in 0..(N + 1) : 0 + i = i
    BY <1>1 DEF Listed
  <2>2. \A i \in 0..(N + 1) :
           Walk(L, s[0])[i] = IF 0 + i <= n THEN s[0 + i] ELSE NULL
    BY <2>1, WalkListed
  <2> QED
    BY <2>1, <2>2
<1>3. X = {w[i] : i \in 0..(k - 1)}
  BY Zenon DEF Expired
<1> HIDE DEF w, X
<1>4. n \in Q
  <2>1. n \in 0..(N + 1) /\ w[n] = NULL
    BY <1>1, <1>2
  <2> QED
    BY <2>1
<1>5. k \in Q /\ \A i \in Q : k <= i
  <2>1. Q \in SUBSET Nat
    BY <1>1
  <2> HIDE DEF Q
  <2> QED
    BY <1>4, <2>1, MinNat
<1>6. k \in 0..n /\ k \in Nat
  <2>1. k \in 0..(N + 1) /\ k <= n
    BY <1>4, <1>5
  <2> HIDE DEF k
  <2> QED
    BY <1>1, <2>1
<1>7. \A i \in 0..(k - 1) : i \in 0..(n - 1) /\ w[i] = s[i] /\ e[s[i]] <= cur
  <2> TAKE i \in 0..(k - 1)
  <2>1. i \in 0..(n - 1) /\ i \in 0..(N + 1) /\ i <= n /\ ~(k <= i)
    <3> HIDE DEF k
    <3> QED
      BY <1>1, <1>6
  <2>2. w[i] = s[i] /\ i \notin Q
    BY <1>2, <1>5, <2>1
  <2>3. ~(cur < e[s[i]])
    BY <2>1, <2>2
  <2>4. e[s[i]] \in Nat
    BY <1>1, <2>1
  <2> QED
    BY <2>1, <2>2, <2>3, <2>4
<1>8. \A i \in k..(n - 1) : cur < e[s[i]]
  <2> TAKE i \in k..(n - 1)
  <2>1. k \in 0..(n - 1) /\ i \in 0..(n - 1) /\ k <= i /\ k \in 0..(N + 1) /\ k <= n
    <3> HIDE DEF k
    <3> QED
      BY <1>1, <1>6
  <2>2. w[k] = s[k] /\ s[k] # NULL
    BY <1>1, <1>2, <2>1
  <2>3. cur < e[s[k]]
    BY <1>5, <2>2
  <2>4. e[s[k]] <= e[s[i]] /\ e[s[k]] \in Nat /\ e[s[i]] \in Nat
    BY <1>1, <2>1
  <2> HIDE DEF k
  <2> QED
    BY <2>3, <2>4
<1>9. w[k] = s[k]
  <2>1. k \in 0..(N + 1) /\ k <= n
    BY <1>1, <1>6
  <2> HIDE DEF k
  <2> QED
    BY <1>2, <2>1
<1> HIDE DEF k, Q
<1>10. X = {s[i] : i \in 0..(k - 1)}
  BY <1>3, <1>7
<1>11. Cardinality(X) = k
  <2>1. \A i, j \in 0..(k - 1) : s[i] = s[j] => i = j
    BY <1>1, <1>7
  <2> QED
    BY <1>6, <1>10, <2>1, CountNodes
<1>12. X = {t \in H : e[t] <= cur}
  <2>1. ASSUME NEW t \in H, e[t] <= cur
        PROVE  t \in X
    <3>1. PICK i \in 0..(n - 1) : s[i] = t
      BY <1>1
    <3>2. e[s[i]] \in Nat
      BY <1>1
    <3>3. ~(cur < e[s[i]])
      BY <2>1, <3>1, <3>2
    <3>4. i \in 0..(k - 1)
      BY <1>1, <1>6, <1>8, <3>3
    <3> QED
      BY <1>10, <3>1, <3>4
  <2>2. ASSUME NEW t \in X
        PROVE  t \in H /\ e[t] <= cur
    <3>1. PICK i \in 0..(k - 1) : s[i] = t
      BY <1>10
    <3> QED
      BY <1>1, <1>7, <3>1
  <2> QED
    BY <2>1, <2>2
<1> QED
  BY <1>6, <1>9, <1>10, <1>11, <1>12 DEF X, w

\* tick() drops the nodes that are due from the front of the list.
LEMMA TickListed ==
    ASSUME NEW L \in Lists, NEW e \in [Timers -> Nat], NEW cur \in Nat,
           NEW H, NEW n, NEW s, Listed(L, e, H, n, s)
    PROVE  /\ tick(L, e, cur) \in Lists
           /\ Expired(L, e, cur) = {t \in H : e[t] <= cur}
           /\ \E k \in Nat : \E r :
                 Listed(tick(L, e, cur), e, H \ Expired(L, e, cur), k, r)
<1> DEFINE X == Expired(L, e, cur)
           M == tick(L, e, cur)
<1>1. PICK k \in 0..n : /\ X = {s[i] : i \in 0..(k - 1)}
                        /\ Cardinality(X) = k
                        /\ X = {t \in H : e[t] <= cur}
                        /\ Walk(L, L.head)[k] = s[k]
  BY ExpiredPrefix
<1>2. M = [L EXCEPT !.head = s[k]]
  <2>1. M = [L EXCEPT !.head = Walk(L, L.head)[Cardinality(X)]]
    BY Zenon DEF tick
  <2> HIDE DEF M, X
  <2> QED
    BY <1>1, <2>1
<1> HIDE DEF X, M
<1> DEFINE r == [i \in 0..(n - k) |-> s[i + k]]
<1>3. /\ n \in Nat /\ k \in Nat /\ k <= n /\ n - k \in Nat
      /\ s \in [0..n -> Pointers] /\ s[n] = NULL
      /\ H = {s[i] : i \in 0..(n - 1)}
      /\ \A i \in 0..(n - 1) : s[i] \in Timers /\ L.next[s[i]] = s[i + 1]
      /\ \A i, j \in 0..(n - 1) : s[i] = s[j] => i = j
      /\ n > 0 => L.tail = s[n - 1]
      /\ \A i \in 1..(n - 1) : L.prev[s[i]] = s[i - 1]
      /\ \A i, j \in 0..(n - 1) : i <= j => e[s[i]] <= e[s[j]]
  BY DEF Listed
<1>4. /\ M \in Lists /\ M.head = s[k] /\ M.tail = L.tail
      /\ M.next = L.next /\ M.prev = L.prev
  <2>1. s[k] \in Pointers
    BY <1>3
  <2> QED
    BY <1>2, <2>1, SetEnd
<1>5. /\ r \in [0..(n - k) -> Pointers]
      /\ \A i \in 0..(n - k) : r[i] = s[i + k] /\ i + k \in 0..n
      /\ \A i \in 0..((n - k) - 1) :
            i + k \in 0..(n - 1) /\ i + 1 \in 0..(n - k) /\ (i + 1) + k = (i + k) + 1
  BY <1>3
<1> HIDE DEF r
<1>6. H \ X = {r[i] : i \in 0..((n - k) - 1)}
  <2>1. ASSUME NEW i \in 0..((n - k) - 1)
        PROVE  r[i] \in H \ X
    <3>1. r[i] = s[i + k] /\ i + k \in 0..(n - 1)
      BY <1>3, <1>5
    <3>2. ASSUME NEW j \in 0..(k - 1)
          PROVE  s[j] # s[i + k]
      <4>1. j \in 0..(n - 1) /\ j # i + k
        BY <1>3
      <4> QED
        BY <1>3, <3>1, <4>1
    <3> QED
      BY <1>1, <1>3, <3>1, <3>2
  <2>2. ASSUME NEW t \in H \ X
        PROVE  \E i \in 0..((n - k) - 1) : r[i] = t
    <3>1. PICK j \in 0..(n - 1) : s[j] = t
      BY <1>3
    <3>2. j \notin 0..(k - 1)
      BY <1>1, <3>1
    <3>3. j - k \in 0..((n - k) - 1) /\ j - k \in 0..(n - k) /\ (j - k) + k = j
      BY <1>3, <3>2
    <3> QED
      BY <1>5, <3>1, <3>3
  <2> QED
    BY <2>1, <2>2
<1>7. r[n - k] = NULL
  <2>1. n - k \in 0..(n - k) /\ (n - k) + k = n
    BY <1>3
  <2> QED
    BY <1>3, <1>5, <2>1
<1>8. \A i \in 0..((n - k) - 1) : r[i] \in Timers /\ M.next[r[i]] = r[i + 1]
  BY <1>3, <1>4, <1>5
<1>9. ASSUME NEW i \in 0..((n - k) - 1), NEW j \in 0..((n - k) - 1)
      PROVE  /\ r[i] = r[j] => i = j
             /\ i <= j => e[r[i]] <= e[r[j]]
  <2>1. /\ i + k \in 0..(n - 1) /\ j + k \in 0..(n - 1)
        /\ r[i] = s[i + k] /\ r[j] = s[j + k]
        /\ i + k = j + k => i = j
        /\ i <= j => i + k <= j + k
    BY <1>3, <1>5
  <2> QED
    BY <1>3, <2>1
<1>10. M.head = r[0]
  <2>1. 0 \in 0..(n - k) /\ 0 + k = k
    BY <1>3
  <2> QED
    BY <1>4, <1>5, <2>1
<1>11. n - k > 0 => M.tail = r[(n - k) - 1]
  <2> SUFFICES ASSUME n - k > 0
               PROVE  M.tail = r[(n - k) - 1]
    OBVIOUS
  <2>1. (n - k) - 1 \in 0..(n - k) /\ ((n - k) - 1) + k = n - 1 /\ n > 0
    BY <1>3
  <2> QED
    BY <1>3, <1>4, <1>5, <2>1
<1>12. ASSUME NEW i \in 1..((n - k) - 1)
       PROVE  M.prev[r[i]] = r[i - 1]
  <2>1. /\ i \in 0..(n - k) /\ i - 1 \in 0..(n - k) /\ i + k \in 1..(n - 1)
        /\ (i - 1) + k = (i + k) - 1
    BY <1>3
  <2>2. r[i] = s[i + k] /\ r[i - 1] = s[(i + k) - 1]
    BY <1>5, <2>1
  <2> QED
    BY <1>3, <1>4, <2>1, <2>2
<1>13. Listed(M, e, H \ X, n - k, r)
  BY <1>3, <1>5, <1>6, <1>7, <1>8, <1>9, <1>10, <1>11, <1>12 DEF Listed
<1> QED
  BY <1>1, <1>3, <1>4, <1>13 DEF X, M

-----------------------------------------------------------------------------
(* The invariant.                                                           *)

\* The bounds of the quantifiers of IInv exclude no listing.
LEMMA ListedBounds ==
    ASSUME NEW L, NEW e, NEW H, NEW n, NEW s, Listed(L, e, H, n, s)
    PROVE  n \in 0..N /\ s \in [0..n -> Pointers]
<1>1. n \in Nat /\ s \in [0..n -> Pointers]
  BY DEF Listed
<1>2. n <= N /\ N \in Nat
  BY ListedCardinality, Constants
<1> QED
  BY <1>1, <1>2

LEMMA ExpiryTimes ==
    /\ MaxTime + Max(Timeouts) \in Nat
    /\ \A n \in 0..MaxTime, d \in Timeouts : n + d \in 0..(MaxTime + Max(Timeouts))
BY Constants, TimerListAssumption

LEMMA InitIInv == Init => IInv
<1> SUFFICES ASSUME Init
             PROVE  IInv
  OBVIOUS
<1>1. TypeOK
  BY TimerListAssumption, ExpiryTimes DEF Init, TypeOK, Pointers
<1> DEFINE s == [i \in 0..0 |-> NULL]
<1>2. Listed(lst, expire, heap, 0, s)
  <2>1. \A i \in 0..(0 - 1) : FALSE
    OBVIOUS
  <2>2. s \in [0..0 -> Pointers] /\ s[0] = NULL
    BY DEF Pointers
  <2>3. heap = {s[i] : i \in 0..(0 - 1)}
    BY <2>1 DEF Init
  <2>4. lst.head = NULL
    BY DEF Init
  <2> HIDE DEF s
  <2> QED
    BY <2>1, <2>2, <2>3, <2>4 DEF Listed
<1> QED
  BY <1>1, <1>2, ListedBounds DEF IInv

\* Setting the links of an address that holds no node changes nothing in the list.
LEMMA ListedFresh ==
    ASSUME NEW L \in Lists, NEW M \in Lists, NEW e, NEW f,
           NEW H, NEW n, NEW s, Listed(L, e, H, n, s),
           M.head = L.head, M.tail = L.tail,
           \A x \in H : M.next[x] = L.next[x] /\ M.prev[x] = L.prev[x] /\ f[x] = e[x]
    PROVE  Listed(M, f, H, n, s)
<1>1. /\ n \in Nat /\ s \in [0..n -> Pointers] /\ s[n] = NULL
      /\ H = {s[i] : i \in 0..(n - 1)}
      /\ \A i \in 0..(n - 1) : s[i] \in Timers /\ L.next[s[i]] = s[i + 1]
      /\ \A i, j \in 0..(n - 1) : s[i] = s[j] => i = j
      /\ L.head = s[0] /\ (n > 0 => L.tail = s[n - 1])
      /\ \A i \in 1..(n - 1) : L.prev[s[i]] = s[i - 1]
      /\ \A i, j \in 0..(n - 1) : i <= j => e[s[i]] <= e[s[j]]
  BY DEF Listed
<1>2. \A i \in 0..(n - 1) : s[i] \in H
  BY <1>1
<1>3. \A i \in 1..(n - 1) : i \in 0..(n - 1)
  BY <1>1
<1>4. /\ \A i \in 0..(n - 1) : M.next[s[i]] = L.next[s[i]] /\ f[s[i]] = e[s[i]]
      /\ \A i \in 1..(n - 1) : M.prev[s[i]] = L.prev[s[i]]
  BY <1>2, <1>3
<1>5. /\ \A i \in 0..(n - 1) : s[i] \in Timers /\ M.next[s[i]] = s[i + 1]
      /\ \A i \in 1..(n - 1) : M.prev[s[i]] = s[i - 1]
      /\ \A i, j \in 0..(n - 1) : i <= j => f[s[i]] <= f[s[j]]
      /\ M.head = s[0] /\ (n > 0 => M.tail = s[n - 1])
  BY <1>1, <1>4
<1> QED
  BY <1>1, <1>5 DEF Listed

\* Each action keeps the invariant.
LEMMA AddIInv ==
    ASSUME IInv, NEW t \in Timers, NEW d \in Timeouts, Add(t, d)
    PROVE  IInv'
<1> DEFINE A == [lst EXCEPT !.next[t] = NULL]
           B == [A EXCEPT !.prev[t] = NULL]
<1>1. /\ lst \in Lists /\ expire \in [Timers -> 0..(MaxTime + Max(Timeouts))]
      /\ heap \subseteq Timers /\ now \in 0..MaxTime
      /\ NULL \in Pointers
  BY DEF IInv, TypeOK, Lists, Pointers
<1>2. PICK n, s : Listed(lst, expire, heap, n, s)
  BY DEF IInv
<1>3. /\ t \notin heap /\ heap' = heap \cup {t} /\ now' = now
      /\ expire' = [expire EXCEPT ![t] = now + d]
      /\ lst' = add_timer(B, expire', t)
  BY DEF Add
<1>4. /\ A \in Lists /\ A.head = lst.head /\ A.tail = lst.tail /\ A.prev = lst.prev
      /\ A.next[t] = NULL
      /\ \A x \in Timers : x # t => A.next[x] = lst.next[x]
  BY <1>1, SetNext
<1> HIDE DEF A
<1>5. /\ B \in Lists /\ B.head = A.head /\ B.tail = A.tail /\ B.next = A.next
      /\ \A x \in Timers : x # t => B.prev[x] = A.prev[x]
  BY <1>1, <1>4, SetPrev
<1> HIDE DEF B
<1>6. /\ expire' \in [Timers -> 0..(MaxTime + Max(Timeouts))]
      /\ \A x \in Timers : x # t => expire'[x] = expire[x]
  BY <1>1, <1>3, ExpiryTimes
<1>7. /\ expire' \in [Timers -> Nat]
  BY <1>6
<1>8. /\ \A x \in heap : /\ B.next[x] = lst.next[x] /\ B.prev[x] = lst.prev[x]
                         /\ expire'[x] = expire[x]
      /\ B.head = lst.head /\ B.tail = lst.tail /\ B.next[t] = NULL
  BY <1>1, <1>3, <1>4, <1>5, <1>6
<1>9. Listed(B, expire', heap, n, s)
  BY <1>1, <1>2, <1>5, <1>8, ListedFresh
<1>10. /\ lst' \in Lists
       /\ \E r : Listed(lst', expire', heap', n + 1, r)
  BY <1>3, <1>5, <1>7, <1>8, <1>9, AddTimerListed
<1>11. TypeOK'
  BY <1>1, <1>3, <1>6, <1>10 DEF TypeOK, Lists
<1> QED
  BY <1>10, <1>11, ListedBounds DEF IInv

LEMMA AdjustIInv ==
    ASSUME IInv, NEW t \in Timers, NEW d \in Timeouts, Adjust(t, d)
    PROVE  IInv'
<1>1. /\ lst \in Lists /\ expire \in [Timers -> 0..(MaxTime + Max(Timeouts))]
      /\ heap \subseteq Timers /\ now \in 0..MaxTime
  BY DEF IInv, TypeOK, Lists
<1>2. PICK n, s : Listed(lst, expire, heap, n, s)
  BY DEF IInv
<1>3. /\ t \in heap /\ now + d >= expire[t] /\ heap' = heap /\ now' = now
      /\ expire' = [expire EXCEPT ![t] = now + d]
      /\ lst' = adjust_timer(lst, expire', t)
  BY DEF Adjust
<1>4. /\ expire' \in [Timers -> 0..(MaxTime + Max(Timeouts))]
      /\ expire'[t] = now + d
      /\ \A x \in Timers : x # t => expire'[x] = expire[x]
  BY <1>1, <1>3, ExpiryTimes
<1>5. expire \in [Timers -> Nat] /\ expire' \in [Timers -> Nat]
      /\ expire[t] <= expire'[t]
  <2>1. expire \in [Timers -> Nat] /\ expire' \in [Timers -> Nat]
    BY <1>1, <1>4
  <2>2. expire[t] \in Nat /\ expire'[t] \in Nat
    BY <2>1
  <2> QED
    BY <1>3, <1>4, <2>1, <2>2
<1>6. /\ lst' \in Lists
      /\ \E r : Listed(lst', expire', heap', n, r)
  BY <1>1, <1>2, <1>3, <1>4, <1>5, AdjustTimerListed
<1>7. TypeOK'
  BY <1>1, <1>3, <1>4, <1>6 DEF TypeOK, Lists
<1> QED
  BY <1>6, <1>7, ListedBounds DEF IInv

LEMMA DeleteIInv ==
    ASSUME IInv, NEW t \in Timers, Delete(t)
    PROVE  IInv'
<1>1. lst \in Lists
  BY DEF IInv, TypeOK, Lists
<1>2. PICK n, s : Listed(lst, expire, heap, n, s)
  BY DEF IInv
<1>3. /\ t \in heap /\ heap' = heap \ {t} /\ expire' = expire /\ now' = now
      /\ lst' = delete_timer(lst, t)
  BY DEF Delete
<1>4. /\ lst' \in Lists
      /\ \E r : Listed(lst', expire', heap', n - 1, r)
  BY <1>1, <1>2, <1>3, DeleteTimerListed
<1>5. TypeOK'
  BY <1>3, <1>4 DEF IInv, TypeOK, Lists
<1> QED
  BY <1>4, <1>5, ListedBounds DEF IInv

\* tick() frees the timers that are due.
LEMMA TickFrees ==
    ASSUME IInv
    PROVE  Expired(lst, expire, now) = {t \in heap : expire[t] <= now}
<1>1. lst \in Lists /\ expire \in [Timers -> Nat] /\ now \in Nat
  BY TimerListAssumption, ExpiryTimes DEF IInv, TypeOK, Lists
<1>2. PICK n, s : Listed(lst, expire, heap, n, s)
  BY DEF IInv
<1>3. \E k \in 0..n :
         /\ Expired(lst, expire, now) = {s[i] : i \in 0..(k - 1)}
         /\ Cardinality(Expired(lst, expire, now)) = k
         /\ Expired(lst, expire, now) = {t \in heap : expire[t] <= now}
         /\ Walk(lst, lst.head)[k] = s[k]
  BY <1>1, <1>2, ExpiredPrefix
<1> QED
  BY <1>3

LEMMA TickIInv ==
    ASSUME IInv, Tick
    PROVE  IInv'
<1>1. lst \in Lists /\ expire \in [Timers -> Nat] /\ now \in Nat
  BY TimerListAssumption, ExpiryTimes DEF IInv, TypeOK, Lists
<1>2. PICK n, s : Listed(lst, expire, heap, n, s)
  BY DEF IInv
<1>3. /\ heap' = heap \ Expired(lst, expire, now) /\ expire' = expire /\ now' = now
      /\ lst' = tick(lst, expire, now)
  BY DEF Tick
<1>4. /\ lst' \in Lists
      /\ \E k \in Nat : \E r : Listed(lst', expire', heap', k, r)
  BY <1>1, <1>2, <1>3, TickListed
<1>5. TypeOK'
  BY <1>3, <1>4 DEF IInv, TypeOK, Lists
<1> QED
  BY <1>4, <1>5, ListedBounds DEF IInv

LEMMA NextIInv == IInv /\ [Next]_vars => IInv'
<1> SUFFICES ASSUME IInv, [Next]_vars
             PROVE  IInv'
  OBVIOUS
<1>1. CASE \E t \in Timers, d \in Timeouts : Add(t, d) \/ Adjust(t, d)
  BY <1>1, AddIInv, AdjustIInv
<1>2. CASE \E t \in Timers : Delete(t)
  BY <1>2, DeleteIInv
<1>3. CASE Tick
  BY <1>3, TickIInv
<1>4. CASE Clock
  BY <1>4, TimerListAssumption DEF Clock, IInv, TypeOK
<1>5. CASE UNCHANGED vars
  BY <1>5 DEF vars, IInv, TypeOK
<1> QED
  BY <1>1, <1>2, <1>3, <1>4, <1>5 DEF Next

\* The invariant holds in every reachable state.
THEOREM Invariant == Spec => []IInv
<1>1. Init => IInv
  BY InitIInv
<1>2. IInv /\ [Next]_vars => IInv'
  BY NextIInv
<1> QED
  BY <1>1, <1>2, PTL DEF Spec

-----------------------------------------------------------------------------
(* What it implies.                                                         *)

\* Every pointer is NULL or an address a node can be allocated at, and every
\* expiry time is within the distance of a timeout from the clock.
THEOREM TypeCorrect == Spec => []TypeOK
<1>1. IInv => TypeOK
  BY DEF IInv
<1> QED
  BY <1>1, Invariant, PTL

LEMMA ListedWellLinked == IInv => WellLinked
<1> SUFFICES ASSUME IInv
             PROVE  WellLinked
  OBVIOUS
<1> DEFINE w == Walk(lst, lst.head)
<1>1. PICK n, s : Listed(lst, expire, heap, n, s)
  BY DEF IInv
<1>2. /\ n \in Nat /\ s[n] = NULL /\ lst.head = s[0]
      /\ heap = {s[i] : i \in 0..(n - 1)}
      /\ n > 0 => lst.tail = s[n - 1]
      /\ \A i \in 1..(n - 1) : lst.prev[s[i]] = s[i - 1]
      /\ \A i, j \in 0..(n - 1) : i <= j => expire[s[i]] <= expire[s[j]]
  BY <1>1 DEF Listed
<1>3. n = Cardinality(heap) /\ n <= N /\ N \in Nat
  BY <1>1, ListedCardinality, Constants
<1>4. \A i \in 0..n : w[i] = s[i]
  <2>1. \A i \in 0..n : i \in 0..(N + 1) /\ 0 + i = i /\ i <= n
    BY <1>2, <1>3
  <2>2. \A i \in 0..(N + 1) :
           Walk(lst, s[0])[i] = IF 0 + i <= n THEN s[0 + i] ELSE NULL
    <3>1. 0 \in 0..n
      BY <1>2
    <3> QED
      BY <1>1, <3>1, WalkListed
  <2> QED
    BY <1>2, <2>1, <2>2
<1> HIDE DEF w
<1>5. /\ \A i \in 0..(n - 1) : i \in 0..n /\ w[i] = s[i]
      /\ w[n] = NULL
      /\ n > 0 => n - 1 \in 0..n /\ w[n - 1] = s[n - 1]
      /\ \A i \in 1..(n - 1) : /\ w[i] = s[i] /\ w[i - 1] = s[i - 1]
                               /\ i - 1 \in 0..(n - 1) /\ i \in 0..(n - 1)
                               /\ i - 1 <= i
  BY <1>2, <1>4
<1>6. {w[i] : i \in 0..(n - 1)} = heap
  BY <1>2, <1>5
<1>7. /\ n > 0 => lst.tail = w[n - 1]
      /\ \A i \in 1..(n - 1) : /\ lst.prev[w[i]] = w[i - 1]
                               /\ expire[w[i - 1]] <= expire[w[i]]
  BY <1>2, <1>5
<1> QED
  BY <1>3, <1>5, <1>6, <1>7 DEF WellLinked, w

\* For any number of addresses and after any history of adds, adjustments,
\* deletions and ticks, the list meets every live node once, sorted by expiry,
\* and ends at tail.
THEOREM ListWellLinked == Spec => []WellLinked
BY Invariant, ListedWellLinked, PTL

-----------------------------------------------------------------------------
(* The list implements the set of running timers.                           *)

LEMMA InitAbstract == Init => Abstract!Init
BY DEF Init, Abstract!Init

LEMMA TickAbstract ==
    ASSUME IInv, Tick
    PROVE  Abstract!Tick
<1>1. Expired(lst, expire, now) = {t \in heap : expire[t] <= now}
  BY TickFrees
<1>2. heap \subseteq Timers /\ expire \in [Timers -> Nat] /\ now \in Nat
  BY TimerListAssumption, ExpiryTimes DEF IInv, TypeOK
<1>3. heap' = heap \ Expired(lst, expire, now) /\ expire' = expire /\ now' = now
  BY DEF Tick
<1>4. heap' = {t \in heap : now < expire[t]}
  BY <1>1, <1>2, <1>3
<1> QED
  BY <1>3, <1>4 DEF Abstract!Tick, Abstract!Running

LEMMA NextAbstract == IInv /\ [Next]_vars => [Abstract!Next]_(Abstract!vars)
<1> SUFFICES ASSUME IInv, [Next]_vars
             PROVE  [Abstract!Next]_(Abstract!vars)
  OBVIOUS
<1> USE DEF Abstract!Running
<1>0. heap \subseteq Timers /\ expire \in [Timers -> Nat]
  BY ExpiryTimes DEF IInv, TypeOK
<1>1. ASSUME NEW t \in Timers, NEW d \in Timeouts, Add(t, d)
      PROVE  Abstract!Start(t, d)
  BY <1>0, <1>1 DEF Add, Abstract!Start
<1>2. ASSUME NEW t \in Timers, NEW d \in Timeouts, Adjust(t, d)
      PROVE  Abstract!Extend(t, d)
  BY <1>0, <1>2 DEF Adjust, Abstract!Extend
<1>3. ASSUME NEW t \in Timers, Delete(t)
      PROVE  Abstract!Cancel(t)
  BY <1>0, <1>3 DEF Delete, Abstract!Cancel
<1>4. CASE Tick
  BY <1>4, TickAbstract DEF Abstract!Next
<1>5. CASE Clock
  BY <1>5 DEF Clock, Abstract!Elapse, Abstract!Next
<1>6. CASE UNCHANGED vars
  BY <1>6 DEF vars, Abstract!vars
<1> QED
  BY <1>1, <1>2, <1>3, <1>4, <1>5, <1>6 DEF Next, Abstract!Next

\* The list implements the set of running timers: a member function does to the
\* set what its name says, and tick() frees the timers that are due and no other.
THEOREM Refinement == Spec => ImplementsTimerSet
<1>1. Init => Abstract!Init
  BY InitAbstract
<1>2. IInv /\ [Next]_vars => [Abstract!Next]_(Abstract!vars)
  BY NextAbstract
<1>3. IInv /\ [Next]_vars => [Tick => Abstract!Tick]_vars
  BY TickAbstract
<1> QED
  BY <1>1, <1>2, <1>3, Invariant, PTL DEF Spec, Abstract!Spec, ImplementsTimerSet
=============================================================================
