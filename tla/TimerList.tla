----------------------------- MODULE TimerList -----------------------------
(***************************************************************************)
(* sort_timer_lst (src/src/lst_timer), pointer by pointer: a doubly linked *)
(* list of heap-allocated timers kept in ascending order of expiry.  Only  *)
(* the main thread touches it, so each member function is one step.        *)
(*                                                                         *)
(* A freed node keeps its last contents and its address may be allocated   *)
(* again, as with the C++ heap: pointers left dangling by tick() can meet  *)
(* a new node at the old address.                                          *)
(***************************************************************************)
EXTENDS Naturals, FiniteSets, FiniteSetsExt

CONSTANTS Timers,            \* addresses a util_timer can be allocated at
          NULL,
          Timeouts,          \* expiry distances callers use
          MaxTime            \* bound on the clock

ASSUME TimerListAssumption ==
    /\ IsFiniteSet(Timers) /\ NULL \notin Timers
    /\ Timeouts \subseteq Nat /\ IsFiniteSet(Timeouts) /\ Timeouts # {}
    /\ MaxTime \in Nat

VARIABLES lst,       \* [head, tail, next, prev]
          expire,    \* the expire field of the node at each address
          heap,      \* addresses that hold a live node
          now        \* time(NULL)

vars == <<lst, expire, heap, now>>

Pointers == Timers \cup {NULL}
N == Cardinality(Timers)

\* The nodes met when following next from p; NULL from the end of the list on.
Walk(L, p) ==
    LET node[k \in 0..(N + 1)] ==
            IF k = 0 THEN p
            ELSE IF node[k - 1] = NULL THEN NULL ELSE L.next[node[k - 1]]
    IN  node

-----------------------------------------------------------------------------
(* The member functions, as functions on the list L with expiry times e.   *)

\* add_timer(timer, lst_header): the private overload, which links t before
\* the first node after h that expires later, or at the tail.
InsertAfter(L, e, t, h) ==
    LET node == Walk(L, h)
        k    == Min({i \in 1..(N + 1) : node[i] = NULL \/ e[node[i]] > e[t]})
        pre  == node[k - 1]
        suc  == node[k]
    IN  [ head |-> L.head,
          tail |-> IF suc = NULL THEN t ELSE L.tail,
          next |-> [L.next EXCEPT ![t] = suc, ![pre] = t],
          prev |-> [x \in Timers |-> CASE x = t   -> pre
                                       [] x = suc -> t
                                       [] OTHER   -> L.prev[x]] ]

add_timer(L, e, t) ==
    IF L.head = NULL THEN [L EXCEPT !.head = t, !.tail = t]
    ELSE IF e[t] < e[L.head]
         THEN [L EXCEPT !.next[t] = L.head, !.prev[L.head] = t, !.head = t]
         ELSE InsertAfter(L, e, t, L.head)

\* Fault: a timer is moved only from the head of the list.
adjust_timerHead(L, e, t) ==
    LET n == L.next[t]
    IN  IF n = NULL \/ e[t] < e[n] \/ t # L.head THEN L
        ELSE add_timer([L EXCEPT !.head = n, !.prev[n] = NULL, !.next[t] = NULL], e, t)

adjust_timer(L, e, t) ==
    LET n == L.next[t]
        p == L.prev[t]
    IN  IF n = NULL \/ e[t] < e[n] THEN L
        ELSE IF t = L.head
             THEN add_timer([L EXCEPT !.head = n, !.prev[n] = NULL,
                                      !.next[t] = NULL], e, t)
             ELSE InsertAfter([L EXCEPT !.next = [@ EXCEPT ![p] = n, ![t] = NULL],
                                        !.prev = [@ EXCEPT ![n] = p, ![t] = NULL]],
                              e, t, n)

\* Fault: the successor of a deleted node still points back at it.
delete_timerOneWay(L, t) ==
    IF t = L.head /\ t = L.tail THEN [L EXCEPT !.head = NULL, !.tail = NULL]
    ELSE IF t = L.head
         THEN [L EXCEPT !.head = L.next[t], !.prev[L.next[t]] = NULL]
    ELSE IF t = L.tail
         THEN [L EXCEPT !.tail = L.prev[t], !.next[L.prev[t]] = NULL]
    ELSE [L EXCEPT !.next[L.prev[t]] = L.next[t]]

delete_timer(L, t) ==
    IF t = L.head /\ t = L.tail THEN [L EXCEPT !.head = NULL, !.tail = NULL]
    ELSE IF t = L.head
         THEN [L EXCEPT !.head = L.next[t], !.prev[L.next[t]] = NULL]
    ELSE IF t = L.tail
         THEN [L EXCEPT !.tail = L.prev[t], !.next[L.prev[t]] = NULL]
    ELSE [L EXCEPT !.next[L.prev[t]] = L.next[t], !.prev[L.next[t]] = L.prev[t]]

\* The nodes tick() frees: from the head up to the first that is not due.
Expired(L, e, cur) ==
    LET node == Walk(L, L.head)
        k    == Min({i \in 0..(N + 1) : node[i] = NULL \/ cur < e[node[i]]})
    IN  {node[i] : i \in 0..(k - 1)}

\* tick() moves head past them; neither tail nor the new head's prev is reset.
tick(L, e, cur) ==
    LET node == Walk(L, L.head)
    IN  [L EXCEPT !.head = node[Cardinality(Expired(L, e, cur))]]

-----------------------------------------------------------------------------
(* The caller (the event loop) and the clock.                               *)

Init ==
    /\ lst = [head |-> NULL, tail |-> NULL,
              next |-> [t \in Timers |-> NULL], prev |-> [t \in Timers |-> NULL]]
    /\ expire = [t \in Timers |-> 0]
    /\ heap = {}
    /\ now = 0

\* new util_timer, whose constructor clears both links, then add_timer.
Add(t, d) ==
    /\ t \notin heap
    /\ heap' = heap \cup {t}
    /\ expire' = [expire EXCEPT ![t] = now + d]
    /\ lst' = add_timer([lst EXCEPT !.next[t] = NULL, !.prev[t] = NULL], expire', t)
    /\ UNCHANGED now

\* Fault: the distance is added to the old expiry time.
AdjustAdds(t, d) ==
    /\ t \in heap
    /\ expire' = [expire EXCEPT ![t] = @ + d]
    /\ lst' = adjust_timer(lst, expire', t)
    /\ UNCHANGED <<heap, now>>

\* expire = now + d, then adjust_timer, whose contract covers later times only
\* (time(NULL) is assumed not to step back).
Adjust(t, d) ==
    /\ t \in heap
    /\ now + d >= expire[t]
    /\ expire' = [expire EXCEPT ![t] = now + d]
    /\ lst' = adjust_timer(lst, expire', t)
    /\ UNCHANGED <<heap, now>>

Delete(t) ==
    /\ t \in heap
    /\ lst' = delete_timer(lst, t)
    /\ heap' = heap \ {t}
    /\ UNCHANGED <<expire, now>>

Tick ==
    /\ lst' = tick(lst, expire, now)
    /\ heap' = heap \ Expired(lst, expire, now)
    /\ UNCHANGED <<expire, now>>

Clock ==
    /\ now' \in (now + 1)..MaxTime
    /\ UNCHANGED <<lst, expire, heap>>

Next == \/ \E t \in Timers, d \in Timeouts : Add(t, d) \/ Adjust(t, d)
        \/ \E t \in Timers : Delete(t)
        \/ Tick
        \/ Clock

Spec == Init /\ [][Next]_vars

-----------------------------------------------------------------------------
TypeOK ==
    /\ lst \in [head : Pointers, tail : Pointers,
                next : [Timers -> Pointers], prev : [Timers -> Pointers]]
    /\ expire \in [Timers -> 0..(MaxTime + Max(Timeouts))]
    /\ heap \subseteq Timers
    /\ now \in 0..MaxTime

\* Following next from head meets every live node exactly once and nothing
\* else, in ascending order of expiry as docs/面试相关.md says, and ends at NULL;
\* tail is the last of them; and every node but the head has its predecessor in
\* prev.  So no member function, after any history of adds, adjustments,
\* deletions and ticks, follows a pointer that tick() or delete_timer left
\* dangling.
WellLinked ==
    LET node == Walk(lst, lst.head)
        n    == Cardinality(heap)
    IN  /\ {node[i] : i \in 0..(n - 1)} = heap
        /\ node[n] = NULL
        /\ n > 0 => lst.tail = node[n - 1]
        /\ \A i \in 1..(n - 1) : /\ lst.prev[node[i]] = node[i - 1]
                                 /\ expire[node[i - 1]] <= expire[node[i]]

\* The list implements the set of running timers, and tick() its Tick: it frees
\* every timer that is due, and no timer that is not.
Abstract == INSTANCE TimerSet WITH due <- [t \in heap |-> expire[t]]
ImplementsTimerSet == Abstract!Spec /\ [][Tick => Abstract!Tick]_vars
=============================================================================
