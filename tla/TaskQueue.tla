----------------------------- MODULE TaskQueue -----------------------------
(***************************************************************************)
(* What the thread pool of src/src/thredpool promises the event loop, with *)
(* its lock and semaphore abstracted away: a bounded first-in-first-out    *)
(* queue.  A task that is accepted is handed to one worker, once, in its   *)
(* turn.                                                                   *)
(***************************************************************************)
EXTENDS Naturals, Sequences

CONSTANTS Requests,     \* http_conn objects
          Workers,
          MaxRequest,   \* m_max_request
          None

VARIABLES waiting,      \* accepted, not handed out yet
          serving       \* the request each worker is at, or None

vars == <<waiting, serving>>

Init == waiting = <<>> /\ serving = [w \in Workers |-> None]

Accept(r) ==
    /\ Len(waiting) < MaxRequest
    /\ waiting' = Append(waiting, r)
    /\ UNCHANGED serving

Hand(w) ==
    /\ waiting # <<>> /\ serving[w] = None
    /\ waiting' = Tail(waiting)
    /\ serving' = [serving EXCEPT ![w] = Head(waiting)]

Finish(w) ==
    /\ serving[w] # None
    /\ serving' = [serving EXCEPT ![w] = None]
    /\ UNCHANGED waiting

Next == \/ \E r \in Requests : Accept(r)
        \/ \E w \in Workers : Hand(w) \/ Finish(w)

Spec == Init /\ [][Next]_vars
=============================================================================
