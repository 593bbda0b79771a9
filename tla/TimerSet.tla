------------------------------ MODULE TimerSet ------------------------------
(***************************************************************************)
(* What the timer container of src/src/lst_timer promises its caller, with *)
(* the linked list abstracted away: a set of running timers, each with an  *)
(* absolute expiry time.  A timer can be started, pushed back, cancelled,  *)
(* and a tick removes the timers that are due, all of them and no other.   *)
(***************************************************************************)
EXTENDS Naturals

CONSTANTS Timers,     \* addresses a util_timer can be allocated at
          Timeouts,   \* distances from now at which a caller sets an expiry
          MaxTime     \* bound on the clock

VARIABLES due,        \* the expiry time of every running timer
          now         \* time(NULL)

vars == <<due, now>>

Running == DOMAIN due

Init == due = [t \in {} |-> 0] /\ now = 0

Start(t, d) ==
    /\ t \notin Running
    /\ due' = [x \in Running \cup {t} |-> IF x = t THEN now + d ELSE due[x]]
    /\ UNCHANGED now

Extend(t, d) ==
    /\ t \in Running
    /\ now + d >= due[t]
    /\ due' = [due EXCEPT ![t] = now + d]
    /\ UNCHANGED now

Cancel(t) ==
    /\ t \in Running
    /\ due' = [x \in Running \ {t} |-> due[x]]
    /\ UNCHANGED now

Tick ==
    /\ due' = [x \in {y \in Running : now < due[y]} |-> due[x]]
    /\ UNCHANGED now

Elapse == now' \in (now + 1)..MaxTime /\ UNCHANGED due

Next == \/ \E t \in Timers, d \in Timeouts : Start(t, d) \/ Extend(t, d)
        \/ \E t \in Timers : Cancel(t)
        \/ Tick
        \/ Elapse

Spec == Init /\ [][Next]_vars
=============================================================================
