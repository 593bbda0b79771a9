---------------------------------- MODULE Log ----------------------------------
(***************************************************************************)
(* The log: write_log() and flush() as the macros LOG_INFO ... call them,  *)
(* the rotation of the files, the blocking queue of the asynchronous mode  *)
(* and the thread that empties it.  Every critical section is entered by   *)
(* Lock or LockQueue and left by the last step of its body.                *)
(***************************************************************************)
EXTENDS Integers, Sequences, FiniteSets

CONSTANTS
    Threads,          \* the threads of the server, all of which log
    Flusher,          \* the thread of async_write_log()
    m_split_lines,    \* lines of a file
    m_max_size,       \* of the blocking queue
    MaxLines,         \* bound on the lines that are logged
    MaxDay,           \* bound on the days that pass
    None

ASSUME LogAssumption ==
    /\ Flusher \notin Threads /\ None \notin Threads \cup {Flusher}
    /\ None \notin Nat /\ None \notin Nat \X Nat
    /\ m_split_lines \in Nat \ {0} /\ m_max_size \in Nat \ {0}
    /\ {MaxLines, MaxDay} \subseteq Nat

\* Only the length of a file depends on how many threads there are.
ASSUME ThreadsAssumption == IsFiniteSet(Threads)

VARIABLES
    m_is_async,
    m_mutex,          \* who holds the log's lock, or None
    m_count, m_today,
    m_fp,             \* the open file <<day, number>>, None between fclose() and fopen()
    m_buf,            \* the line that has been formatted last
    buffer,           \* the lines that stdio keeps for m_fp
    disk,             \* the lines that have been flushed: pairs <<file, line>>
    m_queue, q_mutex, \* the blocking queue and who holds its lock
    pc, line,         \* where each thread is, and the line of its macro call
    my_tm, log_str,   \* its local variables: the day, and the text
    today,            \* the day by the clock
    given, returned,  \* the lines so far, and those whose macro has returned
    late              \* a line with an older day than m_today has been counted

fileVars  == <<m_fp, buffer, disk>>
countVars == <<m_count, m_today, late>>
queueVars == <<m_queue, q_mutex>>
callVars  == <<line, my_tm, given, returned>>
vars == <<m_is_async, m_mutex, m_buf, fileVars, countVars, queueVars, callVars, log_str,
          pc, today>>

All   == Threads \cup {Flusher}
Lines == 1..MaxLines

\* The critical sections of m_mutex: where a thread waits for it, and where it goes on.
Entry  == [count |-> "counting", format |-> "formatting", put |-> "putting",
           flush |-> "flushing"]
Inside == {"counting", "opening", "formatting", "copying", "putting", "flushing"}
Labels == {"idle", "push", "pushing", "full", "pop", "popping", "empty"}
          \cup DOMAIN Entry \cup Inside

Goto(t, l) == pc' = [pc EXCEPT ![t] = l]
Unlock     == m_mutex' = None

-----------------------------------------------------------------------------
\* A macro is called: write_log() begins with the time of the call.
Call(t) ==
    /\ pc[t] = "idle" /\ given < MaxLines
    /\ given' = given + 1
    /\ line' = [line EXCEPT ![t] = given + 1]
    /\ my_tm' = [my_tm EXCEPT ![t] = today]
    /\ Goto(t, "count")
    /\ UNCHANGED <<m_is_async, m_mutex, m_buf, fileVars, countVars, queueVars, returned,
                   log_str, today>>

\* Fault: no lock.
LockNothing(t) ==
    /\ pc[t] \in DOMAIN Entry
    /\ m_mutex' = t
    /\ Goto(t, Entry[pc[t]])
    /\ UNCHANGED <<m_is_async, m_buf, fileVars, countVars, queueVars, callVars, log_str, today>>

Lock(t) ==
    /\ pc[t] \in DOMAIN Entry
    /\ m_mutex = None
    /\ m_mutex' = t
    /\ Goto(t, Entry[pc[t]])
    /\ UNCHANGED <<m_is_async, m_buf, fileVars, countVars, queueVars, callVars, log_str, today>>

\* Fault: the file is left open, with what stdio keeps for it.
CloseLeaks == m_fp' = None /\ buffer' = {} /\ UNCHANGED disk

Close ==
    /\ disk' = disk \cup {<<m_fp, l>> : l \in buffer}
    /\ buffer' = {}
    /\ m_fp' = None

Rotates(t) == my_tm[t] # m_today \/ (m_count + 1) % m_split_lines = 0

Count(t) ==
    /\ pc[t] = "counting"
    /\ m_count' = m_count + 1
    /\ late' = (late \/ my_tm[t] < m_today)
    /\ IF Rotates(t) THEN Close /\ Goto(t, "opening") /\ UNCHANGED m_mutex
                     ELSE Unlock /\ Goto(t, "format") /\ UNCHANGED fileVars
    /\ UNCHANGED <<m_is_async, m_buf, m_today, queueVars, callVars, log_str, today>>

\* Fault: the number is left off the name.
NewNameOfDay == <<m_today, 0>>

NewName == <<m_today, m_count \div m_split_lines>>

\* fopen() appends to a file that is there.
Open(t) ==
    /\ pc[t] = "opening"
    /\ IF my_tm[t] # m_today
       THEN m_fp' = <<my_tm[t], 0>> /\ m_today' = my_tm[t] /\ m_count' = 0
       ELSE m_fp' = NewName /\ UNCHANGED <<m_today, m_count>>
    /\ Unlock
    /\ Goto(t, "format")
    /\ UNCHANGED <<m_is_async, m_buf, buffer, disk, late, queueVars, callVars, log_str, today>>

Format(t) ==
    /\ pc[t] = "formatting"
    /\ m_buf' = line[t]
    /\ Goto(t, "copying")
    /\ UNCHANGED <<m_is_async, m_mutex, fileVars, countVars, queueVars, callVars, log_str,
                   today>>

Copy(t) ==
    /\ pc[t] = "copying"
    /\ log_str' = [log_str EXCEPT ![t] = m_buf]
    /\ Unlock
    /\ Goto(t, IF m_is_async THEN "push" ELSE "put")
    /\ UNCHANGED <<m_is_async, m_buf, fileVars, countVars, queueVars, callVars, today>>

\* Fault: the lock is kept.
PutKeepsLock(t) ==
    /\ pc[t] = "putting"
    /\ buffer' = buffer \cup {log_str[t]}
    /\ Goto(t, IF t = Flusher THEN "pop" ELSE "flush")
    /\ UNCHANGED <<m_is_async, m_mutex, m_buf, m_fp, disk, countVars, queueVars, callVars,
                   log_str, today>>

\* fputs(), of the caller or of the flusher.
Put(t) ==
    /\ pc[t] = "putting"
    /\ buffer' = buffer \cup {log_str[t]}
    /\ Unlock
    /\ Goto(t, IF t = Flusher THEN "pop" ELSE "flush")
    /\ UNCHANGED <<m_is_async, m_buf, m_fp, disk, countVars, queueVars, callVars, log_str,
                   today>>

\* flush(), and the macro returns.
Flush(t) ==
    /\ pc[t] = "flushing"
    /\ disk' = disk \cup {<<m_fp, l>> : l \in buffer}
    /\ buffer' = {}
    /\ returned' = returned \cup {line[t]}
    /\ line' = [line EXCEPT ![t] = None]
    /\ my_tm' = [my_tm EXCEPT ![t] = None]
    /\ log_str' = [log_str EXCEPT ![t] = None]
    /\ Unlock
    /\ Goto(t, "idle")
    /\ UNCHANGED <<m_is_async, m_buf, m_fp, countVars, queueVars, given, today>>

-----------------------------------------------------------------------------
(* block_queue.                                                             *)

Write(t) == Lock(t) \/ Count(t) \/ Open(t) \/ Format(t) \/ Copy(t) \/ Put(t) \/ Flush(t)

\* lock() of push() and pop(), and again when a wait is over.
LockQueue(t) ==
    /\ pc[t] \in {"push", "pop"}
    /\ q_mutex = None
    /\ q_mutex' = t
    /\ Goto(t, IF pc[t] = "push" THEN "pushing" ELSE "popping")
    /\ UNCHANGED <<m_is_async, m_mutex, m_buf, fileVars, countVars, m_queue, callVars,
                   log_str, today>>

\* t goes to next and broadcast() sends everybody who waits at from back to the lock.
Broadcast(t, next, from, back) ==
    pc' = [u \in All |-> IF u = t THEN next ELSE IF pc[u] = from THEN back ELSE pc[u]]

\* push(): a full queue is waited for; otherwise it returns without unlock().
Push(t) ==
    /\ pc[t] = "pushing"
    /\ IF Len(m_queue) >= m_max_size
       THEN /\ q_mutex' = None
            /\ Broadcast(t, "full", "empty", "pop")
            /\ UNCHANGED m_queue
       ELSE /\ m_queue' = Append(m_queue, log_str[t])
            /\ Broadcast(t, "flush", "empty", "pop")
            /\ UNCHANGED q_mutex
    /\ UNCHANGED <<m_is_async, m_mutex, m_buf, fileVars, countVars, callVars, log_str, today>>

Pop(t) ==
    /\ pc[t] = "popping"
    /\ q_mutex' = None
    /\ IF m_queue = <<>>
       THEN Goto(t, "empty") /\ UNCHANGED <<m_queue, log_str>>
       ELSE /\ log_str' = [log_str EXCEPT ![t] = Head(m_queue)]
            /\ m_queue' = Tail(m_queue)
            /\ Broadcast(t, "put", "full", "push")
    /\ UNCHANGED <<m_is_async, m_mutex, m_buf, fileVars, countVars, callVars, today>>

-----------------------------------------------------------------------------
\* Midnight.
NewDay ==
    /\ today < MaxDay
    /\ today' = today + 1
    /\ UNCHANGED <<m_is_async, m_mutex, m_buf, fileVars, countVars, queueVars, callVars,
                   log_str, pc>>

\* After init(), but for the line it logs itself; max_queue_size decides on the mode.
Init ==
    /\ m_is_async \in BOOLEAN
    /\ m_mutex = None /\ q_mutex = None
    /\ m_count = 0 /\ today = 1 /\ m_today = 1
    /\ m_fp = <<1, 0>>
    /\ m_buf = None /\ buffer = {} /\ disk = {}
    /\ m_queue = <<>>
    /\ pc = [t \in All |-> IF t = Flusher /\ m_is_async THEN "pop" ELSE "idle"]
    /\ line = [t \in Threads |-> None]
    /\ my_tm = [t \in Threads |-> None]
    /\ log_str = [t \in All |-> None]
    /\ given = 0 /\ returned = {}
    /\ late = FALSE

Step(t) == Write(t) \/ LockQueue(t) \/ Push(t) \/ Pop(t)

Next == \/ \E t \in Threads : Call(t)
        \/ \E t \in All : Step(t)
        \/ NewDay

Spec == Init /\ [][Next]_vars

\* A thread that can go on does, and has a lock when it is free for good.
FairSpec == Spec /\ \A t \in All : WF_vars(Step(t))

-----------------------------------------------------------------------------
\* Types; the thread inside a critical section holds its lock, and the file is closed
\* only inside one.
TypeOK ==
    /\ m_is_async \in BOOLEAN /\ late \in BOOLEAN
    /\ m_mutex \in All \cup {None} /\ q_mutex \in All \cup {None}
    /\ m_count \in Nat /\ today \in Nat /\ m_today \in Nat
    /\ m_fp \in (Nat \X Nat) \cup {None}
    /\ m_buf \in Lines \cup {None}
    /\ buffer \subseteq Lines
    /\ disk \subseteq (Nat \X Nat) \X Lines
    /\ m_queue \in Seq(Lines)
    /\ pc \in [All -> Labels]
    /\ line \in [Threads -> Lines \cup {None}]
    /\ my_tm \in [Threads -> Nat \cup {None}]
    /\ log_str \in [All -> Lines \cup {None}]
    /\ given \in 0..MaxLines /\ returned \subseteq Lines
    /\ \A t \in All : pc[t] \in Inside <=> m_mutex = t
    /\ \A t \in All : pc[t] \in {"pushing", "popping"} => q_mutex = t
    /\ m_fp = None <=> \E t \in Threads : pc[t] = "opening"

\* What a file holds, on the disk or in stdio's buffer.
Files       == {d[1] : d \in disk} \cup {m_fp}
Contents(f) == {l \in Lines : <<f, l>> \in disk \/ (f = m_fp /\ l \in buffer)}

\* Synchronous: when LOG_INFO() returns, its line is in exactly one file and has left
\* the process, even if another thread has rotated the files between the fputs() and
\* the fflush(), or between the rotation and the fputs().
Durable ==
    ~m_is_async => \A l \in returned :
        \E f \in Files : <<f, l>> \in disk /\ \A g \in Files \ {f} : l \notin Contents(g)

\* "每个日志文件最多可以有多少行日志": a file has no more lines than m_split_lines and one
\* for each other thread, which may have been between its count and its fputs(), unless
\* a thread came to the lock with yesterday's date and had an old file opened again.
SplitLimit ==
    ~late => \A f \in Files :
        Cardinality(Contents(f)) <= m_split_lines + Cardinality(Threads) - 1

\* Synchronous: nobody who logs is kept for ever.
Returns == ~m_is_async => \A t \in Threads : pc[t] # "idle" ~> pc[t] = "idle"

\* A line that is logged is on the disk in the end.
Recorded ==
    \A l \in Lines : given >= l ~> \E d \in disk : d[2] = l
=============================================================================
