------------------------------- MODULE LogProofs -------------------------------
(***************************************************************************)
(* Theorems about module Log: for any number of threads and lines, any     *)
(* m_split_lines and any midnights.                                        *)
(***************************************************************************)
EXTENDS Log, FiniteSetTheorems, TLAPS

(***************************************************************************)
(* Types, locks, and which thread can be where.                            *)
(***************************************************************************)

Writing == {"idle", "push", "pushing", "full"} \cup DOMAIN Entry \cup Inside

\* The flusher does nothing but pop and put, and nothing at all in the synchronous mode;
\* the others never pop.  A text that is about to be used is a line.
Roles ==
    /\ \A t \in Threads :
        /\ pc[t] \in Writing
        /\ pc[t] # "idle" => line[t] \in Lines /\ my_tm[t] \in Nat
        /\ pc[t] \in {"put", "putting", "push", "pushing", "full"} => log_str[t] = line[t]
        /\ pc[t] = "copying" => m_buf = line[t]
        /\ ~m_is_async => pc[t] \notin {"push", "pushing", "full"}
    /\ pc[Flusher] \in {"idle", "pop", "popping", "empty", "put", "putting"}
    /\ pc[Flusher] \in {"put", "putting"} => log_str[Flusher] \in Lines
    /\ ~m_is_async => pc[Flusher] = "idle"

BaseInv == TypeOK /\ Roles

LEMMA EntryIs ==
    /\ DOMAIN Entry = {"count", "format", "put", "flush"}
    /\ Entry["count"] = "counting" /\ Entry["format"] = "formatting"
    /\ Entry["put"] = "putting" /\ Entry["flush"] = "flushing"
    /\ Labels = {"idle", "push", "pushing", "full", "pop", "popping", "empty", "count",
                 "format", "put", "flush", "counting", "opening", "formatting", "copying",
                 "putting", "flushing"}
BY DEF Entry, Labels, Inside

\* Where Lock leads to.
LEMMA LockCases ==
    ASSUME NEW t \in All, Lock(t)
    PROVE  \/ pc[t] = "count" /\ pc' = [pc EXCEPT ![t] = "counting"]
           \/ pc[t] = "format" /\ pc' = [pc EXCEPT ![t] = "formatting"]
           \/ pc[t] = "put" /\ pc' = [pc EXCEPT ![t] = "putting"]
           \/ pc[t] = "flush" /\ pc' = [pc EXCEPT ![t] = "flushing"]
BY EntryIs DEF Lock, Goto

LEMMA BaseInitially == Init => BaseInv
<1> SUFFICES ASSUME Init PROVE BaseInv
  OBVIOUS
<1> USE LogAssumption, EntryIs DEF LogAssumption, Init, All
<1>1. \A t \in All : pc[t] \in {"idle", "pop"} /\ (t \in Threads => pc[t] = "idle")
  OBVIOUS
<1>2. m_mutex \notin All /\ m_fp # None /\ m_fp \in Nat \X Nat /\ 0 \in 0..MaxLines
  OBVIOUS
<1>3. pc \in [All -> Labels] /\ m_queue \in Seq(Lines) /\ disk \subseteq (Nat \X Nat) \X Lines
  BY <1>1
<1>4. \A t \in All : pc[t] \notin Inside /\ pc[t] \notin {"opening", "pushing", "popping"}
  BY <1>1 DEF Inside
<1>5. TypeOK
  BY <1>1, <1>2, <1>3, <1>4 DEF TypeOK
<1>6. Roles
  BY <1>1 DEF Roles, Writing
<1> QED BY <1>5, <1>6 DEF BaseInv

\* Whoever is inside a critical section is alone there.
LEMMA Alone ==
    ASSUME TypeOK, NEW t \in All, pc[t] \in Inside
    PROVE  m_mutex = t /\ \A u \in All \ {t} : pc[u] \notin Inside
BY DEF TypeOK

LEMMA BaseInductive == BaseInv /\ [Next]_vars => BaseInv'
<1> SUFFICES ASSUME BaseInv, [Next]_vars PROVE BaseInv'
  OBVIOUS
<1> USE LogAssumption, EntryIs
        DEF LogAssumption, BaseInv, All, Inside, fileVars, countVars, queueVars, callVars,
            Lines, Goto, Unlock
<1>1. ASSUME NEW t \in Threads, Call(t) PROVE BaseInv'
  <2>1. given + 1 \in Lines /\ given + 1 \in 0..MaxLines /\ pc[t] = "idle"
    BY <1>1 DEF Call, TypeOK
  <2>2. TypeOK'
    BY <1>1, <2>1 DEF Call, TypeOK
  <2>3. Roles'
    BY <1>1, <2>1 DEF Call, Roles, TypeOK, Writing
  <2> QED BY <2>2, <2>3
<1>2. ASSUME NEW t \in All, Lock(t) PROVE BaseInv'
  <2>1. m_mutex = None /\ m_mutex' = t /\ \A u \in All : pc[u] \notin Inside
    BY <1>2 DEF Lock, TypeOK
  <2>2. /\ pc' \in [All -> Labels]
        /\ pc'[t] \in {"counting", "formatting", "putting", "flushing"}
        /\ \A u \in All \ {t} : pc'[u] = pc[u]
    BY <1>2, LockCases DEF TypeOK
  <2>3. TypeOK'
    BY <1>2, <2>1, <2>2 DEF Lock, TypeOK
  <2>4. Roles'
    BY <1>2, <2>2, LockCases DEF Lock, Roles, TypeOK, Writing
  <2> QED BY <2>3, <2>4
<1>3. ASSUME NEW t \in All, Count(t) PROVE BaseInv'
  <2>1. m_mutex = t /\ (\A u \in All \ {t} : pc[u] \notin Inside) /\ m_fp # None
        /\ t \in Threads /\ pc[t] = "counting"
    BY <1>3, Alone DEF Count, Roles, TypeOK
  <2>2. CASE Rotates(t)
    <3>1. Close /\ pc' = [pc EXCEPT ![t] = "opening"] /\ m_mutex' = m_mutex
      BY <1>3, <2>2 DEF Count
    <3>2. disk' \subseteq (Nat \X Nat) \X Lines /\ buffer' = {} /\ m_fp' = None
      BY <3>1, <2>1 DEF Close, TypeOK
    <3>3. TypeOK'
      BY <1>3, <2>1, <3>1, <3>2 DEF Count, TypeOK
    <3>4. Roles'
      BY <1>3, <2>1, <3>1 DEF Count, Roles, TypeOK, Writing
    <3> QED BY <3>3, <3>4
  <2>3. CASE ~Rotates(t)
    <3>1. pc' = [pc EXCEPT ![t] = "format"] /\ m_mutex' = None /\ UNCHANGED fileVars
      BY <1>3, <2>3 DEF Count
    <3>2. TypeOK'
      BY <1>3, <2>1, <3>1 DEF Count, TypeOK
    <3>3. Roles'
      BY <1>3, <2>1, <3>1 DEF Count, Roles, TypeOK, Writing
    <3> QED BY <3>2, <3>3
  <2> QED BY <2>2, <2>3
<1>4. ASSUME NEW t \in All, Open(t) PROVE BaseInv'
  <2>1. m_mutex = t /\ (\A u \in All \ {t} : pc[u] \notin Inside)
        /\ t \in Threads /\ my_tm[t] \in Nat /\ pc[t] = "opening"
    BY <1>4, Alone DEF Open, Roles, TypeOK
  <2>2. m_count \div m_split_lines \in Nat
    BY DEF TypeOK
  <2>3. m_fp' \in Nat \X Nat /\ m_count' \in Nat /\ m_today' \in Nat /\ m_fp' # None
    BY <1>4, <2>1, <2>2 DEF Open, NewName, TypeOK
  <2>4. TypeOK'
    BY <1>4, <2>1, <2>3 DEF Open, TypeOK
  <2>5. Roles'
    BY <1>4, <2>1 DEF Open, Roles, TypeOK, Writing
  <2> QED BY <2>4, <2>5
<1>5. ASSUME NEW t \in All, Format(t) PROVE BaseInv'
  <2>1. m_mutex = t /\ (\A u \in All \ {t} : pc[u] \notin Inside)
        /\ t \in Threads /\ pc[t] = "formatting" /\ line[t] \in Lines
    BY <1>5, Alone DEF Format, Roles, TypeOK
  <2>2. TypeOK'
    BY <1>5, <2>1 DEF Format, TypeOK
  <2>3. Roles'
    BY <1>5, <2>1 DEF Format, Roles, TypeOK, Writing
  <2> QED BY <2>2, <2>3
<1>6. ASSUME NEW t \in All, Copy(t) PROVE BaseInv'
  <2>1. m_mutex = t /\ (\A u \in All \ {t} : pc[u] \notin Inside)
        /\ t \in Threads /\ pc[t] = "copying" /\ line[t] \in Lines /\ m_buf = line[t]
    BY <1>6, Alone DEF Copy, Roles, TypeOK
  <2>2. TypeOK'
    BY <1>6, <2>1 DEF Copy, TypeOK
  <2>3. Roles'
    BY <1>6, <2>1 DEF Copy, Roles, TypeOK, Writing
  <2> QED BY <2>2, <2>3
<1>7. ASSUME NEW t \in All, Put(t) PROVE BaseInv'
  <2>1. m_mutex = t /\ (\A u \in All \ {t} : pc[u] \notin Inside)
        /\ pc[t] = "putting" /\ log_str[t] \in Lines
    BY <1>7, Alone DEF Put, Roles, TypeOK
  <2>2. TypeOK'
    BY <1>7, <2>1 DEF Put, TypeOK
  <2>3. Roles'
    BY <1>7, <2>1 DEF Put, Roles, TypeOK, Writing
  <2> QED BY <2>2, <2>3
<1>8. ASSUME NEW t \in All, Flush(t) PROVE BaseInv'
  <2>1. m_mutex = t /\ (\A u \in All \ {t} : pc[u] \notin Inside) /\ m_fp # None
        /\ t \in Threads /\ pc[t] = "flushing" /\ line[t] \in Lines
    BY <1>8, Alone DEF Flush, Roles, TypeOK
  <2>2. disk' \subseteq (Nat \X Nat) \X Lines /\ buffer' = {} /\ returned' \subseteq Lines
    <3>1. m_fp \in Nat \X Nat /\ buffer \subseteq Lines
          /\ disk \subseteq (Nat \X Nat) \X Lines /\ returned \subseteq Lines
      BY <2>1 DEF TypeOK
    <3>2. \A l \in buffer : <<m_fp, l>> \in (Nat \X Nat) \X Lines
      BY <3>1
    <3>3. /\ disk' = disk \cup {<<m_fp, l>> : l \in buffer} /\ buffer' = {}
          /\ returned' = returned \cup {line[t]}
      BY <1>8 DEF Flush
    <3>4. disk' \subseteq (Nat \X Nat) \X Lines
      <4> SUFFICES ASSUME NEW d \in disk' PROVE d \in (Nat \X Nat) \X Lines
        OBVIOUS
      <4>1. d \in disk \/ \E l \in buffer : d = <<m_fp, l>>
        BY <3>3
      <4> QED BY <3>1, <3>2, <4>1
    <3> QED BY <2>1, <3>1, <3>3, <3>4
  <2>3. TypeOK'
    BY <1>8, <2>1, <2>2 DEF Flush, TypeOK
  <2>4. Roles'
    BY <1>8, <2>1 DEF Flush, Roles, TypeOK, Writing
  <2> QED BY <2>3, <2>4
<1>9. ASSUME NEW t \in All, LockQueue(t) PROVE BaseInv'
  <2>1. TypeOK'
    BY <1>9 DEF LockQueue, TypeOK
  <2>2. Roles'
    BY <1>9 DEF LockQueue, Roles, TypeOK, Writing
  <2> QED BY <2>1, <2>2
<1>10. ASSUME NEW t \in All, Push(t) PROVE BaseInv'
  <2>1. t \in Threads /\ pc[t] = "pushing" /\ log_str[t] \in Lines /\ q_mutex = t
    BY <1>10 DEF Push, Roles, TypeOK
  <2>2. /\ pc'[t] \in {"full", "flush"}
        /\ \A u \in All \ {t} : pc'[u] = pc[u] \/ (pc[u] = "empty" /\ pc'[u] = "pop")
        /\ pc' \in [All -> Labels]
    <3>1. pc \in [All -> Labels]
      BY DEF TypeOK
    <3>2. Broadcast(t, "full", "empty", "pop") \/ Broadcast(t, "flush", "empty", "pop")
      BY <1>10 DEF Push
    <3> QED BY <3>1, <3>2 DEF Broadcast
  <2>3. m_queue' \in Seq(Lines)
    <3>1. m_queue \in Seq(Lines)
      BY DEF TypeOK
    <3>2. m_queue' = m_queue \/ m_queue' = Append(m_queue, log_str[t])
      BY <1>10 DEF Push
    <3> QED BY <2>1, <3>1, <3>2
  <2>4. \A u \in All : pc'[u] \in {"pushing", "popping"} => q_mutex' = u
    BY <1>10, <2>1, <2>2 DEF Push, TypeOK
  <2>5. TypeOK'
    BY <1>10, <2>1, <2>2, <2>3, <2>4 DEF Push, TypeOK
  <2>6. Roles'
    BY <1>10, <2>1, <2>2 DEF Push, Roles, TypeOK, Writing
  <2> QED BY <2>5, <2>6
<1>11. ASSUME NEW t \in All, Pop(t) PROVE BaseInv'
  <2>1. t = Flusher /\ pc[t] = "popping" /\ q_mutex = t
    BY <1>11 DEF Pop, Roles, TypeOK, Writing
  <2>2. /\ pc'[t] \in {"empty", "put"}
        /\ \A u \in All \ {t} : pc'[u] = pc[u] \/ (pc[u] = "full" /\ pc'[u] = "push")
        /\ pc' \in [All -> Labels]
    <3>1. pc \in [All -> Labels]
      BY DEF TypeOK
    <3>2. CASE pc' = [pc EXCEPT ![t] = "empty"]
      BY <3>1, <3>2
    <3>3. CASE Broadcast(t, "put", "full", "push")
      BY <3>1, <3>3 DEF Broadcast
    <3> QED BY <1>11, <3>2, <3>3 DEF Pop
  <2>3. /\ m_queue' \in Seq(Lines) /\ log_str' \in [All -> Lines \cup {None}]
        /\ pc'[t] = "put" => log_str'[t] \in Lines
        /\ \A u \in Threads : log_str'[u] = log_str[u]
    <3>1. m_queue \in Seq(Lines) /\ log_str \in [All -> Lines \cup {None}]
      BY DEF TypeOK
    <3>2. CASE m_queue = <<>>
      <4>1. pc'[t] = "empty"
        BY <1>11, <3>2 DEF Pop, TypeOK
      <4> QED BY <1>11, <3>1, <3>2, <4>1 DEF Pop
    <3>3. CASE m_queue # <<>>
      <4>1. Head(m_queue) \in Lines /\ Tail(m_queue) \in Seq(Lines)
        BY <3>1, <3>3
      <4> QED BY <1>11, <2>1, <3>1, <3>3, <4>1 DEF Pop
    <3> QED BY <3>2, <3>3
  <2>4. \A u \in All : pc'[u] \notin {"pushing", "popping"}
    BY <2>1, <2>2 DEF TypeOK
  <2>a. /\ UNCHANGED <<m_is_async, m_mutex, m_buf, m_fp, buffer, disk, m_count, m_today,
                       late, line, my_tm, given, returned, today>>
        /\ q_mutex' = None
    BY <1>11 DEF Pop
  <2>b. \A u \in All : /\ pc'[u] \in Inside <=> pc[u] \in Inside
                       /\ pc'[u] = "opening" <=> pc[u] = "opening"
    BY <2>1, <2>2
  <2>c. /\ \A u \in All : pc'[u] \in Inside <=> m_mutex' = u
        /\ m_fp' = None <=> \E u \in Threads : pc'[u] = "opening"
    BY <2>a, <2>b DEF TypeOK
  <2>d. /\ pc' \in [All -> Labels] /\ m_queue' \in Seq(Lines)
        /\ log_str' \in [All -> Lines \cup {None}]
    BY <2>2, <2>3
  <2>5. TypeOK'
    <3> HIDE DEF Lines, Inside, All
    <3> QED BY <2>4, <2>a, <2>c, <2>d DEF TypeOK
  <2>6. Roles'
    BY <1>11, <2>1, <2>2, <2>3 DEF Pop, Roles, TypeOK, Writing
  <2> QED BY <2>5, <2>6
<1>12. CASE NewDay
  BY <1>12 DEF NewDay, TypeOK, Roles
<1>13. CASE UNCHANGED vars
  BY <1>13 DEF vars, TypeOK, Roles
<1> QED BY <1>1, <1>2, <1>3, <1>4, <1>5, <1>6, <1>7, <1>8, <1>9, <1>10, <1>11, <1>12, <1>13
        DEF Next, Step, Write

\* The state is well typed, whoever is inside a critical section holds its lock, and the
\* file is closed only while a thread that rotates the files holds it.
THEOREM TypeCorrect == Spec => []TypeOK
<1>1. BaseInv => TypeOK
  BY DEF BaseInv
<1> QED BY <1>1, BaseInitially, BaseInductive, PTL DEF Spec

(***************************************************************************)
(* Where the lines are.                                                    *)
(***************************************************************************)

\* No two calls have the same line, and none has a line whose macro has returned.
LineInv ==
    /\ \A t \in Threads :
        /\ pc[t] = "idle" => line[t] = None
        /\ line[t] # None => line[t] <= given /\ line[t] \notin returned
    /\ \A t, u \in Threads : line[t] = line[u] /\ line[t] # None => t = u
    /\ \A l \in returned : l <= given

LEMMA LinesInitially == Init => LineInv
BY DEF Init, LineInv

LEMMA LinesInductive == BaseInv /\ LineInv /\ [Next]_vars => LineInv'
<1> SUFFICES ASSUME BaseInv, LineInv, [Next]_vars PROVE LineInv'
  OBVIOUS
<1>0. /\ line \in [Threads -> Lines \cup {None}] /\ given \in 0..MaxLines
      /\ pc \in [All -> Labels] /\ returned \subseteq Lines /\ None \notin Nat
      /\ Threads \subseteq All /\ MaxLines \in Nat /\ Flusher \notin Threads
  BY LogAssumption DEF LogAssumption, BaseInv, TypeOK, All
<1> USE <1>0 DEF LineInv
<1>1. ASSUME NEW t \in Threads, Call(t) PROVE LineInv'
  <2>1. /\ line[t] = None /\ given' = given + 1 /\ line' = [line EXCEPT ![t] = given + 1]
        /\ pc' = [pc EXCEPT ![t] = "count"] /\ UNCHANGED returned
    BY <1>1 DEF Call, Goto, callVars
  <2>2. given + 1 \in Nat /\ \A l \in Lines : l <= given => l # given + 1 /\ l <= given + 1
    BY DEF Lines
  <2> QED BY <2>1, <2>2
<1>2. ASSUME NEW t \in All, Flush(t) PROVE LineInv'
  <2>1. /\ t \in Threads /\ line[t] \in Lines /\ line' = [line EXCEPT ![t] = None]
        /\ returned' = returned \cup {line[t]} /\ pc' = [pc EXCEPT ![t] = "idle"]
        /\ UNCHANGED given
    BY <1>2 DEF Flush, Goto, BaseInv, Roles, All, Writing
  <2>2. line[t] # None
    BY <2>1 DEF Lines
  <2> QED BY <2>1, <2>2
<1>3. ASSUME UNCHANGED <<line, given, returned>>,
             \A t \in Threads : pc'[t] = "idle" => pc[t] = "idle"
      PROVE  LineInv'
  BY <1>3
<1>4. ASSUME NEW t \in All, Lock(t) PROVE LineInv'
  <2>1. \A u \in Threads : pc'[u] = "idle" => pc[u] = "idle"
    BY <1>4, LockCases
  <2> QED BY <1>3, <1>4, <2>1 DEF Lock, callVars
<1>5. ASSUME NEW t \in All, Push(t) PROVE LineInv'
  BY <1>3, <1>5 DEF Push, Broadcast, callVars
<1>6. ASSUME NEW t \in All, Pop(t) PROVE LineInv'
  <2>1. \/ pc' = [pc EXCEPT ![t] = "empty"]
        \/ Broadcast(t, "put", "full", "push")
    BY <1>6 DEF Pop, Goto
  <2>2. \A u \in Threads : pc'[u] = "idle" => pc[u] = "idle"
    BY <2>1 DEF Broadcast
  <2> QED BY <1>3, <1>6, <2>2 DEF Pop, callVars
<1>7. ASSUME NEW t \in All,
             Count(t) \/ Open(t) \/ Format(t) \/ Copy(t) \/ Put(t) \/ LockQueue(t)
      PROVE  LineInv'
  <2>1. \A u \in Threads : pc'[u] = "idle" => pc[u] = "idle"
    BY <1>7 DEF Count, Open, Format, Copy, Put, LockQueue, Goto
  <2> QED BY <1>3, <1>7, <2>1 DEF Count, Open, Format, Copy, Put, LockQueue, callVars
<1>8. CASE NewDay
  BY <1>3, <1>8 DEF NewDay, callVars
<1>9. CASE UNCHANGED vars
  BY <1>3, <1>9 DEF vars, callVars
<1> QED BY <1>1, <1>2, <1>4, <1>5, <1>6, <1>7, <1>8, <1>9 DEF Next, Step, Write

OnDisk(l) == \E d \in disk : d[2] = l
Stored(l) == l \in buffer \/ OnDisk(l)
Before    == {"count", "counting", "opening", "format", "formatting", "copying", "put",
              "putting"}

\* Synchronous: a line is in stdio's buffer or on the disk, once, from its fputs() on; it
\* is on the disk when its macro has returned.
PlaceInv == ~m_is_async =>
    /\ \A l \in Lines : Stored(l) => l <= given
    /\ \A t \in Threads : pc[t] \in Before => ~Stored(line[t])
    /\ \A t \in Threads : pc[t] \in {"flush", "flushing"} => Stored(line[t])
    /\ \A l \in returned : OnDisk(l)
    /\ \A d, e \in disk : d[2] = e[2] => d = e
    /\ \A l \in buffer : ~OnDisk(l)

LEMMA PlacesInitially == Init => PlaceInv
<1> SUFFICES ASSUME Init PROVE PlaceInv
  OBVIOUS
<1>1. \A t \in Threads : pc[t] = "idle"
  BY LogAssumption DEF LogAssumption, Init, All
<1>2. buffer = {} /\ disk = {} /\ returned = {}
  BY DEF Init
<1> QED BY <1>1, <1>2 DEF PlaceInv, Stored, OnDisk, Before

\* fclose() and fflush() bring what is in the buffer to the disk, and nothing else.
LEMMA Emptied ==
    ASSUME TypeOK, disk' = disk \cup {<<m_fp, l>> : l \in buffer}, buffer' = {},
           \A d, e \in disk : d[2] = e[2] => d = e,
           \A l \in buffer : ~OnDisk(l)
    PROVE  /\ \A l : OnDisk(l)' <=> Stored(l)
           /\ \A d, e \in disk' : d[2] = e[2] => d = e
<1>1. \A d : d \in disk' <=> d \in disk \/ \E l \in buffer : d = <<m_fp, l>>
  OBVIOUS
<1>2. \A l : <<m_fp, l>>[2] = l
  OBVIOUS
<1>3. \A l : OnDisk(l)' <=> Stored(l)
  BY <1>1, <1>2 DEF OnDisk, Stored
<1>4. \A d, e \in disk' : d[2] = e[2] => d = e
  BY <1>1, <1>2 DEF OnDisk
<1> QED BY <1>3, <1>4

LEMMA PlacesInductive == BaseInv /\ LineInv /\ PlaceInv /\ [Next]_vars => PlaceInv'
<1> SUFFICES ASSUME BaseInv, LineInv, PlaceInv, [Next]_vars, ~m_is_async PROVE PlaceInv'
  BY DEF PlaceInv, Next, Step, Write, vars, Call, Lock, Count, Open, Format, Copy, Put, Flush,
         LockQueue, Push, Pop, NewDay
<1>0. /\ line \in [Threads -> Lines \cup {None}] /\ given \in 0..MaxLines
      /\ pc \in [All -> Labels] /\ returned \subseteq Lines /\ None \notin Nat
      /\ buffer \subseteq Lines /\ disk \subseteq (Nat \X Nat) \X Lines
      /\ Threads \subseteq All /\ MaxLines \in Nat /\ Flusher \notin Threads
  BY LogAssumption DEF LogAssumption, BaseInv, TypeOK, All
<1>a. \A t \in All : pc[t] # "idle" => t \in Threads /\ line[t] \in Lines
  BY DEF BaseInv, Roles, All
<1>b. \A t \in All : pc[t] \notin {"push", "pushing", "full", "pop", "popping", "empty"}
  BY EntryIs DEF BaseInv, Roles, All, Writing, Inside
<1> USE <1>0, <1>a, <1>b DEF PlaceInv
\* Steps after which everything is where it was and no thread has come to its fputs().
<1>1. ASSUME UNCHANGED <<buffer, disk, line, given, returned, m_is_async>>,
             \A t \in Threads : /\ pc'[t] \in Before => pc[t] \in Before
                                /\ pc'[t] \in {"flush", "flushing"} =>
                                      pc[t] \in {"flush", "flushing"}
      PROVE  PlaceInv'
  BY <1>1 DEF Stored, OnDisk
<1>2. ASSUME NEW t \in Threads, Call(t) PROVE PlaceInv'
  <2>1. /\ given' = given + 1 /\ line' = [line EXCEPT ![t] = given + 1]
        /\ pc' = [pc EXCEPT ![t] = "count"]
        /\ UNCHANGED <<returned, buffer, disk, m_is_async>>
        /\ given < MaxLines
    BY <1>2 DEF Call, Goto, callVars, fileVars
  <2>2. given + 1 \in Lines /\ \A l \in Lines : l <= given => l # given + 1 /\ l <= given + 1
    BY <2>1 DEF Lines
  <2>3. \A l : Stored(l)' <=> Stored(l)
    BY <2>1 DEF Stored, OnDisk
  <2>4. \A l : OnDisk(l)' <=> OnDisk(l)
    BY <2>1 DEF OnDisk
  <2>5. ~Stored(given + 1)
    BY <2>2
  <2>6. \A l \in Lines : Stored(l)' => l <= given'
    BY <2>1, <2>2, <2>3
  <2>7. \A u \in Threads : /\ pc'[u] \in Before => ~Stored(line'[u])
                           /\ pc'[u] \in {"flush", "flushing"} => Stored(line'[u])
    BY <2>1, <2>5
  <2>8. \A u \in Threads : /\ pc'[u] \in Before => ~Stored(line[u])'
                           /\ pc'[u] \in {"flush", "flushing"} => Stored(line[u])'
    BY <2>1, <2>7 DEF Stored, OnDisk
  <2> QED BY <2>1, <2>4, <2>6, <2>8
<1>3. ASSUME NEW t \in All, Lock(t) PROVE PlaceInv'
  <2>1. \A u \in Threads : /\ pc'[u] \in Before => pc[u] \in Before
                           /\ pc'[u] \in {"flush", "flushing"} =>
                                 pc[u] \in {"flush", "flushing"}
    BY <1>3, LockCases DEF Before
  <2> QED BY <1>1, <1>3, <2>1 DEF Lock, callVars, fileVars
\* A step that empties the buffer and takes nobody to or past the fputs().
<1>4. ASSUME disk' = disk \cup {<<m_fp, l>> : l \in buffer}, buffer' = {},
             UNCHANGED <<given, m_is_async>>,
             \A u \in Threads : /\ pc'[u] \in Before => pc[u] \in Before /\ line'[u] = line[u]
                                /\ pc'[u] \in {"flush", "flushing"} =>
                                      pc[u] \in {"flush", "flushing"} /\ line'[u] = line[u],
             \A l \in returned' : Stored(l)
      PROVE  PlaceInv'
  <2>1. /\ \A l : OnDisk(l)' <=> Stored(l)
        /\ \A d, e \in disk' : d[2] = e[2] => d = e
    BY <1>4, Emptied DEF BaseInv
  <2>2. \A l : Stored(l)' <=> Stored(l)
    BY <1>4, <2>1 DEF Stored
  <2>3. \A u \in Threads : /\ pc'[u] \in Before => ~Stored(line[u])'
                           /\ pc'[u] \in {"flush", "flushing"} => Stored(line[u])'
    <3>1. \A u \in Threads : /\ pc'[u] \in Before => ~Stored(line'[u])
                             /\ pc'[u] \in {"flush", "flushing"} => Stored(line'[u])
      BY <1>4
    <3>2. \A u \in Threads : Stored(line[u])' <=> Stored(line'[u])
      BY <1>4, <1>0, Emptied DEF Stored, OnDisk, BaseInv
    <3> QED BY <3>1, <3>2
  <2> QED BY <1>4, <2>1, <2>2, <2>3
<1>5. ASSUME NEW t \in All, Count(t) PROVE PlaceInv'
  <2>1. \A u \in Threads : /\ pc'[u] \in Before => pc[u] \in Before
                           /\ pc'[u] \in {"flush", "flushing"} =>
                                 pc[u] \in {"flush", "flushing"}
    BY <1>5 DEF Count, Goto, Before
  <2>2. UNCHANGED <<line, given, returned, m_is_async>>
    BY <1>5 DEF Count, callVars
  <2>3. CASE Rotates(t)
    BY <1>4, <1>5, <2>1, <2>2, <2>3 DEF Count, Close, Stored
  <2>4. CASE ~Rotates(t)
    BY <1>1, <1>5, <2>1, <2>2, <2>4 DEF Count, fileVars
  <2> QED BY <2>3, <2>4
<1>6. ASSUME NEW t \in All, Open(t) \/ Format(t) \/ Copy(t) PROVE PlaceInv'
  <2>1. \A u \in Threads : /\ pc'[u] \in Before => pc[u] \in Before
                           /\ pc'[u] \in {"flush", "flushing"} =>
                                 pc[u] \in {"flush", "flushing"}
    BY <1>6 DEF Open, Format, Copy, Goto, Before
  <2> QED BY <1>1, <1>6, <2>1 DEF Open, Format, Copy, callVars, fileVars
<1>7. ASSUME NEW t \in All, Put(t) PROVE PlaceInv'
  <2>1. t \in Threads /\ pc[t] = "putting" /\ line[t] \in Lines /\ log_str[t] = line[t]
    BY <1>7 DEF Put, BaseInv, Roles
  <2>2. /\ buffer' = buffer \cup {line[t]} /\ pc' = [pc EXCEPT ![t] = "flush"]
        /\ UNCHANGED <<disk, line, given, returned, m_is_async>>
    BY <1>7, <2>1 DEF Put, Goto, callVars
  <2>3. ~Stored(line[t]) /\ line[t] <= given /\ line[t] # None
    BY <2>1 DEF Before, LineInv, Lines
  <2>4. \A l : Stored(l)' <=> Stored(l) \/ l = line[t]
    BY <2>2 DEF Stored, OnDisk
  <2>5. \A l : OnDisk(l)' <=> OnDisk(l)
    BY <2>2 DEF OnDisk
  <2>6. \A u \in Threads : /\ pc'[u] \in Before => ~Stored(line[u])'
                           /\ pc'[u] \in {"flush", "flushing"} => Stored(line[u])'
    <3>1. \A u \in Threads : Stored(line[u])' <=> Stored(line[u]) \/ line[u] = line[t]
      BY <2>2 DEF Stored, OnDisk
    <3>2. \A u \in Threads \ {t} : line[u] # line[t]
      BY <2>1, <2>3 DEF LineInv
    <3> QED BY <2>1, <2>2, <3>1, <3>2 DEF Before
  <2>7. \A l \in buffer' : ~OnDisk(l)'
    BY <2>2, <2>3, <2>5 DEF Stored
  <2> QED BY <2>2, <2>3, <2>4, <2>5, <2>6, <2>7
<1>8. ASSUME NEW t \in All, Flush(t) PROVE PlaceInv'
  <2>1. /\ pc[t] = "flushing" /\ t \in Threads /\ line' = [line EXCEPT ![t] = None]
        /\ disk' = disk \cup {<<m_fp, l>> : l \in buffer} /\ buffer' = {}
        /\ returned' = returned \cup {line[t]} /\ pc' = [pc EXCEPT ![t] = "idle"]
        /\ UNCHANGED <<given, m_is_async>>
    BY <1>8 DEF Flush, Goto
  <2>2. \A u \in Threads : /\ pc'[u] \in Before => pc[u] \in Before /\ line'[u] = line[u]
                           /\ pc'[u] \in {"flush", "flushing"} =>
                                 pc[u] \in {"flush", "flushing"} /\ line'[u] = line[u]
    BY <2>1 DEF Before
  <2>3. \A l \in returned' : Stored(l)
    BY <2>1 DEF Stored
  <2> QED BY <1>4, <2>1, <2>2, <2>3
<1>9. ASSUME NEW t \in All, LockQueue(t) \/ Push(t) \/ Pop(t) PROVE FALSE
  BY <1>9 DEF LockQueue, Push, Pop
<1>10. CASE NewDay
  BY <1>1, <1>10 DEF NewDay, callVars, fileVars
<1>11. CASE UNCHANGED vars
  BY <1>1, <1>11 DEF vars, callVars, fileVars
<1> QED BY <1>2, <1>3, <1>5, <1>6, <1>7, <1>8, <1>9, <1>10, <1>11 DEF Next, Step, Write

LEMMA DurableFromInv == BaseInv /\ PlaceInv => Durable
<1> SUFFICES ASSUME BaseInv, PlaceInv, ~m_is_async, NEW l \in returned
             PROVE  \E f \in Files : /\ <<f, l>> \in disk
                                     /\ \A g \in Files \ {f} : l \notin Contents(g)
  BY DEF Durable
<1>1. PICK d \in disk : d[2] = l
  BY DEF PlaceInv, OnDisk
<1>2. d = <<d[1], l>> /\ d[1] \in Files
  BY <1>1 DEF BaseInv, TypeOK, Files
<1>3. \A g \in Files \ {d[1]} : l \notin Contents(g)
  <2>1. l \notin buffer
    BY <1>1 DEF PlaceInv, OnDisk
  <2>2. \A g : <<g, l>> \in disk => <<g, l>> = d
    BY <1>1 DEF PlaceInv
  <2> QED BY <1>2, <2>1, <2>2 DEF Contents
<1> QED BY <1>1, <1>2, <1>3

\* Synchronous: when LOG_INFO() has returned, its line is in exactly one file and has left
\* the process, however the threads' rotations, fputs() and fflush() interleave.
THEOREM DurableOnReturn == Spec => []Durable
<1>1. Init => BaseInv /\ LineInv /\ PlaceInv
  BY BaseInitially, LinesInitially, PlacesInitially
<1>2. BaseInv /\ LineInv /\ PlaceInv /\ [Next]_vars => (BaseInv /\ LineInv /\ PlaceInv)'
  BY BaseInductive, LinesInductive, PlacesInductive
<1> QED BY <1>1, <1>2, DurableFromInv, PTL DEF Spec

(***************************************************************************)
(* The lengths of the files.                                               *)
(***************************************************************************)

LEMMA Divided ==
    ASSUME NEW c \in Nat, NEW s \in Nat \ {0}
    PROVE  /\ c % s \in 0..(s - 1) /\ c \div s \in Nat
           /\ (c + 1) % s # 0 => (c + 1) % s = (c % s) + 1 /\ (c + 1) \div s = c \div s
           /\ (c + 1) % s = 0 => (c + 1) \div s = (c \div s) + 1
           /\ 0 % s = 0 /\ 0 \div s = 0
<1>1. c % s \in 0..(s - 1) /\ c \div s \in Nat
  OBVIOUS
<1>2. (c + 1) % s # 0 => (c + 1) % s = (c % s) + 1 /\ (c + 1) \div s = c \div s
  OBVIOUS
<1>3. (c + 1) % s = 0 => (c + 1) \div s = (c \div s) + 1
  OBVIOUS
<1>4. 0 % s = 0 /\ 0 \div s = 0
  OBVIOUS
<1> QED BY <1>1, <1>2, <1>3, <1>4

\* Asynchronous: once there is a line in the queue, its lock is lost, and the flusher
\* has nothing to put.
QueueInv ==
    /\ pc[Flusher] \notin {"put", "putting"}
    /\ m_queue # <<>> => /\ q_mutex \in Threads
                         /\ \A t \in All : pc[t] \notin {"pushing", "popping"}

LEMMA QueueInitially == Init => QueueInv
BY LogAssumption DEF LogAssumption, Init, QueueInv, All

LEMMA QueueInductive == BaseInv /\ QueueInv /\ [Next]_vars => QueueInv'
<1> SUFFICES ASSUME BaseInv, QueueInv, [Next]_vars PROVE QueueInv'
  OBVIOUS
<1>0. /\ pc \in [All -> Labels] /\ Flusher \in All /\ Flusher \notin Threads
      /\ Threads \subseteq All /\ All = Threads \cup {Flusher} /\ None \notin All
      /\ m_queue \in Seq(Lines) /\ m_max_size \in Nat \ {0}
  BY LogAssumption DEF LogAssumption, BaseInv, TypeOK, All
<1> USE <1>0 DEF QueueInv
<1>1. ASSUME UNCHANGED <<m_queue, q_mutex>>,
             \A t \in All : pc'[t] \in {"pushing", "popping"} => pc[t] \in {"pushing", "popping"},
             pc'[Flusher] \in {"put", "putting"} => pc[Flusher] \in {"put", "putting"}
      PROVE  QueueInv'
  BY <1>1
<1>2. ASSUME NEW t \in All, Lock(t) PROVE QueueInv'
  <2>1. /\ \A u \in All : pc'[u] \in {"pushing", "popping"} => pc[u] \in {"pushing", "popping"}
        /\ pc'[Flusher] \in {"put", "putting"} => pc[Flusher] \in {"put", "putting"}
    BY <1>2, LockCases DEF BaseInv, Roles
  <2> QED BY <1>1, <1>2, <2>1 DEF Lock, queueVars
<1>3. ASSUME NEW t \in All,
             Count(t) \/ Open(t) \/ Format(t) \/ Copy(t) \/ Put(t) \/ Flush(t)
      PROVE  QueueInv'
  <2>1. /\ \A u \in All : pc'[u] \in {"pushing", "popping"} => pc[u] \in {"pushing", "popping"}
        /\ pc'[Flusher] \in {"put", "putting"} => pc[Flusher] \in {"put", "putting"}
    BY <1>3 DEF Count, Open, Format, Copy, Put, Flush, Goto, BaseInv, Roles
  <2> QED BY <1>1, <1>3, <2>1 DEF Count, Open, Format, Copy, Put, Flush, queueVars
<1>4. ASSUME NEW t \in Threads, Call(t) PROVE QueueInv'
  BY <1>1, <1>4 DEF Call, Goto, queueVars
<1>5. ASSUME NEW t \in All, LockQueue(t) PROVE QueueInv'
  <2>1. m_queue = <<>> /\ m_queue' = <<>>
    BY <1>5 DEF LockQueue
  <2>2. pc'[Flusher] \notin {"put", "putting"}
    BY <1>5 DEF LockQueue, Goto
  <2> QED BY <2>1, <2>2
<1>6. ASSUME NEW t \in All, Push(t) PROVE QueueInv'
  <2>1. pc[t] = "pushing" /\ q_mutex = t /\ t \in Threads /\ m_queue = <<>>
    BY <1>6 DEF Push, BaseInv, Roles, TypeOK
  <2>2. Broadcast(t, "flush", "empty", "pop") /\ q_mutex' = q_mutex
    BY <1>6, <2>1 DEF Push
  <2>3. \A u \in All \ {t} : pc[u] \notin {"pushing", "popping"}
    BY <2>1 DEF BaseInv, TypeOK
  <2> QED BY <2>1, <2>2, <2>3 DEF Broadcast
<1>7. ASSUME NEW t \in All, Pop(t) PROVE QueueInv'
  <2>1. pc[t] = "popping" /\ m_queue = <<>>
    BY <1>7 DEF Pop
  <2>2. pc' = [pc EXCEPT ![t] = "empty"] /\ m_queue' = m_queue
    BY <1>7, <2>1 DEF Pop, Goto
  <2> QED BY <2>1, <2>2
<1>8. CASE NewDay
  BY <1>1, <1>8 DEF NewDay, queueVars
<1>9. CASE UNCHANGED vars
  BY <1>1, <1>9 DEF vars, queueVars
<1> QED BY <1>2, <1>3, <1>4, <1>5, <1>6, <1>7, <1>8, <1>9 DEF Next, Step, Write

\* The open file is the one the day and the count say, and unless a thread has come late,
\* a file that is about to be opened is new.
FileInv ==
    /\ m_fp # None => m_fp = NewName
    /\ m_fp = None => buffer = {}
    /\ ~late =>
        /\ \A d \in disk : \/ d[1][1] < m_today
                           \/ d[1][1] = m_today /\ d[1][2] <= m_count \div m_split_lines
        /\ \A t \in Threads : pc[t] = "opening" =>
              /\ m_today <= my_tm[t]
              /\ my_tm[t] = m_today => \A d \in disk : d[1] # NewName

LEMMA FilesInitially == Init => FileInv
<1> SUFFICES ASSUME Init PROVE FileInv
  OBVIOUS
<1>1. m_fp = NewName /\ m_fp # None /\ disk = {}
  BY LogAssumption, Divided DEF LogAssumption, Init, NewName
<1>2. \A t \in Threads : pc[t] = "idle"
  BY LogAssumption DEF LogAssumption, Init, All
<1> QED BY <1>1, <1>2 DEF FileInv

LEMMA FilesInductive == BaseInv /\ QueueInv /\ FileInv /\ [Next]_vars => FileInv'
<1> SUFFICES ASSUME BaseInv, QueueInv, FileInv, [Next]_vars PROVE FileInv'
  OBVIOUS
<1>0. /\ pc \in [All -> Labels] /\ Threads \subseteq All /\ All = Threads \cup {Flusher}
      /\ m_count \in Nat /\ m_today \in Nat /\ m_split_lines \in Nat \ {0}
      /\ disk \subseteq (Nat \X Nat) \X Lines
      /\ \A t \in Threads : pc[t] # "idle" => my_tm[t] \in Nat
      /\ m_fp = None <=> \E t \in Threads : pc[t] = "opening"
      /\ m_fp \in (Nat \X Nat) \cup {None} /\ None \notin Nat \X Nat
  BY LogAssumption DEF LogAssumption, BaseInv, Roles, TypeOK, All
<1> USE <1>0
\* Steps that leave the files alone.
<1>1. ASSUME UNCHANGED <<m_fp, buffer, disk, m_count, m_today, late>>,
             \A t \in Threads : pc'[t] = "opening" => pc[t] = "opening" /\ my_tm'[t] = my_tm[t]
      PROVE  FileInv'
  BY <1>1 DEF FileInv, NewName
<1>2. ASSUME NEW t \in All, Lock(t) PROVE FileInv'
  <2>1. \A u \in Threads : pc'[u] = "opening" => pc[u] = "opening"
    BY <1>2, LockCases
  <2> QED BY <1>1, <1>2, <2>1 DEF Lock, fileVars, countVars, callVars
<1>3. ASSUME NEW t \in Threads, Call(t) PROVE FileInv'
  BY <1>1, <1>3 DEF Call, Goto, fileVars, countVars
<1>4. ASSUME NEW t \in All, Count(t) PROVE FileInv'
  <2>0. t \in Threads /\ pc[t] = "counting" /\ \A u \in Threads \ {t} : pc[u] # "opening"
    BY <1>4, Alone DEF Count, BaseInv, Roles, Inside
  <2>1. /\ m_fp # None /\ m_fp = NewName
        /\ m_count' = m_count + 1 /\ late' = (late \/ my_tm[t] < m_today)
        /\ UNCHANGED <<m_today, my_tm>>
    BY <1>4, <2>0 DEF Count, callVars, FileInv
  <2>2. CASE Rotates(t)
    <3>1. /\ disk' = disk \cup {<<m_fp, l>> : l \in buffer} /\ buffer' = {} /\ m_fp' = None
          /\ pc' = [pc EXCEPT ![t] = "opening"]
      BY <1>4, <2>2 DEF Count, Close, Goto
    <3> SUFFICES ASSUME ~late'
                 PROVE  /\ \A d \in disk' :
                              \/ d[1][1] < m_today
                              \/ d[1][1] = m_today /\ d[1][2] <= (m_count + 1) \div m_split_lines
                        /\ m_today <= my_tm[t]
                        /\ my_tm[t] = m_today => \A d \in disk' : d[1] # NewName'
      BY <2>0, <2>1, <3>1 DEF FileInv
    <3>2. \A d \in disk' : \/ d[1][1] < m_today
                           \/ d[1][1] = m_today /\ d[1][2] <= m_count \div m_split_lines
      <4>1. ~late /\ m_count \div m_split_lines \in Nat
        BY <2>1, Divided
      <4>2. ASSUME NEW l \in buffer PROVE <<m_fp, l>>[1] = <<m_today, m_count \div m_split_lines>>
        BY <2>1 DEF NewName
      <4> QED BY <3>1, <4>1, <4>2 DEF FileInv
    <3>3. /\ m_count \div m_split_lines \in Nat /\ (m_count + 1) \div m_split_lines \in Nat
          /\ m_count \div m_split_lines <= (m_count + 1) \div m_split_lines
          /\ (m_count + 1) % m_split_lines = 0 =>
                m_count \div m_split_lines < (m_count + 1) \div m_split_lines
      <4>1. (m_count + 1) % m_split_lines # 0 =>
               (m_count + 1) \div m_split_lines = m_count \div m_split_lines
        BY Divided
      <4>2. (m_count + 1) % m_split_lines = 0 =>
               (m_count + 1) \div m_split_lines = (m_count \div m_split_lines) + 1
        BY Divided
      <4>3. m_count \div m_split_lines \in Nat
        BY Divided
      <4> HIDE <1>0
      <4> QED BY <4>1, <4>2, <4>3
    <3>4. \A d \in disk' : d[1] \in Nat \X Nat
      BY <2>1, <3>1
    <3>5. my_tm[t] = m_today => \A d \in disk' : d[1] # NewName'
      <4> SUFFICES ASSUME my_tm[t] = m_today, NEW d \in disk' PROVE d[1] # NewName'
        OBVIOUS
      <4>1. (m_count + 1) % m_split_lines = 0
        BY <2>2 DEF Rotates
      <4>2. NewName' = <<m_today, (m_count + 1) \div m_split_lines>>
        BY <2>1 DEF NewName
      <4> QED BY <3>2, <3>3, <3>4, <4>1, <4>2
    <3>6. m_today <= my_tm[t]
      <4>1. ~(my_tm[t] < m_today)
        BY <2>1
      <4>2. my_tm[t] \in Nat
        BY <2>0
      <4> QED BY <4>1, <4>2
    <3> QED BY <3>2, <3>3, <3>4, <3>5, <3>6
  <2>3. CASE ~Rotates(t)
    <3>1. (m_count + 1) \div m_split_lines = m_count \div m_split_lines
      BY <2>3, Divided DEF Rotates
    <3>2. UNCHANGED <<m_fp, buffer, disk>> /\ \A u \in Threads : pc'[u] # "opening"
      BY <1>4, <2>0, <2>3 DEF Count, fileVars, Goto
    <3> QED BY <2>1, <3>1, <3>2 DEF FileInv, NewName
  <2> QED BY <2>2, <2>3
<1>5. ASSUME NEW t \in All, Open(t) PROVE FileInv'
  <2>0. /\ t \in Threads /\ pc[t] = "opening" /\ my_tm[t] \in Nat
        /\ \A u \in Threads \ {t} : pc[u] # "opening"
    BY <1>5, Alone DEF Open, BaseInv, Roles, Inside
  <2>1. /\ t \in Threads /\ pc[t] = "opening" /\ m_fp = None /\ my_tm[t] \in Nat
        /\ \A u \in Threads : pc'[u] # "opening"
        /\ UNCHANGED <<disk, buffer, late>>
    BY <1>5, <2>0 DEF Open, Goto
  <2>2. CASE my_tm[t] # m_today
    <3>1. m_fp' = <<my_tm[t], 0>> /\ m_today' = my_tm[t] /\ m_count' = 0
      BY <1>5, <2>2 DEF Open
    <3>2. m_fp' = NewName'
      BY <3>1, Divided DEF NewName
    <3>3. ~late => \A d \in disk : d[1][1] < my_tm[t]
      BY <2>1, <2>2 DEF FileInv
    <3> QED BY <2>1, <3>1, <3>2, <3>3 DEF FileInv
  <2>3. CASE my_tm[t] = m_today
    <3>1. m_fp' = NewName /\ UNCHANGED <<m_today, m_count>>
      BY <1>5, <2>3 DEF Open
    <3> QED BY <2>1, <3>1 DEF FileInv, NewName
  <2> QED BY <2>2, <2>3
<1>6. ASSUME NEW t \in All, Put(t) PROVE FileInv'
  <2>1. m_fp # None /\ UNCHANGED <<m_fp, disk, m_count, m_today, late, my_tm>>
        /\ pc[t] = "putting"
    BY <1>6, Alone DEF Put, countVars, callVars, BaseInv, Inside
  <2>2. \A u \in Threads : pc'[u] # "opening"
    BY <1>6, <2>1 DEF Put, Goto
  <2> QED BY <2>1, <2>2 DEF FileInv, NewName
<1>7. ASSUME NEW t \in All, Flush(t) PROVE FileInv'
  <2>1. /\ m_fp # None /\ m_fp = NewName /\ UNCHANGED <<m_fp, m_count, m_today, late>>
        /\ pc[t] = "flushing" /\ disk' = disk \cup {<<m_fp, l>> : l \in buffer}
    BY <1>7, Alone DEF Flush, countVars, BaseInv, Inside, FileInv
  <2>2. \A u \in Threads : pc'[u] # "opening"
    BY <1>7, <2>1 DEF Flush, Goto
  <2>3. m_count \div m_split_lines \in Nat
    BY Divided
  <2>4. ~late => \A d \in disk' : \/ d[1][1] < m_today
                                  \/ d[1][1] = m_today /\ d[1][2] <= m_count \div m_split_lines
    BY <2>1, <2>3 DEF FileInv, NewName
  <2> QED BY <2>1, <2>2, <2>4 DEF FileInv, NewName
<1>8. ASSUME NEW t \in All, Format(t) \/ Copy(t) \/ LockQueue(t) PROVE FileInv'
  <2>1. \A u \in Threads : pc'[u] = "opening" => pc[u] = "opening"
    BY <1>8 DEF Format, Copy, LockQueue, Goto
  <2> QED BY <1>1, <1>8, <2>1 DEF Format, Copy, LockQueue, fileVars, countVars, callVars
<1>9. ASSUME NEW t \in All, Push(t) \/ Pop(t) PROVE FileInv'
  <2>1. \A u \in Threads : pc'[u] = "opening" => pc[u] = "opening"
    BY <1>9 DEF Push, Pop, Goto, Broadcast
  <2> QED BY <1>1, <1>9, <2>1 DEF Push, Pop, fileVars, countVars, callVars
<1>10. CASE NewDay
  BY <1>1, <1>10 DEF NewDay, fileVars, countVars, callVars
<1>11. CASE UNCHANGED vars
  BY <1>1, <1>11 DEF vars, fileVars, countVars, callVars
<1> QED BY <1>2, <1>3, <1>4, <1>5, <1>6, <1>7, <1>8, <1>9, <1>10, <1>11 DEF Next, Step, Write


\* The threads whose lines are counted and not yet written.
OnWay == {t \in Threads : pc[t] \in {"format", "formatting", "copying", "put", "putting"}}

\* The open file has room for every line on its way, but for one a thread: those that
\* were counted for the file before it.
SizeInv == ~late =>
    /\ m_fp # None => Cardinality(Contents(m_fp)) + Cardinality(OnWay)
                         <= (m_count % m_split_lines) + Cardinality(Threads)
    /\ \A f \in Nat \X Nat : f # m_fp =>
          Cardinality(Contents(f)) <= m_split_lines - 1 + Cardinality(Threads)

LEMMA Countable ==
    ASSUME NEW S, S \subseteq Lines \/ S \subseteq Threads
    PROVE  /\ IsFiniteSet(S) /\ Cardinality(S) \in Nat
           /\ S \subseteq Threads => Cardinality(S) <= Cardinality(Threads)
<1>1. IsFiniteSet(Lines) /\ IsFiniteSet(Threads)
  <2>1. MaxLines \in Int /\ 1 \in Int
    BY LogAssumption DEF LogAssumption
  <2> QED BY <2>1, FS_Interval, ThreadsAssumption DEF ThreadsAssumption, Lines
<1>2. S \in SUBSET Lines => IsFiniteSet(S)
  BY <1>1, FS_Subset
<1>3. S \in SUBSET Threads => IsFiniteSet(S) /\ Cardinality(S) <= Cardinality(Threads)
  BY <1>1, FS_Subset
<1>4. IsFiniteSet(S)
  BY <1>2, <1>3
<1> QED BY <1>3, <1>4, FS_CardinalityType

LEMMA SizesInitially == Init => SizeInv
<1> SUFFICES ASSUME Init PROVE SizeInv
  OBVIOUS
<1>1. \A f : Contents(f) = {}
  BY DEF Init, Contents
<1>2. OnWay \subseteq Threads
  BY DEF OnWay
<1>3. Cardinality(OnWay) \in Nat /\ Cardinality(OnWay) <= Cardinality(Threads)
  BY <1>2, Countable
<1>4. Cardinality(Threads) \in Nat /\ Cardinality({}) = 0
  BY Countable, FS_EmptySet
<1>5. m_count % m_split_lines \in Nat /\ m_split_lines - 1 \in Nat
  BY LogAssumption, Divided DEF LogAssumption, Init
<1>6. /\ Cardinality(Contents(m_fp)) = 0
      /\ \A f \in Nat \X Nat : Cardinality(Contents(f)) = 0
  BY <1>1, <1>4
<1>7. m_split_lines - 1 + Cardinality(Threads) >= 0
  BY <1>4, <1>5
<1>8. Cardinality(Contents(m_fp)) + Cardinality(OnWay)
         <= (m_count % m_split_lines) + Cardinality(Threads)
  BY <1>3, <1>4, <1>5, <1>6
<1> QED BY <1>6, <1>7, <1>8 DEF SizeInv

LEMMA SizesInductive ==
    BaseInv /\ QueueInv /\ FileInv /\ SizeInv /\ [Next]_vars => SizeInv'
<1> SUFFICES ASSUME BaseInv, QueueInv, FileInv, SizeInv, [Next]_vars PROVE SizeInv'
  OBVIOUS
<1> DEFINE On   == {"format", "formatting", "copying", "put", "putting"}
           C(f) == {l \in Lines : <<f, l>> \in disk \/ (f = m_fp /\ l \in buffer)}
           D(f) == {l \in Lines : <<f, l>> \in disk' \/ (f = m_fp' /\ l \in buffer')}
           W    == {t \in Threads : pc[t] \in On}
           V    == {t \in Threads : pc'[t] \in On}
           T    == Cardinality(Threads)
           Room == m_count % m_split_lines
           Goal == /\ m_fp' # None =>
                         Cardinality(D(m_fp')) + Cardinality(V) <= (m_count' % m_split_lines) + T
                   /\ \A f \in Nat \X Nat : f # m_fp' =>
                         Cardinality(D(f)) <= m_split_lines - 1 + T
<1>0. /\ pc \in [All -> Labels] /\ Threads \subseteq All /\ All = Threads \cup {Flusher}
      /\ m_count \in Nat /\ m_split_lines \in Nat \ {0}
      /\ disk \subseteq (Nat \X Nat) \X Lines /\ buffer \subseteq Lines
      /\ m_fp = None <=> \E t \in Threads : pc[t] = "opening"
      /\ m_fp \in (Nat \X Nat) \cup {None} /\ None \notin Nat \X Nat
  BY LogAssumption DEF LogAssumption, BaseInv, TypeOK, All
<1>1. /\ \A f : IsFiniteSet(C(f)) /\ Cardinality(C(f)) \in Nat
      /\ \A f : IsFiniteSet(D(f)) /\ Cardinality(D(f)) \in Nat
      /\ IsFiniteSet(W) /\ Cardinality(W) \in Nat /\ Cardinality(W) <= T
      /\ IsFiniteSet(V) /\ Cardinality(V) \in Nat /\ Cardinality(V) <= T
      /\ T \in Nat
  BY Countable
<1>2. Room \in 0..(m_split_lines - 1)
  BY <1>0, Divided
<1>3. ~late => /\ m_fp # None => Cardinality(C(m_fp)) + Cardinality(W) <= Room + T
               /\ \A f \in Nat \X Nat : f # m_fp =>
                     Cardinality(C(f)) <= m_split_lines - 1 + T
  BY DEF SizeInv, Contents, OnWay
<1>4. SUFFICES ASSUME ~late' PROVE Goal
  BY DEF SizeInv, Contents, OnWay
<1>5. ~late
  BY <1>4 DEF Next, Step, Write, vars, Call, Lock, Count, Open, Format, Copy, Put, Flush,
              LockQueue, Push, Pop, NewDay, countVars
\* Steps that change no file and bring nobody onto the way.
<1>6. ASSUME \A f : D(f) = C(f), V \subseteq W, UNCHANGED <<m_fp, m_count>> PROVE Goal
  <2>1. Cardinality(V) <= Cardinality(W)
    BY <1>1, <1>6, FS_Subset
  <2> HIDE DEF C, D, V, W, T
  <2> QED BY <1>1, <1>2, <1>3, <1>5, <1>6, <2>1
<1>7. ASSUME UNCHANGED <<m_fp, m_count, disk, buffer>>, V \subseteq W PROVE Goal
  BY <1>6, <1>7
<1>8. ASSUME NEW t \in All, Lock(t) PROVE Goal
  <2>1. V \subseteq W
    BY <1>0, <1>8, LockCases
  <2> QED BY <1>7, <1>8, <2>1 DEF Lock, fileVars, countVars
<1>9. ASSUME NEW t \in Threads, Call(t) PROVE Goal
  BY <1>0, <1>7, <1>9 DEF Call, Goto, fileVars, countVars
<1>10. ASSUME NEW t \in All, Count(t) PROVE Goal
  <2>1. t \in Threads /\ pc[t] = "counting" /\ m_fp # None /\ m_count' = m_count + 1
    BY <1>0, <1>10, Alone DEF Count, BaseInv, Roles, Inside
  <2>2. CASE Rotates(t)
    <3>1. m_fp' = None /\ \A f \in Nat \X Nat : D(f) = C(f)
      BY <1>0, <1>10, <2>2 DEF Count, Close
    <3>2. Cardinality(C(m_fp)) <= m_split_lines - 1 + T
      <4> HIDE DEF C, W, T, Room
      <4> QED BY <1>0, <1>1, <1>2, <1>3, <1>5, <2>1
    <3>3. \A f \in Nat \X Nat : Cardinality(C(f)) <= m_split_lines - 1 + T
      BY <1>3, <1>5, <3>2
    <3> HIDE DEF C, D, T
    <3> QED BY <3>1, <3>3
  <2>3. CASE ~Rotates(t)
    <3>1. UNCHANGED <<m_fp, disk, buffer>> /\ pc' = [pc EXCEPT ![t] = "format"]
      BY <1>10, <2>3 DEF Count, Goto, fileVars
    <3>2. \A f : D(f) = C(f)
      BY <3>1
    <3>3. V = W \cup {t}
      BY <1>0, <2>1, <3>1
    <3>4. Cardinality(V) <= Cardinality(W) + 1
      BY <1>1, <3>3, FS_AddElement
    <3>5. m_count' % m_split_lines = Room + 1
      BY <1>0, <2>1, <2>3, Divided DEF Rotates
    <3> HIDE DEF C, D, V, W, T, Room
    <3> QED BY <1>1, <1>2, <1>3, <1>5, <2>1, <3>1, <3>2, <3>4, <3>5
  <2> QED BY <2>2, <2>3
<1>11. ASSUME NEW t \in All, Open(t) PROVE Goal
  <2>1. /\ t \in Threads /\ pc[t] = "opening" /\ m_fp = None /\ my_tm[t] \in Nat
        /\ buffer = {} /\ UNCHANGED <<disk, buffer>>
    BY <1>0, <1>11 DEF Open, BaseInv, Roles, FileInv
  <2>2. m_fp' \in Nat \X Nat /\ \A d \in disk : d[1] # m_fp'
    <3>1. CASE my_tm[t] # m_today
      <4>1. m_fp' = <<my_tm[t], 0>>
        BY <1>11, <3>1 DEF Open
      <4>2. m_today \in Nat /\ m_today <= my_tm[t]
        BY <1>5, <2>1 DEF FileInv, BaseInv, TypeOK
      <4>3. \A d \in disk : d[1][1] <= m_today
        BY <1>0, <1>5, <4>2 DEF FileInv
      <4>4. m_today < my_tm[t]
        BY <2>1, <3>1, <4>2
      <4>5. \A d \in disk : d[1][1] \in Nat
        BY <1>0
      <4> QED BY <2>1, <4>1, <4>2, <4>3, <4>4, <4>5
    <3>2. CASE my_tm[t] = m_today
      <4>1. m_fp' = NewName
        BY <1>11, <3>2 DEF Open
      <4>2. NewName \in Nat \X Nat
        BY <1>0, Divided DEF NewName, BaseInv, TypeOK
      <4> QED BY <1>5, <2>1, <3>2, <4>1, <4>2 DEF FileInv
    <3> QED BY <3>1, <3>2
  <2>3. D(m_fp') = {}
    BY <2>1, <2>2
  <2>4. \A f : D(f) = C(f)
    BY <2>1
  <2>5. m_count' \in Nat /\ m_count' % m_split_lines \in Nat
    <3>1. m_count' \in Nat
      BY <1>0, <1>11 DEF Open
    <3>2. m_split_lines \in Nat \ {0}
      BY <1>0
    <3>3. \A c \in Nat : c % m_split_lines \in Nat
      BY <3>2
    <3> QED BY <3>1, <3>3
  <2>6. \A f \in Nat \X Nat : f # m_fp
    BY <1>0, <2>1
  <2> HIDE DEF C, D, V, T
  <2> QED BY <1>1, <1>3, <1>5, <2>3, <2>4, <2>5, <2>6, FS_EmptySet
<1>12. ASSUME NEW t \in All, Put(t) PROVE Goal
  <2>1. t \in Threads /\ pc[t] = "putting" /\ m_fp # None /\ t \in W
    BY <1>0, <1>12, Alone DEF Put, BaseInv, QueueInv, Inside
  <2>2. /\ buffer' = buffer \cup {log_str[t]} /\ pc' = [pc EXCEPT ![t] = "flush"]
        /\ UNCHANGED <<m_fp, disk, m_count>> /\ log_str[t] \in Lines
    BY <1>12, <2>1, LogAssumption DEF LogAssumption, Put, Goto, countVars, BaseInv, Roles
  <2>3. V = W \ {t}
    BY <1>0, <2>1, <2>2
  <2>4. Cardinality(V) = Cardinality(W) - 1
    BY <1>1, <2>1, <2>3, FS_RemoveElement
  <2>5. D(m_fp) = C(m_fp) \cup {log_str[t]} /\ \A f : f # m_fp => D(f) = C(f)
    BY <2>2
  <2>6. Cardinality(D(m_fp)) <= Cardinality(C(m_fp)) + 1
    <3> DEFINE S == C(m_fp)
    <3>1. IsFiniteSet(S) /\ Cardinality(S) \in Nat
      BY <1>1
    <3>2. D(m_fp) = S \cup {log_str[t]}
      BY <2>5
    <3> HIDE DEF S
    <3>3. Cardinality(S \cup {log_str[t]}) <= Cardinality(S) + 1
      BY <3>1, FS_AddElement
    <3> QED BY <3>2, <3>3 DEF S
  <2>7. m_fp' = m_fp /\ m_count' = m_count
    BY <2>2
  <2>8. \A f \in Nat \X Nat : f # m_fp => Cardinality(D(f)) <= m_split_lines - 1 + T
    BY <1>3, <1>5, <2>5
  <2>9. Cardinality(C(m_fp)) + Cardinality(W) <= Room + T
    BY <1>3, <1>5, <2>1
  <2>10. Cardinality(D(m_fp)) \in Nat /\ Cardinality(C(m_fp)) \in Nat
    BY <1>1
  <2> HIDE DEF C, D, V, W, T, Room
  <2>11. Cardinality(D(m_fp)) + Cardinality(V) <= Room + T
    BY <1>1, <1>2, <2>4, <2>6, <2>9, <2>10
  <2> QED BY <2>7, <2>8, <2>11 DEF Room
<1>13. ASSUME NEW t \in All, Flush(t) PROVE Goal
  <2>1. /\ disk' = disk \cup {<<m_fp, l>> : l \in buffer} /\ buffer' = {}
        /\ UNCHANGED <<m_fp, m_count>> /\ pc' = [pc EXCEPT ![t] = "idle"]
    BY <1>13 DEF Flush, Goto, countVars
  <2>2. \A f : D(f) = C(f)
    BY <1>0, <2>1
  <2>3. V \subseteq W
    BY <1>0, <2>1
  <2> QED BY <1>6, <2>1, <2>2, <2>3
<1>14. ASSUME NEW t \in All, Format(t) \/ Copy(t) \/ LockQueue(t) PROVE Goal
  <2>1. V \subseteq W
    BY <1>0, <1>14 DEF Format, Copy, LockQueue, Goto
  <2> QED BY <1>7, <1>14, <2>1 DEF Format, Copy, LockQueue, fileVars, countVars
<1>15. ASSUME NEW t \in All, Push(t) \/ Pop(t) PROVE Goal
  <2>1. t = Flusher \/ ~Pop(t)
    BY <1>0, <1>15 DEF Pop, BaseInv, Roles, Writing, Inside, Entry
  <2>2. V \subseteq W
    <3>1. CASE Push(t)
      BY <1>0, <3>1 DEF Push, Broadcast
    <3>2. CASE Pop(t) /\ t = Flusher
      BY <1>0, <3>2, LogAssumption DEF LogAssumption, Pop, Goto, Broadcast
    <3> QED BY <1>15, <2>1, <3>1, <3>2
  <2> QED BY <1>7, <1>15, <2>2 DEF Push, Pop, fileVars, countVars
<1>16. CASE NewDay
  BY <1>7, <1>16 DEF NewDay, fileVars, countVars
<1>17. CASE UNCHANGED vars
  BY <1>7, <1>17 DEF vars, fileVars, countVars
<1> HIDE DEF Goal
<1> QED BY <1>8, <1>9, <1>10, <1>11, <1>12, <1>13, <1>14, <1>15, <1>16, <1>17
        DEF Next, Step, Write

LEMMA LimitFromInv == BaseInv /\ FileInv /\ SizeInv => SplitLimit
<1> SUFFICES ASSUME BaseInv, FileInv, SizeInv, ~late, NEW f \in Files
             PROVE  Cardinality(Contents(f)) <= m_split_lines + Cardinality(Threads) - 1
  BY DEF SplitLimit
<1>1. /\ m_count \in Nat /\ m_split_lines \in Nat \ {0} /\ m_fp \in (Nat \X Nat) \cup {None}
      /\ disk \subseteq (Nat \X Nat) \X Lines /\ None \notin Nat \X Nat
  BY LogAssumption DEF LogAssumption, BaseInv, TypeOK
<1>2. /\ Cardinality(Contents(f)) \in Nat /\ Cardinality(Threads) \in Nat
      /\ Cardinality(OnWay) \in Nat
  BY Countable DEF Contents, OnWay
<1>3. m_count % m_split_lines \in 0..(m_split_lines - 1)
  BY <1>1, Divided
<1>4. CASE f = m_fp /\ m_fp # None
  BY <1>1, <1>2, <1>3, <1>4 DEF SizeInv
<1>5. CASE f # m_fp
  BY <1>1, <1>2, <1>5 DEF SizeInv, Files
<1>6. CASE f = m_fp /\ m_fp = None
  <2>1. Contents(f) = {}
    BY <1>1, <1>6 DEF FileInv, Contents
  <2> QED BY <1>1, <1>2, <2>1, FS_EmptySet
<1> QED BY <1>4, <1>5, <1>6

\* A file has no more lines than m_split_lines and one for each other thread, whatever the
\* threads, as long as none has come to the lock with an older day.
THEOREM FilesKeepTheirLength == Spec => []SplitLimit
<1> DEFINE IInv == BaseInv /\ QueueInv /\ FileInv /\ SizeInv
<1>1. Init => IInv
  BY BaseInitially, QueueInitially, FilesInitially, SizesInitially
<1>2. IInv /\ [Next]_vars => IInv'
  BY BaseInductive, QueueInductive, FilesInductive, SizesInductive
<1>3. IInv => SplitLimit
  BY LimitFromInv
<1> QED BY <1>1, <1>2, <1>3, PTL DEF Spec
=============================================================================
