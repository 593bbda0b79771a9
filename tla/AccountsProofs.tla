---------------------------- MODULE AccountsProofs ----------------------------
(***************************************************************************)
(* Theorems about module Accounts: for any number of workers, names and    *)
(* passwords, any number of requests, and restarts at any point.           *)
(***************************************************************************)
EXTENDS Accounts, TLAPS

(***************************************************************************)
(* Types and the lock.                                                     *)
(***************************************************************************)

LEMMA TypesInitially == Init => TypeOK
<1> SUFFICES ASSUME Init PROVE TypeOK
  OBVIOUS
<1>1. \A w \in Workers : pc[w] = "idle" /\ job[w] = NoJob /\ m_lock # w
  BY AccountsAssumption DEF Init, AccountsAssumption
<1>2. 0 \in 0..MaxRequests /\ 0 \in 0..MaxCrashes
  BY AccountsAssumption DEF AccountsAssumption
<1> QED BY <1>1, <1>2 DEF Init, TypeOK, Holding

\* NoJob is no request.
LEMMA NoJobIsNone == NoJob \notin Jobs
BY AccountsAssumption DEF AccountsAssumption, NoJob, Jobs

LEMMA TypesInductive == TypeOK /\ [Next]_vars => TypeOK'
<1> SUFFICES ASSUME TypeOK, [Next]_vars PROVE TypeOK'
  OBVIOUS
<1> USE AccountsAssumption, NoJobIsNone DEF TypeOK, AccountsAssumption, Holding, Goto, Decide
<1>1. ASSUME NEW w \in Workers, NEW j \in Jobs, Begin(w, j) PROVE TypeOK'
  BY <1>1 DEF Begin, Jobs, Ops
<1>2. ASSUME NEW w \in Workers, Find(w) PROVE TypeOK'
  <2>1. job[w] \in Jobs /\ job[w].op \in Ops /\ pc[w] = "find"
    BY <1>2 DEF Find, Jobs
  <2>2. \/ pc' = [pc EXCEPT ![w] = "answer"] /\ page' \in [Workers -> Pages \cup {None}]
        \/ pc' = [pc EXCEPT ![w] = "compare"] /\ page' = page /\ job[w].op = "login"
        \/ pc' = [pc EXCEPT ![w] = "lock"] /\ page' = page /\ job[w].op = "register"
    BY <1>2, <2>1 DEF Find, Found, Missed, Ops, Pages
  <2> QED BY <1>2, <2>1, <2>2 DEF Find
<1>3. ASSUME NEW w \in Workers, Lock(w) PROVE TypeOK'
  BY <1>3 DEF Lock
<1>4. ASSUME NEW w \in Workers, Query(w) PROVE TypeOK'
  <2>1. job[w] \in Jobs /\ pc[w] = "query"
    BY <1>4 DEF Query
  <2>2. <<job[w].name, job[w].password>> \in Names \X Passwords /\ job[w].name \in Names
    BY <2>1 DEF Jobs
  <2>3. /\ table' \in SUBSET (Names \X Passwords) /\ failed' \in SUBSET Names
        /\ page' \in [Workers -> Pages \cup {None}]
    BY <1>4, <2>2 DEF Query, Outcome, Pages, Taken
  <2> QED BY <1>4, <2>1, <2>3 DEF Query
<1>5. ASSUME NEW w \in Workers, Insert(w) PROVE TypeOK'
  BY <1>5 DEF Insert
<1>6. ASSUME NEW w \in Workers, Inserted(w) PROVE TypeOK'
  <2>1. job[w] \in Jobs /\ pc[w] = "inserting"
    BY <1>6 DEF Inserted
  <2>2. users' \in [Names -> Passwords \cup {None, Empty}]
    BY <1>6, <2>1 DEF Inserted, Jobs
  <2> QED BY <1>6, <2>1, <2>2 DEF Inserted
<1>7. ASSUME NEW w \in Workers, Unlock(w) PROVE TypeOK'
  BY <1>7 DEF Unlock
<1>8. ASSUME NEW w \in Workers, Compare(w) PROVE TypeOK'
  <2>1. job[w] \in Jobs /\ pc[w] = "compare"
    BY <1>8 DEF Compare
  <2>2. /\ users' \in [Names -> Passwords \cup {None, Empty}] /\ damaged' \in BOOLEAN
        /\ page' \in [Workers -> Pages \cup {None}]
    BY <1>8, <2>1 DEF Compare, Lookup, Jobs, Pages
  <2> QED BY <1>8, <2>1, <2>2 DEF Compare
<1>9. ASSUME NEW w \in Workers, Answer(w) PROVE TypeOK'
  <2>1. job[w] \in Jobs /\ pc[w] = "answer"
    BY <1>9 DEF Answer
  <2>2. told' \in SUBSET (Names \X Passwords)
    BY <1>9, <2>1 DEF Answer, Jobs
  <2> QED BY <1>9, <2>1, <2>2 DEF Answer
<1>10. CASE Restart
  <2>1. users' \in [Names -> Passwords \cup {None, Empty}]
    BY <1>10 DEF Restart, init_mysql, Loaded
  <2>2. \A w \in Workers : pc'[w] = "idle" /\ job'[w] = NoJob /\ m_lock' # w
    BY <1>10 DEF Restart
  <2>3. crashes' \in 0..MaxCrashes
    BY <1>10 DEF Restart
  <2> QED BY <1>10, <2>1, <2>2, <2>3 DEF Restart
<1>11. CASE UNCHANGED vars
  BY <1>11 DEF vars
<1> QED BY <1>1, <1>2, <1>3, <1>4, <1>5, <1>6, <1>7, <1>8, <1>9, <1>10, <1>11 DEF Next, Step

\* The state is well typed, and the worker between lock() and unlock(), and no other,
\* holds m_lock.
THEOREM TypeCorrect == Spec => []TypeOK
BY TypesInitially, TypesInductive, PTL DEF Spec

\* One worker at a time is at a registration.
LEMMA OneHolding ==
    ASSUME TypeOK, NEW v \in Workers, NEW w \in Workers, pc[v] \in Holding, pc[w] \in Holding
    PROVE  v = w
BY DEF TypeOK

(***************************************************************************)
(* The pages.                                                              *)
(***************************************************************************)

\* A worker has a page in mind only once it has come to decide on one, and success
\* only after its INSERT.
PageInv == \A w \in Workers :
    /\ page[w] = None <=> pc[w] \in {"idle", "find", "lock", "compare", "query"}
    /\ page[w] = "log" => /\ pc[w] \in {"insert", "inserting", "unlock", "answer"}
                          /\ job[w] \in Jobs
    /\ page[w] = "welcome" => pc[w] = "answer" /\ job[w] \in Jobs
    /\ pc[w] \in {"insert", "inserting", "unlock"} => page[w] \in {"log", "registerError"}

BaseInv == TypeOK /\ PageInv /\ None \notin Pages

LEMMA PagesInductive == BaseInv /\ [Next]_vars => BaseInv'
<1> SUFFICES ASSUME BaseInv, [Next]_vars PROVE BaseInv'
  OBVIOUS
<1>0. TypeOK' /\ None \notin Pages
  BY TypesInductive DEF BaseInv
<1>a. \A w \in Workers : pc[w] # "idle" => job[w] \in Jobs
  BY DEF BaseInv, TypeOK
<1> SUFFICES PageInv'
  BY <1>0 DEF BaseInv
<1> USE <1>0, <1>a DEF BaseInv, PageInv, Goto, Decide, Pages
<1>b. pc \in [Workers -> {"idle", "find", "compare", "lock", "answer"} \cup Holding]
      /\ job \in [Workers -> Jobs \cup {NoJob}] /\ page \in [Workers -> Pages \cup {None}]
  BY DEF TypeOK
<1> USE <1>b
<1>1. ASSUME NEW w \in Workers, NEW j \in Jobs, Begin(w, j) PROVE PageInv'
  BY <1>1 DEF Begin
<1>2. ASSUME NEW w \in Workers, Find(w) PROVE PageInv'
  BY <1>2 DEF Find, Found, Missed
<1>3. ASSUME NEW w \in Workers, Lock(w) PROVE PageInv'
  BY <1>3 DEF Lock
<1>4. ASSUME NEW w \in Workers, Query(w) PROVE PageInv'
  <2>1. /\ page' = [page EXCEPT ![w] = "log"] \/ page' = [page EXCEPT ![w] = "registerError"]
        /\ pc[w] = "query" /\ pc' = [pc EXCEPT ![w] = "insert"] /\ UNCHANGED job
    BY <1>4 DEF Query, Outcome
  <2> QED BY <2>1
<1>5. ASSUME NEW w \in Workers, Insert(w) PROVE PageInv'
  BY <1>5 DEF Insert
<1>6. ASSUME NEW w \in Workers, Inserted(w) PROVE PageInv'
  BY <1>6 DEF Inserted
<1>7. ASSUME NEW w \in Workers, Unlock(w) PROVE PageInv'
  BY <1>7 DEF Unlock
<1>8. ASSUME NEW w \in Workers, Compare(w) PROVE PageInv'
  <2>1. /\ page' = [page EXCEPT ![w] = "welcome"] \/ page' = [page EXCEPT ![w] = "logError"]
        /\ pc[w] = "compare" /\ pc' = [pc EXCEPT ![w] = "answer"] /\ UNCHANGED job
    BY <1>8 DEF Compare
  <2> QED BY <2>1
<1>9. ASSUME NEW w \in Workers, Answer(w) PROVE PageInv'
  BY <1>9 DEF Answer
<1>10. CASE Restart
  BY <1>10 DEF Restart
<1>11. CASE UNCHANGED vars
  BY <1>11 DEF vars
<1> QED BY <1>1, <1>2, <1>3, <1>4, <1>5, <1>6, <1>7, <1>8, <1>9, <1>10, <1>11 DEF Next, Step

(***************************************************************************)
(* The table and who is told of a success.                                 *)
(***************************************************************************)

Row(w) == <<job[w].name, job[w].password>>

\* Every success, told or about to be, has its row.  With a unique key there is one row a
\* name, and who is about to be told is the first and only one of its name.
WinInv ==
    /\ told \subseteq table
    /\ \A w \in Workers : page[w] = "log" => Row(w) \in table
    /\ unique =>
        /\ \A q \in table, r \in table : q[1] = r[1] => q = r
        /\ \A v \in Workers : page[v] = "log" =>
              /\ \A r \in told : r[1] # job[v].name
              /\ \A w \in Workers : page[w] = "log" /\ job[w].name = job[v].name => v = w

\* Steps that change neither the table nor who has been told, and decide on no success.
LEMMA WinUnchanged ==
    ASSUME WinInv, UNCHANGED <<unique, table, told>>,
           \A w \in Workers : page'[w] = "log" => page[w] = "log" /\ job'[w] = job[w]
    PROVE  WinInv'
BY DEF WinInv, Row

LEMMA WinQuery ==
    ASSUME BaseInv, WinInv, NEW w \in Workers, Query(w)
    PROVE  WinInv'
<1> DEFINE row == <<job[w].name, job[w].password>>
<1>1. /\ pc[w] = "query" /\ page[w] # "log" /\ job[w] \in Jobs
      /\ page \in [Workers -> Pages \cup {None}]
      /\ table \in SUBSET (Names \X Passwords)
  BY DEF Query, BaseInv, TypeOK, PageInv
<1>2. row \in Names \X Passwords /\ row[1] = job[w].name /\ job[w].name \in Names
  BY <1>1 DEF Jobs
<1>3. UNCHANGED <<unique, told, job>>
  BY DEF Query
<1>4. CASE Taken(row) /\ table' = table \cup {row} /\ Outcome(w, TRUE)
  <2>1. page' = [page EXCEPT ![w] = "log"]
    BY <1>4 DEF Outcome, Decide
  <2>2. \A v \in Workers : page'[v] = "log" => v = w \/ page[v] = "log"
    BY <1>1, <2>1
  <2>3. unique => \A r \in table : r[1] # job[w].name
    BY <1>2, <1>4 DEF Taken
  <2>4. unique => /\ \A r \in told : r[1] # job[w].name
                  /\ \A v \in Workers : page[v] = "log" => job[v].name # job[w].name
    <3>1. \A v \in Workers : page[v] = "log" => Row(v)[1] = job[v].name
      BY DEF Row
    <3> QED BY <2>3, <3>1 DEF WinInv
  <2>5. /\ told' \subseteq table'
        /\ \A v \in Workers : page'[v] = "log" => Row(v)' \in table'
    BY <1>3, <1>4, <2>2 DEF WinInv, Row
  <2>6. unique => \A q \in table', r \in table' : q[1] = r[1] => q = r
    BY <1>2, <1>4, <2>3 DEF WinInv
  <2>7. unique => \A v \in Workers : page'[v] = "log" =>
              /\ \A r \in told' : r[1] # job'[v].name
              /\ \A u \in Workers : page'[u] = "log" /\ job'[u].name = job'[v].name => v = u
    BY <1>3, <2>2, <2>4 DEF WinInv
  <2> QED BY <1>3, <2>5, <2>6, <2>7 DEF WinInv
<1>5. CASE Outcome(w, FALSE) /\ UNCHANGED table
  <2>1. page' = [page EXCEPT ![w] = "registerError"]
    BY <1>5 DEF Outcome, Decide
  <2> QED BY <1>1, <1>3, <1>5, <2>1, WinUnchanged
<1> QED BY <1>4, <1>5 DEF Query

LEMMA WinAnswer ==
    ASSUME BaseInv, WinInv, NEW w \in Workers, Answer(w)
    PROVE  WinInv'
<1>1. /\ job \in [Workers -> Jobs \cup {NoJob}] /\ page \in [Workers -> Pages \cup {None}]
      /\ None \notin Pages /\ "log" \in Pages
  BY DEF BaseInv, TypeOK, Pages
<1>2. /\ UNCHANGED <<unique, table>>
      /\ page' = [page EXCEPT ![w] = None] /\ job' = [job EXCEPT ![w] = NoJob]
  BY DEF Answer
<1>3. \A v \in Workers : page'[v] = "log" => v # w /\ page[v] = "log" /\ job'[v] = job[v]
  BY <1>1, <1>2
<1>4. CASE page[w] = "log"
  <2>1. /\ told' = told \cup {Row(w)} /\ Row(w) \in table /\ Row(w)[1] = job[w].name
    BY <1>4 DEF Answer, WinInv, Row
  <2>2. /\ told' \subseteq table'
        /\ \A v \in Workers : page'[v] = "log" => Row(v)' \in table'
    BY <1>2, <1>3, <2>1 DEF WinInv, Row
  <2>3. ASSUME unique, NEW v \in Workers, page'[v] = "log"
        PROVE  /\ \A r \in told' : r[1] # job'[v].name
               /\ \A u \in Workers : page'[u] = "log" /\ job'[u].name = job'[v].name => v = u
    <3>1. v # w /\ page[v] = "log" /\ job'[v] = job[v]
      BY <1>3, <2>3
    <3>2. job[v].name # job[w].name /\ \A r \in told : r[1] # job[v].name
      BY <1>4, <2>3, <3>1 DEF WinInv
    <3>3. \A u \in Workers : page'[u] = "log" /\ job'[u].name = job'[v].name => v = u
      BY <1>3, <2>3, <3>1 DEF WinInv
    <3> QED BY <2>1, <3>1, <3>2, <3>3
  <2> QED BY <1>2, <2>2, <2>3 DEF WinInv
<1>5. CASE page[w] # "log"
  BY <1>2, <1>3, <1>5, WinUnchanged DEF Answer
<1> QED BY <1>4, <1>5

LEMMA WinInductive == BaseInv /\ WinInv /\ [Next]_vars => WinInv'
<1> SUFFICES ASSUME BaseInv, WinInv, [Next]_vars PROVE WinInv'
  OBVIOUS
<1>a. /\ page \in [Workers -> Pages \cup {None}] /\ job \in [Workers -> Jobs \cup {NoJob}]
      /\ "log" \in Pages /\ None \notin Pages
      /\ \A w \in Workers : page[w] = "log" => pc[w] \in {"insert", "inserting", "unlock", "answer"}
  BY DEF BaseInv, TypeOK, PageInv, Pages
<1>1. ASSUME NEW w \in Workers, NEW j \in Jobs, Begin(w, j) PROVE WinInv'
  BY <1>1, <1>a, WinUnchanged DEF Begin
<1>2. ASSUME NEW w \in Workers, Find(w) PROVE WinInv'
  BY <1>2, <1>a, WinUnchanged DEF Find, Found, Missed, Decide
<1>3. ASSUME NEW w \in Workers, Lock(w) \/ Insert(w) \/ Inserted(w) \/ Unlock(w) PROVE WinInv'
  BY <1>3, WinUnchanged DEF Lock, Insert, Inserted, Unlock
<1>4. ASSUME NEW w \in Workers, Query(w) PROVE WinInv'
  BY <1>4, WinQuery
<1>5. ASSUME NEW w \in Workers, Compare(w) PROVE WinInv'
  BY <1>5, <1>a, WinUnchanged DEF Compare, Decide
<1>6. ASSUME NEW w \in Workers, Answer(w) PROVE WinInv'
  BY <1>6, WinAnswer
<1>7. CASE Restart
  BY <1>7, <1>a, WinUnchanged DEF Restart
<1>8. CASE UNCHANGED vars
  BY <1>8, WinUnchanged DEF vars
<1> QED BY <1>1, <1>2, <1>3, <1>4, <1>5, <1>6, <1>7, <1>8 DEF Next, Step

(***************************************************************************)
(* The map against the table.                                              *)
(***************************************************************************)

Regular == unique /\ ~damaged
Filing  == {w \in Workers : pc[w] \in {"insert", "inserting"}}

\* The names of all rows are in the map, or in the hands of the worker that is about to
\* put them there.
NamesInv ==
    \A r \in table : users[r[1]] # None \/ \E w \in Filing : page[w] = "log" /\ Row(w) = r

\* A password in the map, and one that is about to be put there, is that of a row, or
\* one whose INSERT failed.
EntriesInv ==
    /\ \A n \in Names, t \in Passwords : users[n] = t => <<n, t>> \in table \/ n \in failed
    /\ \A w \in Filing :
          \/ page[w] = "log" \/ job[w].name \in failed
          \/ pc[w] = "insert" /\ users[job[w].name] # None

\* With a unique key and no entry made by a search, the entry of a name for which no
\* INSERT failed is that of its row.
RowsInv ==
    /\ \A n \in Names : users[n] # Empty
    /\ \A r \in table : r[1] \notin failed =>
          \/ users[r[1]] = r[2]
          \/ \E w \in Filing : page[w] = "log" /\ Row(w) = r
    /\ \A w \in Filing : job[w].name \notin failed =>
          (page[w] = "log" <=> users[job[w].name] = None)

MapInv ==
    /\ ~damaged => /\ \A w \in Inserting : users[job[w].name] = None
                   /\ WelcomeIsRight
    /\ NamesInv /\ EntriesInv
    /\ Regular => RowsInv

\* Steps that leave the map, the table and the worker at it alone.
LEMMA MapUnchanged ==
    ASSUME MapInv, UNCHANGED <<unique, table, users, failed, damaged>>,
           \A w \in Workers : w \in Filing <=> pc'[w] \in {"insert", "inserting"},
           \A w \in Workers : pc'[w] = "inserting" <=> pc[w] = "inserting",
           \A w \in Filing : page'[w] = page[w] /\ job'[w] = job[w],
           \A w \in Workers : page'[w] = "welcome" => page[w] = "welcome" /\ job'[w] = job[w]
    PROVE  MapInv'
<1>1. Filing' = Filing /\ Inserting' = Inserting /\ Regular' = Regular
  BY DEF Filing, Inserting, Regular
<1>2. \A w \in Filing : Row(w)' = Row(w) /\ (pc[w] = "insert" => pc'[w] = "insert")
  BY DEF Row, Filing
<1>3. Inserting \subseteq Filing
  BY DEF Filing, Inserting
<1>4. ~damaged => WelcomeIsRight'
  BY <1>1, <1>3 DEF MapInv, WelcomeIsRight
<1>5. NamesInv' /\ EntriesInv' /\ (Regular' => RowsInv')
  BY <1>1, <1>2 DEF MapInv, NamesInv, EntriesInv, RowsInv
<1> QED BY <1>1, <1>3, <1>4, <1>5 DEF MapInv

LEMMA MapQuery ==
    ASSUME BaseInv, WinInv, MapInv, NEW w \in Workers, Query(w)
    PROVE  MapInv'
<1> DEFINE n == job[w].name
           row == <<n, job[w].password>>
<1>1. /\ pc[w] = "query" /\ job[w] \in Jobs
      /\ pc \in [Workers -> {"idle", "find", "compare", "lock", "answer"} \cup Holding]
      /\ page \in [Workers -> Pages \cup {None}] /\ "log" \in Pages
      /\ users \in [Names -> Passwords \cup {None, Empty}]
      /\ table \in SUBSET (Names \X Passwords) /\ None \notin Passwords
  BY AccountsAssumption DEF Query, BaseInv, TypeOK, Pages, AccountsAssumption
<1>2. /\ row \in Names \X Passwords /\ row[1] = n /\ n \in Names
      /\ row = Row(w)
  BY <1>1 DEF Jobs, Row
<1>3. UNCHANGED <<unique, users, job, damaged>> /\ pc' = [pc EXCEPT ![w] = "insert"]
  BY DEF Query, Goto
<1>4. Filing = {} /\ Inserting = {}
  <2>1. \A v \in Workers : pc[v] \in {"insert", "inserting"} => v = w
    BY <1>1, OneHolding DEF BaseInv, Holding
  <2> QED BY <1>1, <2>1 DEF Filing, Inserting
<1>5. Filing' = {w} /\ Inserting' = {} /\ pc'[w] = "insert"
  BY <1>1, <1>3, <1>4 DEF Filing, Inserting
<1>6. \A v \in Workers : v # w => page'[v] = page[v]
  BY <1>1 DEF Query, Outcome, Decide
<1>7. page'[w] \in {"log", "registerError"}
  BY <1>1 DEF Query, Outcome, Decide
<1>8. ~damaged' => WelcomeIsRight'
  BY <1>3, <1>4, <1>5, <1>6, <1>7 DEF MapInv, WelcomeIsRight
<1>9. /\ \A r \in table : users[r[1]] # None
      /\ Regular => /\ \A m \in Names : users[m] # Empty
                    /\ \A r \in table : r[1] \notin failed => users[r[1]] = r[2]
  BY <1>4 DEF MapInv, NamesInv, RowsInv
<1>10. Regular' = Regular /\ Row(w)' = Row(w)
  BY <1>3 DEF Regular, Row
<1>11. NamesInv' /\ EntriesInv' /\ (Regular => RowsInv')
  <2>1. CASE Taken(row) /\ table' = table \cup {row} /\ Outcome(w, TRUE) /\ UNCHANGED failed
    <3>1. page'[w] = "log"
      BY <1>1, <2>1 DEF Outcome, Decide
    <3>2. ASSUME Regular, n \notin failed
          PROVE  users[n] = None
      <4>1. \A t \in Passwords : <<n, t>> \notin table
        <5> SUFFICES ASSUME NEW t \in Passwords, <<n, t>> \in table PROVE FALSE
          OBVIOUS
        <5>1. <<n, t>>[1] # row[1]
          BY <2>1, <3>2 DEF Taken, Regular
        <5> QED BY <1>2, <5>1
      <4>2. \A t \in Passwords : users[n] # t
        BY <1>2, <3>2, <4>1 DEF MapInv, EntriesInv
      <4> QED BY <1>1, <1>2, <1>9, <3>2, <4>2
    <3>3. NamesInv'
      BY <1>2, <1>3, <1>5, <1>9, <1>10, <2>1, <3>1 DEF NamesInv
    <3>4. EntriesInv'
      BY <1>3, <1>5, <2>1, <3>1 DEF MapInv, EntriesInv
    <3>5. Regular => RowsInv'
      BY <1>2, <1>3, <1>5, <1>9, <1>10, <2>1, <3>1, <3>2 DEF RowsInv
    <3> QED BY <3>3, <3>4, <3>5
  <2>2. CASE /\ Outcome(w, FALSE) /\ UNCHANGED table
             /\ failed' = failed \cup (IF Taken(row) THEN {n} ELSE {})
    <3>1. page'[w] = "registerError"
      BY <1>1, <2>2 DEF Outcome, Decide
    <3>2. n \in failed' \/ users[n] # None
      <4>1. CASE Taken(row)
        BY <2>2, <4>1
      <4>2. CASE ~Taken(row)
        <5>1. PICK q \in table : q[1] = n
          BY <1>2, <4>2 DEF Taken
        <5> QED BY <1>9, <5>1
      <4> QED BY <4>1, <4>2
    <3>3. failed \subseteq failed'
      BY <2>2
    <3>4. NamesInv'
      BY <1>3, <1>9, <2>2 DEF NamesInv
    <3>5. EntriesInv'
      BY <1>3, <1>5, <2>2, <3>2, <3>3 DEF MapInv, EntriesInv
    <3>6. Regular => RowsInv'
      BY <1>3, <1>5, <1>9, <2>2, <3>1, <3>2, <3>3 DEF RowsInv
    <3> QED BY <3>4, <3>5, <3>6
  <2> QED BY <2>1, <2>2 DEF Query
<1> QED BY <1>5, <1>8, <1>10, <1>11 DEF MapInv

LEMMA MapInsert ==
    ASSUME BaseInv, MapInv, NEW w \in Workers, Insert(w)
    PROVE  MapInv'
<1>1. /\ pc[w] = "insert" /\ page[w] \in {"log", "registerError"} /\ job[w] \in Jobs
      /\ UNCHANGED <<unique, table, users, failed, damaged, job, page>>
      /\ pc \in [Workers -> {"idle", "find", "compare", "lock", "answer"} \cup Holding]
      /\ pc' = [pc EXCEPT ![w] = IF users[job[w].name] = None THEN "inserting" ELSE "unlock"]
  BY DEF Insert, Goto, BaseInv, TypeOK, PageInv
<1>2. /\ Filing' = IF users[job[w].name] = None THEN Filing ELSE Filing \ {w}
      /\ Inserting' = IF users[job[w].name] = None THEN Inserting \cup {w} ELSE Inserting
      /\ w \in Filing /\ Filing' \subseteq Filing /\ Filing \subseteq Workers
      /\ w \in Filing' => users[job[w].name] = None
  BY <1>1 DEF Filing, Inserting
<1>3. Regular' = Regular /\ \A v \in Workers : Row(v)' = Row(v)
  BY <1>1 DEF Regular, Row
<1>4. ~damaged' => WelcomeIsRight' /\ \A v \in Inserting' : users'[job'[v].name] = None
  BY <1>1, <1>2 DEF MapInv, WelcomeIsRight
<1>5. \A v \in Filing : v # w => v \in Filing' /\ pc'[v] = pc[v]
  BY <1>1, <1>2
<1>6. NamesInv'
  <2> SUFFICES ASSUME NEW r \in table, users[r[1]] = None
               PROVE  \E v \in Filing' : page[v] = "log" /\ Row(v) = r
    BY <1>1, <1>2, <1>3 DEF NamesInv
  <2>1. PICK v \in Filing : page[v] = "log" /\ Row(v) = r
    BY DEF MapInv, NamesInv
  <2>2. v = w => users[job[w].name] = None
    BY <2>1 DEF Row
  <2>3. v \in Filing'
    BY <1>2, <1>5, <2>2
  <2> QED BY <2>1, <2>3
<1>7. EntriesInv'
  <2> SUFFICES ASSUME NEW v \in Filing'
               PROVE  \/ page[v] = "log" \/ job[v].name \in failed
                      \/ pc'[v] = "insert" /\ users[job[v].name] # None
    BY <1>1 DEF MapInv, EntriesInv
  <2>1. \/ page[v] = "log" \/ job[v].name \in failed
        \/ pc[v] = "insert" /\ users[job[v].name] # None
    BY <1>2 DEF MapInv, EntriesInv
  <2> QED BY <1>2, <1>5, <2>1
<1>8. ASSUME Regular
      PROVE  RowsInv'
  <2>1. users[job[w].name] # None /\ job[w].name \notin failed => page[w] # "log"
    BY <1>2, <1>8 DEF MapInv, RowsInv
  <2>2. ASSUME NEW r \in table, r[1] \notin failed, users[r[1]] # r[2]
        PROVE  \E v \in Filing' : page[v] = "log" /\ Row(v) = r
    <3>1. PICK v \in Filing : page[v] = "log" /\ Row(v) = r
      BY <1>8, <2>2 DEF MapInv, RowsInv
    <3>2. v = w => job[w].name = r[1]
      BY <3>1 DEF Row
    <3>3. v \in Filing'
      BY <1>2, <1>5, <2>1, <2>2, <3>1, <3>2
    <3> QED BY <3>1, <3>3
  <2> QED BY <1>1, <1>2, <1>3, <1>8, <2>2 DEF MapInv, RowsInv
<1> QED BY <1>3, <1>4, <1>6, <1>7, <1>8 DEF MapInv

LEMMA MapInserted ==
    ASSUME BaseInv, WinInv, MapInv, NEW w \in Workers, Inserted(w)
    PROVE  MapInv'
<1>1. /\ pc[w] = "inserting" /\ job[w] \in Jobs /\ job \in [Workers -> Jobs \cup {NoJob}]
      /\ UNCHANGED <<unique, table, failed, damaged, job, page>>
      /\ pc \in [Workers -> {"idle", "find", "compare", "lock", "answer"} \cup Holding]
      /\ users \in [Names -> Passwords \cup {None, Empty}]
      /\ table \in SUBSET (Names \X Passwords)
      /\ pc' = [pc EXCEPT ![w] = "unlock"]
      /\ users' = [users EXCEPT ![job[w].name] = job[w].password]
      /\ None \notin Passwords /\ Empty \notin Passwords
  BY AccountsAssumption DEF Inserted, Goto, BaseInv, TypeOK, AccountsAssumption
<1>2. /\ job[w].name \in Names /\ job[w].password \in Passwords
      /\ Row(w)[1] = job[w].name /\ Row(w)[2] = job[w].password
  BY <1>1 DEF Jobs, Row
<1>3. \A n \in Names : users'[n] = IF n = job[w].name THEN job[w].password ELSE users[n]
  BY <1>1, <1>2
<1>4. Filing = {w} /\ Inserting = {w} /\ Filing' = {} /\ Inserting' = {}
  <2>1. \A v \in Workers : pc[v] \in {"insert", "inserting"} => v = w
    BY <1>1, OneHolding DEF BaseInv, Holding
  <2> QED BY <1>1, <2>1 DEF Filing, Inserting
<1>5. Regular' = Regular
  BY <1>1 DEF Regular
<1>6. ASSUME ~damaged, NEW v \in Workers, page[v] = "welcome"
      PROVE  users'[job[v].name] = job[v].password
  <2>1. job[v] \in Jobs
    BY <1>6 DEF BaseInv, PageInv
  <2>2. job[v].name \in Names /\ job[v].password \in Passwords
    BY <2>1 DEF Jobs
  <2>3. \/ users[job[v].name] = job[v].password
        \/ job[w].name = job[v].name /\ job[w].password = job[v].password
    BY <1>4, <1>6 DEF MapInv, WelcomeIsRight
  <2>4. users[job[w].name] = None
    BY <1>4, <1>6 DEF MapInv
  <2> QED BY <1>1, <1>3, <2>2, <2>3, <2>4
<1>7. ~damaged' => WelcomeIsRight'
  BY <1>1, <1>6 DEF WelcomeIsRight
<1>8. \A r \in table : r[1] \in Names /\ (Row(w) = r => job[w].name = r[1])
  BY <1>1 DEF Row
<1>9. NamesInv'
  BY <1>1, <1>2, <1>3, <1>4, <1>8 DEF MapInv, NamesInv
<1>10. page[w] = "log" \/ job[w].name \in failed
  BY <1>1, <1>4 DEF MapInv, EntriesInv
<1>11. EntriesInv'
  <2>1. page[w] = "log" => <<job[w].name, job[w].password>> \in table
    BY DEF WinInv, Row
  <2> QED BY <1>1, <1>2, <1>3, <1>4, <1>10, <2>1 DEF MapInv, EntriesInv
<1>12. ASSUME Regular
       PROVE  RowsInv'
  <2>1. \A n \in Names : users'[n] # Empty
    BY <1>1, <1>2, <1>3, <1>12 DEF MapInv, RowsInv
  <2>2. ASSUME NEW r \in table, r[1] \notin failed PROVE users'[r[1]] = r[2]
    <3>1. CASE r[1] = job[w].name
      <4>1. page[w] = "log" /\ Row(w) \in table
        BY <1>10, <2>2, <3>1 DEF WinInv
      <4>2. r = Row(w)
        BY <1>2, <1>12, <3>1, <4>1 DEF WinInv, Regular
      <4> QED BY <1>2, <1>3, <4>2
    <3>2. CASE r[1] # job[w].name
      <4>1. users[r[1]] = r[2]
        BY <1>4, <1>8, <1>12, <2>2, <3>2 DEF MapInv, RowsInv
      <4> QED BY <1>3, <1>8, <3>2, <4>1
    <3> QED BY <3>1, <3>2
  <2> QED BY <1>1, <1>4, <2>1, <2>2 DEF RowsInv
<1> QED BY <1>4, <1>5, <1>7, <1>9, <1>11, <1>12 DEF MapInv

LEMMA MapCompare ==
    ASSUME BaseInv, MapInv, NEW w \in Workers, Compare(w)
    PROVE  MapInv'
<1>1. /\ pc[w] = "compare" /\ page \in [Workers -> Pages \cup {None}] /\ job[w] \in Jobs
      /\ UNCHANGED <<unique, table, failed, job>>
      /\ pc \in [Workers -> {"idle", "find", "compare", "lock", "answer"} \cup Holding]
      /\ pc' = [pc EXCEPT ![w] = "answer"]
      /\ users \in [Names -> Passwords \cup {None, Empty}]
      /\ table \in SUBSET (Names \X Passwords)
      /\ Empty \notin Passwords \cup {None}
  BY AccountsAssumption DEF Compare, Goto, BaseInv, TypeOK, AccountsAssumption
<1>2. PICK ok \in BOOLEAN : Lookup(w, ok) /\ Decide(w, IF ok THEN "welcome" ELSE "logError")
  BY DEF Compare
<1>3. /\ Filing' = Filing /\ Inserting' = Inserting
      /\ \A v \in Workers : v # w => page'[v] = page[v] /\ pc'[v] = pc[v]
      /\ page'[w] = IF ok THEN "welcome" ELSE "logError"
      /\ w \notin Filing /\ Filing \subseteq Workers
      /\ \A v \in Workers : Row(v)' = Row(v)
  BY <1>1, <1>2 DEF Filing, Inserting, Decide, Row
<1>4. \A v \in Filing : page'[v] = page[v] /\ pc'[v] = pc[v]
  BY <1>3
<1>5. \/ UNCHANGED <<users, damaged>>
      \/ damaged' = TRUE /\ users' \in {users, [users EXCEPT ![job[w].name] = Empty]}
  BY <1>2 DEF Lookup
<1>6. \A n \in Names : users'[n] = users[n] \/ users'[n] = Empty
  BY <1>1, <1>5
<1>7. NamesInv' /\ EntriesInv'
  <2>1. \A n \in Names : /\ users[n] # None => users'[n] # None
                         /\ \A t \in Passwords : users'[n] = t => users[n] = t
    BY <1>1, <1>6
  <2>2. /\ \A r \in table : r[1] \in Names
        /\ \A v \in Filing : job[v].name \in Names
    <3>1. \A v \in Filing : job[v] \in Jobs
      BY DEF Filing, BaseInv, TypeOK
    <3> QED BY <1>1, <3>1 DEF Jobs
  <2>3. NamesInv'
    BY <1>1, <1>3, <1>4, <2>1, <2>2 DEF MapInv, NamesInv
  <2>4. EntriesInv'
    BY <1>1, <1>3, <1>4, <2>1, <2>2 DEF MapInv, EntriesInv
  <2> QED BY <2>3, <2>4
<1>8. CASE damaged' = TRUE
  BY <1>7, <1>8 DEF MapInv, Regular
<1>9. CASE UNCHANGED <<users, damaged>>
  <2>1. Regular' = Regular
    BY <1>1, <1>9 DEF Regular
  <2>2. ~damaged => \A v \in Inserting' : users'[job'[v].name] = None
    BY <1>1, <1>3, <1>9 DEF MapInv
  <2>3. ASSUME ~damaged, NEW v \in Workers, page'[v] = "welcome"
        PROVE  \/ users[job[v].name] = job[v].password
               \/ \E u \in Inserting : job[u].name = job[v].name /\ job[u].password = job[v].password
    <3>1. CASE v # w
      BY <1>3, <2>3, <3>1 DEF MapInv, WelcomeIsRight
    <3>2. CASE v = w
      BY <1>2, <1>3, <2>3, <3>2 DEF Lookup
    <3> QED BY <3>1, <3>2
  <2>4. ~damaged => WelcomeIsRight'
    BY <1>1, <1>3, <1>9, <2>3 DEF WelcomeIsRight
  <2>5. Regular => RowsInv'
    BY <1>1, <1>3, <1>4, <1>9 DEF MapInv, RowsInv
  <2> QED BY <1>7, <1>9, <2>1, <2>2, <2>4, <2>5 DEF MapInv
<1> QED BY <1>5, <1>8, <1>9

LEMMA MapRestart ==
    ASSUME BaseInv, WinInv, Restart
    PROVE  MapInv'
<1>1. Filing' = {} /\ Inserting' = {} /\ \A w \in Workers : page'[w] = None
  BY DEF Restart, Filing, Inserting
<1>2. WelcomeIsRight'
  BY <1>1 DEF WelcomeIsRight, BaseInv, Pages
<1>3. /\ users' \in Loaded(table) /\ UNCHANGED <<unique, table>>
      /\ table \in SUBSET (Names \X Passwords)
      /\ Empty \notin Passwords \cup {None} /\ None \notin Passwords
  BY AccountsAssumption DEF Restart, init_mysql, BaseInv, TypeOK, AccountsAssumption
<1>4. /\ \A n \in Names : users'[n] # None => <<n, users'[n]>> \in table'
      /\ \A n \in Names : users'[n] \in Passwords \cup {None}
  BY <1>3 DEF Loaded
<1>5. ASSUME NEW r \in table
      PROVE  users'[r[1]] # None /\ (unique => users'[r[1]] = r[2])
  <2>1. r[1] \in Names
    BY <1>3, <1>5
  <2>2. users'[r[1]] # None
    BY <1>3, <1>5, <2>1 DEF Loaded
  <2>3. <<r[1], users'[r[1]]>> \in table
    BY <1>3, <1>4, <2>1, <2>2
  <2>4. ASSUME unique PROVE <<r[1], users'[r[1]]>> = r
    <3> DEFINE q == <<r[1], users'[r[1]]>>
    <3>1. q \in table /\ q[1] = r[1]
      BY <2>3
    <3> HIDE DEF q
    <3>2. q = r
      BY <1>5, <2>4, <3>1 DEF WinInv
    <3> QED BY <3>2 DEF q
  <2>5. <<r[1], users'[r[1]]>> = r => users'[r[1]] = r[2]
    OBVIOUS
  <2> QED BY <2>2, <2>4, <2>5
<1>6. NamesInv'
  BY <1>3, <1>5 DEF NamesInv
<1>7. EntriesInv'
  BY <1>1, <1>3, <1>4 DEF EntriesInv
<1>8. Regular' => RowsInv'
  BY <1>1, <1>3, <1>4, <1>5 DEF Regular, RowsInv
<1> QED BY <1>1, <1>2, <1>6, <1>7, <1>8 DEF MapInv

IInv == BaseInv /\ WinInv /\ MapInv

LEMMA MapInductive == IInv /\ [Next]_vars => MapInv'
<1> SUFFICES ASSUME IInv, [Next]_vars PROVE MapInv'
  OBVIOUS
<1> USE DEF IInv
<1>a. /\ pc \in [Workers -> {"idle", "find", "compare", "lock", "answer"} \cup Holding]
      /\ page \in [Workers -> Pages \cup {None}] /\ job \in [Workers -> Jobs \cup {NoJob}]
      /\ \A w \in Workers : page[w] = "welcome" => pc[w] = "answer"
      /\ None \notin Pages /\ "welcome" \in Pages
  BY DEF BaseInv, TypeOK, PageInv, Pages
<1>1. ASSUME NEW w \in Workers, NEW j \in Jobs, Begin(w, j) PROVE MapInv'
  <2>1. /\ UNCHANGED <<unique, table, users, failed, damaged, page>> /\ pc[w] = "idle"
        /\ pc' = [pc EXCEPT ![w] = "find"] /\ job' = [job EXCEPT ![w] = j]
    BY <1>1 DEF Begin, Goto
  <2> QED BY <1>a, <2>1, MapUnchanged DEF Filing
<1>2. ASSUME NEW w \in Workers, Find(w) PROVE MapInv'
  <2>1. /\ UNCHANGED <<unique, table, users, failed, damaged, job>> /\ pc[w] = "find"
        /\ pc' \in {[pc EXCEPT ![w] = l] : l \in {"answer", "compare", "lock"}}
        /\ page' \in {page} \cup {[page EXCEPT ![w] = g] : g \in {"registerError", "logError"}}
    BY <1>2 DEF Find, Found, Missed, Goto, Decide
  <2> QED BY <1>a, <2>1, MapUnchanged DEF Filing
<1>3. ASSUME NEW w \in Workers, Lock(w) PROVE MapInv'
  <2>1. /\ UNCHANGED <<unique, table, users, failed, damaged, job, page>> /\ pc[w] = "lock"
        /\ pc' = [pc EXCEPT ![w] = "query"]
    BY <1>3 DEF Lock, Goto
  <2> QED BY <1>a, <2>1, MapUnchanged DEF Filing
<1>4. ASSUME NEW w \in Workers, Query(w) PROVE MapInv'
  BY <1>4, MapQuery
<1>5. ASSUME NEW w \in Workers, Insert(w) PROVE MapInv'
  BY <1>5, MapInsert
<1>6. ASSUME NEW w \in Workers, Inserted(w) PROVE MapInv'
  BY <1>6, MapInserted
<1>7. ASSUME NEW w \in Workers, Unlock(w) PROVE MapInv'
  <2>1. /\ UNCHANGED <<unique, table, users, failed, damaged, job, page>> /\ pc[w] = "unlock"
        /\ pc' = [pc EXCEPT ![w] = "answer"]
    BY <1>7 DEF Unlock, Goto
  <2> QED BY <1>a, <2>1, MapUnchanged DEF Filing
<1>8. ASSUME NEW w \in Workers, Compare(w) PROVE MapInv'
  BY <1>8, MapCompare
<1>9. ASSUME NEW w \in Workers, Answer(w) PROVE MapInv'
  <2>1. /\ UNCHANGED <<unique, table, users, failed, damaged>> /\ pc[w] = "answer"
        /\ pc' = [pc EXCEPT ![w] = "idle"] /\ job' = [job EXCEPT ![w] = NoJob]
        /\ page' = [page EXCEPT ![w] = None]
    BY <1>9 DEF Answer, Goto
  <2> QED BY <1>a, <2>1, MapUnchanged DEF Filing
<1>10. CASE Restart
  BY <1>10, MapRestart
<1>11. CASE UNCHANGED vars
  BY <1>11, MapUnchanged DEF vars, Filing
<1> QED BY <1>1, <1>2, <1>3, <1>4, <1>5, <1>6, <1>7, <1>8, <1>9, <1>10, <1>11 DEF Next, Step

LEMMA Invariant == Spec => []IInv
<1>1. Init => IInv
  <2> SUFFICES ASSUME Init PROVE IInv
    OBVIOUS
  <2>1. BaseInv
    BY TypesInitially, AccountsAssumption DEF Init, BaseInv, PageInv, Pages, AccountsAssumption
  <2>2. \A w \in Workers : pc[w] = "idle" /\ page[w] = None
    BY DEF Init
  <2>3. WinInv
    BY <2>1, <2>2 DEF Init, WinInv, BaseInv, Pages
  <2>4. MapInv
    BY <2>1, <2>2, AccountsAssumption DEF Init, MapInv, WelcomeIsRight, Inserting, Filing, BaseInv, Pages,
           NamesInv, EntriesInv, RowsInv, AccountsAssumption
  <2> QED BY <2>1, <2>3, <2>4 DEF IInv
<1>2. IInv /\ [Next]_vars => IInv'
  BY PagesInductive, WinInductive, MapInductive DEF IInv
<1> QED BY <1>1, <1>2, PTL DEF Spec

\* Every registration that was answered with success has its row, whatever key the table
\* has and whatever INSERT fails.  With a unique key it is also what the map knows of the
\* name, through races and restarts, unless another INSERT of the name failed since the
\* start or a search has put an entry into the map.
THEOREM AlwaysRemembered == Spec => []Remembered
<1>1. IInv => Remembered
  <2> SUFFICES ASSUME IInv PROVE Remembered
    OBVIOUS
  <2>1. told \subseteq table
    BY DEF IInv, WinInv
  <2>2. ASSUME Regular, NEW r \in told, r[1] \notin failed PROVE users[r[1]] = r[2]
    <3>1. r \in table
      BY <2>2 DEF IInv, WinInv
    <3>2. \A w \in Workers : page[w] = "log" => Row(w) # r
      BY <2>2 DEF Regular, IInv, WinInv, Row
    <3> QED BY <2>2, <3>1, <3>2 DEF IInv, MapInv, RowsInv, Filing
  <2> QED BY <2>1, <2>2 DEF Remembered, Regular
<1> QED BY <1>1, Invariant, PTL

\* With nobody at a registration every row has its name in the map, and every password in
\* the map is that of a row but for the names whose INSERT failed.  With a unique key and
\* no entry made by a search, the entry of any other name is that of its row.
THEOREM MapIsTable == Spec => []Agree
<1>1. IInv => Agree
  <2> SUFFICES ASSUME IInv, \A w \in Workers : pc[w] \notin Holding PROVE Agree
    BY DEF Agree
  <2>1. Filing = {}
    BY DEF Filing, Holding
  <2>2. \A r \in table : users[r[1]] # None
    BY <2>1 DEF IInv, MapInv, NamesInv
  <2>3. \A n \in Names, t \in Passwords : users[n] = t => <<n, t>> \in table \/ n \in failed
    BY DEF IInv, MapInv, EntriesInv
  <2>4. Regular => \A r \in table : r[1] \notin failed => users[r[1]] = r[2]
    BY <2>1 DEF IInv, MapInv, RowsInv
  <2> QED BY <2>2, <2>3, <2>4 DEF Agree, Regular
<1> QED BY <1>1, Invariant, PTL

\* Nobody is welcomed with a password that is not on record, though the map is searched
\* without the lock; as long as no search has put an entry into the map.
THEOREM WelcomeRight == Spec => []WelcomeIsRight
<1>1. IInv => WelcomeIsRight
  BY DEF IInv, MapInv, WelcomeIsRight
<1> QED BY <1>1, Invariant, PTL
=============================================================================
